--------------------------------- MODULE Brdd --------------------------------
(***************************************************************************)
(* The encrypting RAM disk of CS444_project3_46/brdd.c on a request queue   *)
(* whose elevator is sstf: loading and unloading of the module, and the     *)
(* request function, which works off the whole queue with the queue's lock. *)
(*                                                                         *)
(* The disk is kept by cipher blocks, BlocksPerSector to a sector.  A block *)
(* is known by whose it is, whatever it holds: part i of a bio's data, plain *)
(* or encrypted, with the key or before the cipher had it.  brdd_init runs  *)
(* beside the request function from add_disk on.                            *)
(*                                                                         *)
(* The block layer is external: it submits bios, merges those that touch,   *)
(* and moves all requests to its dispatch list when it changes the elevator. *)
(* It submits file system requests only: the driver has no ioctl to make    *)
(* others.  A bio is one segment, since the driver works off and ends a     *)
(* segment at a time; one of several is like several that were merged.      *)
(***************************************************************************)
EXTENDS Sstf

CONSTANT BlocksPerSector    \* logical_block_size / cipher block size

\* The block layer keeps bios inside the capacity that brdd_init sets, and
\* so there are finitely many; the disk has a sector.
ASSUME DiskAssumption ==
    /\ IsFiniteSet(Sectors) /\ Sectors = 0 .. Cardinality(Sectors) - 1
    /\ 0 \in Sectors
    /\ IsFiniteSet(Bios)
    /\ \A b \in Bios : b.sector + b.nsect <= Cardinality(Sectors)
ASSUME BlocksAssumption == BlocksPerSector \in Nat \ {0}

VARIABLES
    dispatched,     \* the block layer's dispatch list
    inflight,       \* bios submitted and not yet ended
    pc,             \* the request function
    req,            \* its request
    buffer,         \* the memory of the bio at the front of req
    disk,           \* Device.data, by cipher blocks
    stage,          \* of brdd_init and brdd_exit
    tfm,            \* the cipher
    oops            \* the kernel followed a tfm that is no cipher

driver == <<pc, req, buffer, disk>>
module == <<stage, tfm, oops>>
vars == <<elevator, dispatched, inflight, driver, module>>

DiskBlocks == 0 .. Cardinality(Sectors) * BlocksPerSector - 1

\* Cipher block i of the bio's data.
Part(b, i) == [bio |-> b, part |-> i, code |-> "plain"]

Coded(codes) == [bio : Bios \cup {Nil}, part : DiskBlocks, code : codes]

\* What the cipher makes of a block, with its key and before it has that.
Codes == {"keyed", "stray"}

Encrypt(block, code) == [block EXCEPT !.code = code]

\* What may come out: two blocks that the cipher made and read before it had
\* its key were made and read alike, or else setkey was at work.
Decrypt(block, code) ==
    LET outcomes == IF code # block.code THEN {"garbled"}
                    ELSE IF code = "keyed" THEN {"plain"}
                    ELSE {"plain", "garbled"}
    IN  {[block EXCEPT !.code = c] : c \in outcomes}

\* The disk is there, and can be read and written: "adding", from add_disk to
\* crypto_alloc_cipher, "keying", from there to the end of
\* crypto_cipher_setkey, and "loaded".
Live == {"adding", "keying", "loaded"}

\* "removed": past del_gendisk.  tfm is NULL, what crypto_alloc_cipher returns
\* when it fails, or a cipher.
TypeOK ==
    /\ queue \in Seq(Requests)
    /\ bios \in [Requests -> Seq(Bios)]
    /\ end_sector \in Ends
    /\ dispatched \subseteq Requests
    /\ inflight \subseteq Bios
    /\ pc \in {"idle", "transfer", "end"}
    /\ req \in Requests \cup {Nil}
    /\ buffer \in [DiskBlocks -> Coded({"plain", "garbled"}) \cup {Nil}]
    /\ disk \in [DiskBlocks -> Coded(Codes)]
    /\ stage \in Live \cup {"out", "removed"}
    /\ tfm \in {"null", "error", "unkeyed", "keyed"}
    /\ oops \in BOOLEAN

Unread == [i \in DiskBlocks |-> Nil]

\* What vmalloc returns holds something.
NewDisk == [c \in DiskBlocks |-> Encrypt(Part(Nil, c), "stray")]

Init ==
    /\ queue = <<>>
    /\ bios = [r \in Requests |-> <<>>]
    /\ end_sector = 0
    /\ dispatched = {}
    /\ inflight = {}
    /\ pc = "idle"
    /\ req = Nil
    /\ buffer = Unread
    /\ disk = NewDisk
    /\ stage = "out"
    /\ tfm = "null"
    /\ oops = FALSE

-----------------------------------------------------------------------------
(* The block layer: external                                               *)

MaySubmit(b) == b \notin inflight /\ pc = "idle" /\ stage \in Live

SameWay(b, r) == Head(bios[r]).write = b.write

NewRequest(b) ==
    /\ MaySubmit(b)
    /\ \E r \in {q \in Requests : bios[q] = <<>>} :
          bios' = [bios EXCEPT ![r] = <<b>>] /\ AddRequest(r, b.sector)
    /\ inflight' = inflight \cup {b}
    /\ UNCHANGED <<end_sector, dispatched, driver, module>>

\* The bio is added to the end of a request; if that now touches the one
\* behind it in the queue, the two become one.
BackMerge(b) ==
    /\ MaySubmit(b)
    /\ \E r \in Queued :
          LET next == LatterRequest(r)
          IN  /\ SameWay(b, r) /\ End(r) = b.sector
              /\ IF next # Nil /\ SameWay(b, next) /\ Pos(next) = b.sector + b.nsect
                 THEN /\ bios' = [bios EXCEPT ![r] = @ \o <<b>> \o bios[next], ![next] = <<>>]
                      /\ MergedRequests(r, next)
                 ELSE /\ bios' = [bios EXCEPT ![r] = Append(@, b)]
                      /\ UNCHANGED queue
    /\ inflight' = inflight \cup {b}
    /\ UNCHANGED <<end_sector, dispatched, driver, module>>

\* The same at the front of a request, with the one ahead of it.
FrontMerge(b) ==
    /\ MaySubmit(b)
    /\ \E r \in Queued :
          LET prev == FormerRequest(r)
          IN  /\ SameWay(b, r) /\ Pos(r) = b.sector + b.nsect
              /\ IF prev # Nil /\ SameWay(b, prev) /\ End(prev) = b.sector
                 THEN /\ bios' = [bios EXCEPT ![prev] = @ \o <<b>> \o bios[r], ![r] = <<>>]
                      /\ MergedRequests(prev, r)
                 ELSE /\ bios' = [bios EXCEPT ![r] = <<b>> \o @]
                      /\ UNCHANGED queue
    /\ inflight' = inflight \cup {b}
    /\ UNCHANGED <<end_sector, dispatched, driver, module>>

\* Where the last request that the queue handed out ended; only additions to
\* the queue look at it, and they wait for the request function.
EndSectorMoves ==
    /\ pc = "idle"
    /\ end_sector' \in Ends
    /\ UNCHANGED <<queue, bios, dispatched, inflight, driver, module>>

\* Another elevator is chosen, and sstf again.
SwitchElevator ==
    /\ pc = "idle" /\ queue # <<>>
    /\ dispatched' = dispatched \cup Queued
    /\ NewElevator
    /\ UNCHANGED <<bios, end_sector, inflight, driver, module>>

\* blk_fetch_request: from the dispatch list, or else from the elevator.
Fetch ==
    IF dispatched # {}
    THEN /\ req' \in dispatched
         /\ dispatched' = dispatched \ {req'}
         /\ UNCHANGED queue
    ELSE /\ Dispatch
         /\ req' = Head(queue)
         /\ UNCHANGED dispatched

NothingToFetch == dispatched = {} /\ queue = <<>>

-----------------------------------------------------------------------------
(* The request function                                                    *)

StartRequests ==
    /\ pc = "idle" /\ stage \in Live
    /\ Fetch
    /\ pc' = "transfer"
    /\ UNCHANGED <<bios, end_sector, inflight, buffer, disk, module>>

\* bio_data(req->bio), blk_rq_cur_sectors(req)
Bio == Head(bios[req])

\* The cipher blocks of a transfer, and where they are on the disk.
Blocks(b) == b.nsect * BlocksPerSector
Span(b) == 0 .. Blocks(b) - 1
Offset(b) == b.sector * BlocksPerSector

\* The cipher block from which on a transfer finds the key set: brdd_init
\* does not take the queue's lock for that, and may come in the middle.
KeyedFrom(b) == IF tfm = "keyed" THEN {0} ELSE 0 .. Blocks(b)

\* What it makes of cipher block i if it finds the key from block k on.
Code(i, k) == IF i < k THEN "stray" ELSE "keyed"

\* Plausible bug: as in a read, every block goes to the same place.
WriteToStart(b, k) ==
    [disk EXCEPT ![Offset(b)] = Encrypt(Part(b, Blocks(b) - 1), Code(Blocks(b) - 1, k))]

\* Plausible bug: the blocks are copied, as in the driver this one was made of.
WrittenPlain(b, k) ==
    [c \in DiskBlocks |-> IF c - Offset(b) \in Span(b) THEN Part(b, c - Offset(b)) ELSE disk[c]]

Written(b, k) ==
    [c \in DiskBlocks |->
        IF c - Offset(b) \in Span(b)
        THEN Encrypt(Part(b, c - Offset(b)), Code(c - Offset(b), k)) ELSE disk[c]]

\* Every block is decrypted to the start of the buffer: the last one stays.
Read(b, k) ==
    LET last == Blocks(b) - 1
    IN  {[buffer EXCEPT ![0] = x] : x \in Decrypt(disk[Offset(b) + last], Code(last, k))}

\* brdd_transfer
Transfer ==
    /\ pc = "transfer" /\ tfm \in {"unkeyed", "keyed"}
    /\ \E k \in KeyedFrom(Bio) :
          /\ tfm' = IF k = Blocks(Bio) THEN tfm ELSE "keyed"
          /\ IF Bio.write
             THEN disk' = Written(Bio, k) /\ UNCHANGED buffer
             ELSE buffer' \in Read(Bio, k) /\ UNCHANGED disk
    /\ pc' = "end"
    /\ UNCHANGED <<elevator, dispatched, inflight, req, stage, oops>>

TransferWithoutCipher ==
    /\ pc = "transfer" /\ tfm \in {"null", "error"}
    /\ oops' = TRUE
    /\ UNCHANGED <<elevator, dispatched, inflight, driver, stage, tfm>>

\* Plausible bug: the next request is fetched whatever is left of this one.
EndBioAndRequest ==
    /\ pc = "end"
    /\ inflight' = inflight \ {Bio}
    /\ bios' = [bios EXCEPT ![req] = Tail(@)]
    /\ buffer' = Unread
    /\ IF NothingToFetch
       THEN pc' = "idle" /\ req' = Nil /\ UNCHANGED <<queue, dispatched>>
       ELSE pc' = "transfer" /\ Fetch
    /\ UNCHANGED <<end_sector, disk, module>>

\* __blk_end_request_cur: go on with the request's next bio or, if that was
\* the last one, with the next request.
EndBio ==
    /\ pc = "end"
    /\ inflight' = inflight \ {Bio}
    /\ bios' = [bios EXCEPT ![req] = Tail(@)]
    /\ buffer' = Unread
    /\ IF Tail(bios[req]) # <<>>
       THEN pc' = "transfer" /\ UNCHANGED <<req, queue, dispatched>>
       ELSE IF NothingToFetch
       THEN pc' = "idle" /\ req' = Nil /\ UNCHANGED <<queue, dispatched>>
       ELSE pc' = "transfer" /\ Fetch
    /\ UNCHANGED <<end_sector, disk, module>>

-----------------------------------------------------------------------------
(* Loading and unloading                                                   *)

\* brdd_init up to add_disk; it may also fail before, with nothing to show.
AddDisk ==
    /\ stage = "out"
    /\ stage' = "adding"
    /\ disk' = NewDisk
    /\ UNCHANGED <<elevator, dispatched, inflight, pc, req, buffer, tfm, oops>>

\* It never returns NULL: the branch for that is never taken.
AllocCipher ==
    /\ stage = "adding"
    /\ stage' = "keying"
    /\ tfm' \in {"unkeyed", "error"}
    /\ UNCHANGED <<elevator, dispatched, inflight, driver, oops>>

\* The key has a length that aes takes, as the default one of 16 bytes has.
SetKey ==
    /\ stage = "keying" /\ tfm # "error"
    /\ stage' = "loaded"
    /\ tfm' = "keyed"
    /\ UNCHANGED <<elevator, dispatched, inflight, driver, oops>>

\* The error that crypto_alloc_cipher returned is taken for a cipher.
SetKeyOfError ==
    /\ stage = "keying" /\ tfm = "error"
    /\ oops' = TRUE
    /\ UNCHANGED <<elevator, dispatched, inflight, driver, stage, tfm>>

\* The module is in use while the disk is open.
DelGendisk ==
    /\ stage = "loaded" /\ inflight = {} /\ pc = "idle"
    /\ stage' = "removed"
    /\ UNCHANGED <<elevator, dispatched, inflight, driver, tfm, oops>>

\* Plausible bug: the cipher is freed before the disk is removed.
FreeCipherFirst ==
    /\ stage = "loaded" /\ tfm = "keyed"
    /\ tfm' = "null"
    /\ UNCHANGED <<elevator, dispatched, inflight, driver, stage, oops>>

FreeCipher ==
    /\ stage = "removed"
    /\ stage' = "out"
    /\ tfm' = "null"
    /\ UNCHANGED <<elevator, dispatched, inflight, driver, oops>>

-----------------------------------------------------------------------------

Submit == \E b \in Bios : NewRequest(b) \/ BackMerge(b) \/ FrontMerge(b)

brdd_request == StartRequests \/ Transfer \/ TransferWithoutCipher \/ EndBio

InitAndExit ==
    AddDisk \/ AllocCipher \/ SetKey \/ SetKeyOfError \/ DelGendisk \/ FreeCipher

Next ==
    \/ ~oops /\ (Submit \/ EndSectorMoves \/ SwitchElevator \/ brdd_request \/ InitAndExit)
    \/ oops /\ UNCHANGED vars

Spec == Init /\ [][Next]_vars

\* The block layer runs the request function of a queue that has requests.
FairSpec == Spec /\ WF_vars(~oops /\ brdd_request)

-----------------------------------------------------------------------------
(* Properties                                                              *)

\* Requests are neither lost nor doubled on their way from the block layer
\* through sstf and its merges to the driver: every bio in flight is in one
\* request, once, and that request is in one place, once; the others are
\* free (sstf-iosched.c:29, :50, :119, :131, brdd.c:158-160).
RequestsOnce ==
    LET busy == Queued \cup dispatched \cup ({req} \ {Nil})
        places == {<<r, i>> : r \in Requests, i \in 1 .. Cardinality(Bios)}
        used == {p \in places : p[2] \in DOMAIN bios[p[1]]}
    IN  /\ Cardinality(busy) =
              Len(queue) + Cardinality(dispatched) + Cardinality({req} \ {Nil})
        /\ \A r \in Requests : bios[r] # <<>> <=> r \in busy
        /\ inflight = {bios[p[1]][p[2]] : p \in used}
        /\ Cardinality(used) = Cardinality(inflight)

\* Data reaches the disk only encrypted and only where it was to go: what
\* a step of the driver changes are blocks of the write being carried out,
\* encrypted with the key once brdd_init is done with it, and when a write is
\* reported as done all its blocks are there, encrypted.  Until then a write
\* may be made with a cipher that has no key, or only from some block on.
WritesLand ==
    [][stage # "out" =>
        /\ \A c \in DiskBlocks : disk'[c] # disk[c] =>
              /\ Bio.write /\ c - Offset(Bio) \in Span(Bio)
              /\ \E code \in Codes :
                    /\ disk'[c] = Encrypt(Part(Bio, c - Offset(Bio)), code)
                    /\ code = "keyed" \/ stage = "keying"
        /\ \A b \in inflight \ inflight' : b.write =>
              \A i \in Span(b) : \E code \in Codes :
                    disk'[Offset(b) + i] = Encrypt(Part(b, i), code)]_vars

\* Nothing uses a cipher that is not there except between add_disk and
\* crypto_alloc_cipher, or when that failed (brdd.c:228-241): unloading
\* frees the cipher only when no request can come any more (:255-262).
CipherThere == oops => stage = "adding" \/ (stage = "keying" /\ tfm = "error")

\* A request that was submitted is ended, whatever is submitted after it and
\* however near that is, unless the kernel stops for want of a cipher.
IoEnds == \A b \in Bios : b \in inflight ~> b \notin inflight \/ oops

\* "encrypts and decrypts data when it is written and read" (brdd.c:17-18):
\* what a read of a loaded disk returns is what its sectors hold, decrypted,
\* be it with the key or without.
ReadsDecrypt ==
    [][\A b \in inflight \ inflight' : stage = "loaded" /\ ~b.write =>
          \A i \in Span(b) : \E code \in Codes :
                buffer[i] \in Decrypt(disk[Offset(b) + i], code)]_vars
=============================================================================
