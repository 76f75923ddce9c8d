----------------------------- MODULE SquashfsRead -----------------------------
(***************************************************************************)
(* squashfs_read_data and get_block_length: a block of the image is read   *)
(* from the device's own blocks and unpacked.                              *)
(*                                                                         *)
(* Readers share the buffer heads of the device, which the kernel counts,  *)
(* and the one zlib stream, under read_data_mutex.  A byte is its address  *)
(* on the device: a block was read if its bytes came out in their order,   *)
(* whatever their values.  A block of metadata starts with its own length  *)
(* in two bytes, and a marker if the image has SQUASHFS_CHECK; the length  *)
(* of a block of data is known to the caller.                              *)
(***************************************************************************)
EXTENDS Integers, Sequences, FiniteSets, FiniteSetsExt

CONSTANTS
  Reader, None,
  D,           \* devblksize
  BlockSize,   \* sblk.block_size
  BytesUsed,   \* sblk.bytes_used
  CheckData,   \* SQUASHFS_CHECK_DATA(flags)
  Swap,        \* msblk->swap
  Block,       \* blocks of the image
  At,          \* [Block -> address], index
  Meta,        \* blocks of metadata: length is 0
  Size,        \* [Block -> bytes on the device]
  Packed,      \* compressed blocks
  Src,         \* [Block -> srclength]
  Corrupt,     \* blocks zlib refuses or that have no marker
  Flaky,       \* bound: blocks of the device that may fail to be read
  MaxReads     \* bound: calls

\* block_size is a whole number of the device's blocks (both are powers of two).  What is
\* read may be longer: metadata and tables have no bound but their own (lines 979-1209).
ASSUME SRAssumption ==
  /\ D \in Nat \ {0, 1} /\ BlockSize \in Nat /\ BytesUsed \in Nat /\ MaxReads \in Nat
  /\ BlockSize % D = 0
  /\ {CheckData, Swap} \subseteq BOOLEAN /\ None \notin Reader
  /\ At \in [Block -> Nat] /\ Size \in [Block -> Nat \ {0}] /\ Src \in [Block -> Nat]
  /\ Meta \subseteq Block /\ Packed \subseteq Block /\ Corrupt \subseteq Block

VARIABLES
  state,   \* [device block -> "clean", "io", "uptodate" or "failed"]
  refs,    \* [device block -> b_count]
  mutex,   \* who has read_data_mutex
  fed,     \* the bytes zlib got since zlib_inflateInit
  pc, t,   \* the readers: where they are, and their locals
  reads
bufs == <<state, refs>>
vars == <<state, refs, mutex, fed, pc, t, reads>>

\* What lies in the image, and the header's bytes that the test of a length leaves out.
Device   == 0 .. (BytesUsed + 2) \div D
NoLocals == [blk |-> None, temp |-> <<0, 0>>, offset |-> 0, cur |-> 0, cbyte |-> 0, bh |-> <<>>,
             k |-> 1, bytes |-> 0, out |-> <<>>, next |-> 0, hit |-> FALSE]
States   == {"idle", "head", "tail", "mark", "sized", "getblk", "lock", "inflate", "end", "wait",
             "copy", "unlock", "release", "ok", "error"}

Init ==
  /\ state = [d \in Device |-> "clean"] /\ refs = [d \in Device |-> 0]
  /\ mutex = None /\ fed = <<>>
  /\ pc = [r \in Reader |-> "idle"] /\ t = [r \in Reader |-> NoLocals]
  /\ reads = 0

Goto(r, s)   == pc' = [pc EXCEPT ![r] = s]
Is(r, s)     == pc[r] = s
IsMeta(r)    == t[r].blk \in Meta
Here(r)      == t[r].cur * D + t[r].offset
Get(d)       == refs' = [refs EXCEPT ![d] = @ + 1]
Brelse(d)    == refs' = [refs EXCEPT ![d] = @ - 1]
Fail(r, why, s) == t' = [t EXCEPT ![r].hit = @ \/ why] /\ Goto(r, s)

\* A block's own length, at its address: high byte first if the image is to be swapped.
HeaderBytes == IF CheckData THEN 3 ELSE 2
Start(x)    == At[x] + (IF x \in Meta THEN HeaderBytes ELSE 0)
LengthAt(x) == IF Swap THEN <<At[x] + 1, At[x]>> ELSE <<At[x], At[x] + 1>>
Decoded(r)  == IF t[r].temp = LengthAt(t[r].blk) THEN Size[t[r].blk] ELSE BytesUsed + 1
FirstByte   == IF Swap THEN 2 ELSE 1    \* where the byte at the lower address goes in temp
SecondByte  == IF Swap THEN 1 ELSE 2

TooBig(r, c) == c > Src[t[r].blk] \/ At[t[r].blk] + c > BytesUsed

-------------------------------------------------------------------------------
(* The call, and the length of a block of metadata                         *)

Call(r, x) ==
  /\ Is(r, "idle") /\ reads < MaxReads /\ reads' = reads + 1
  /\ t' = [t EXCEPT ![r] = [NoLocals EXCEPT
             !.blk = x, !.offset = At[x] % D, !.cur = At[x] \div D,
             !.cbyte = IF x \in Meta THEN 0 ELSE Size[x], !.bytes = -(At[x] % D)]]
  /\ Goto(r, IF x \in Meta
             THEN IF At[x] + 2 > BytesUsed THEN "error" ELSE "head"
             ELSE IF Size[x] > Src[x] \/ At[x] + Size[x] > BytesUsed THEN "error" ELSE "getblk")
  /\ UNCHANGED <<bufs, mutex, fed>>

\* The array of buffer heads cannot be allocated.
NoArray(r) ==
  /\ Is(r, "idle") /\ reads < MaxReads /\ reads' = reads + 1
  /\ t' = [t EXCEPT ![r] = [NoLocals EXCEPT !.blk = None, !.hit = TRUE]]
  /\ Goto(r, "error")
  /\ UNCHANGED <<bufs, mutex, fed>>

\* Mutant: no room for a block that does not start where a buffer does.
Room_NoEdge(x) == BlockSize \div D
\* The buffer heads there is room for: the array is as long as a block of data.
Room(x) == (BlockSize \div D) + 1

\* sb_bread: the buffer, read, or NULL.
Bread(d) == Get(d) /\ state[d] # "io" /\ state' = [state EXCEPT ![d] = "uptodate"]
BreadFails(r, d) ==
  /\ d \in Flaky /\ state[d] \in {"clean", "failed"}
  /\ state' = [state EXCEPT ![d] = "failed"]
  /\ Fail(r, TRUE, "error")
  /\ UNCHANGED refs

\* The two bytes of the length, or the first if the device's block ends there.
LengthRead(r) ==
  /\ Is(r, "head")
  /\ LET d     == t[r].cur
         edge  == D - t[r].offset = 1
         first == [t[r].temp EXCEPT ![FirstByte] = Here(r)]
         both  == [first EXCEPT ![SecondByte] = Here(r) + 1]
     IN \/ /\ Bread(d)
           /\ t' = IF edge THEN [t EXCEPT ![r].temp = first, ![r].bh = <<d>>]
                           ELSE [t EXCEPT ![r].temp = both, ![r].bh = <<d>>, ![r].offset = @ + 2]
           /\ Goto(r, IF edge THEN "tail" ELSE IF CheckData THEN "mark" ELSE "sized")
        \/ BreadFails(r, d)
  /\ UNCHANGED <<mutex, fed, reads>>

\* brelse(bh) and sb_bread(++cur_index), or NULL
NextBread(r) ==
  LET d == t[r].cur + 1 IN
  \/ /\ state[d] # "io" /\ state' = [state EXCEPT ![d] = "uptodate"]
     /\ refs' = [refs EXCEPT ![d] = @ + 1, ![t[r].cur] = @ - 1]
  \/ /\ d \in Flaky /\ state[d] \in {"clean", "failed"}
     /\ state' = [state EXCEPT ![d] = "failed"]
     /\ Brelse(t[r].cur)

\* The second byte of the length, at the start of the next of the device's blocks.
LengthEdge(r) ==
  /\ Is(r, "tail") /\ NextBread(r)
  /\ LET d == t[r].cur + 1 IN
     IF state'[d] = "failed" THEN Fail(r, TRUE, "error")
     ELSE /\ t' = [t EXCEPT ![r].temp[SecondByte] = d * D, ![r].cur = d, ![r].bh = <<d>>,
                            ![r].offset = 1]
          /\ Goto(r, IF CheckData THEN "mark" ELSE "sized")
  /\ UNCHANGED <<mutex, fed, reads>>

AtEdge(r) == t[r].offset = D
Marked(r) == t[r].blk \notin Corrupt \cap Meta

\* The marker, in the next of the device's blocks if this one is at its end.
Marker(r) ==
  /\ Is(r, "mark") /\ ~AtEdge(r)
  /\ IF Marked(r) /\ Here(r) = At[t[r].blk] + 2
     THEN t' = [t EXCEPT ![r].offset = @ + 1] /\ Goto(r, "sized") /\ UNCHANGED refs
     ELSE Brelse(t[r].cur) /\ Fail(r, FALSE, "error")
  /\ UNCHANGED <<state, mutex, fed, reads>>
MarkerEdge(r) ==
  /\ Is(r, "mark") /\ AtEdge(r) /\ NextBread(r)
  /\ LET d == t[r].cur + 1 IN
     IF state'[d] = "failed" THEN Fail(r, TRUE, "error")
     ELSE t' = [t EXCEPT ![r].cur = d, ![r].bh = <<d>>, ![r].offset = 0] /\ UNCHANGED pc
  /\ UNCHANGED <<mutex, fed, reads>>

Sized(r) ==
  /\ Is(r, "sized")
  /\ t' = [t EXCEPT ![r].cbyte = Decoded(r), ![r].bytes = D - t[r].offset]
  /\ Goto(r, IF TooBig(r, Decoded(r)) THEN "release" ELSE "getblk")
  /\ UNCHANGED <<bufs, mutex, fed, reads>>

-------------------------------------------------------------------------------
(* The buffers                                                             *)

\* Nothing compares b with the length of the array.  A head behind its end lies in what
\* kmalloc rounded the array up by: of what the build may do then, the one that goes on.
Wanted(r) == t[r].bytes < t[r].cbyte

Getblk(r) ==
  /\ Is(r, "getblk") /\ Wanted(r)
  /\ LET d == t[r].cur + (IF IsMeta(r) THEN 1 ELSE 0) IN
     \/ /\ Get(d)
        /\ t' = [t EXCEPT ![r].bh = Append(@, d), ![r].bytes = @ + D, ![r].cur = @ + 1]
        /\ UNCHANGED pc
     \/ /\ d \in Flaky /\ Fail(r, TRUE, "release")
        /\ UNCHANGED refs
  /\ UNCHANGED <<state, mutex, fed, reads>>

\* ll_rw_block: buffers that are not uptodate are read, all but the first of a block of
\* metadata, which sb_bread read.
Submit(r) ==
  /\ Is(r, "getblk") /\ ~Wanted(r)
  /\ LET from == IF IsMeta(r) THEN 2 ELSE 1
         mine == {t[r].bh[i] : i \in from .. Len(t[r].bh)}
     IN state' = [d \in Device |-> IF d \in mine /\ state[d] # "uptodate" THEN "io" ELSE state[d]]
  /\ Goto(r, IF t[r].blk \in Packed THEN "lock" ELSE "wait")
  /\ t' = [t EXCEPT ![r].bytes = 0]
  /\ UNCHANGED <<refs, mutex, fed, reads>>

\* The device answers; the kernel takes back a buffer nobody has.
Answer(d) ==
  /\ state[d] = "io"
  /\ \E s \in {"uptodate"} \cup (IF d \in Flaky THEN {"failed"} ELSE {}) :
       state' = [state EXCEPT ![d] = s]
  /\ UNCHANGED <<refs, mutex, fed, pc, t, reads>>
Reclaim(d) ==
  /\ state[d] \in {"uptodate", "failed"} /\ refs[d] = 0
  /\ state' = [state EXCEPT ![d] = "clean"]
  /\ UNCHANGED <<refs, mutex, fed, pc, t, reads>>

-------------------------------------------------------------------------------
(* Unpacking and copying                                                   *)

Lock(r) ==
  /\ Is(r, "lock") /\ mutex = None
  /\ mutex' = r /\ Goto(r, "inflate")
  /\ UNCHANGED <<bufs, fed, t, reads>>

Buffer(r) == t[r].bh[t[r].k]
Left(r)   == t[r].k <= Len(t[r].bh)
Avail(r)  == Min({t[r].cbyte - t[r].bytes, D - t[r].offset})
Bytes(r)  == [i \in 1 .. Avail(r) |-> Buffer(r) * D + t[r].offset + i - 1]
Input(r)  == IF t[r].k = 1 THEN Bytes(r) ELSE fed \o Bytes(r)   \* zlib_inflateInit at the first

\* Mutant: the offset in the first buffer is taken for the next one's too.
Advanced_Offset(r, l) == [l EXCEPT !.k = @ + 1, !.bytes = @ + Avail(r)]
\* On to the next buffer; this one is put back.
Advanced(r, l) == [l EXCEPT !.k = @ + 1, !.bytes = @ + Avail(r), !.offset = 0]

\* The first buffer holds the end of the length and no byte of the block.
Skipped(r) == t[r].k = 1 /\ Avail(r) = 0

\* zlib (its answer to an empty input is an error, Z_BUF_ERROR)
Refused(r) == t[r].blk \in Corrupt \/ Avail(r) = 0

Inflate(r) ==
  /\ Is(r, "inflate") /\ Left(r) /\ state[Buffer(r)] # "io"
  /\ IF state[Buffer(r)] # "uptodate"
     THEN Fail(r, Buffer(r) \in Flaky, "unlock") /\ UNCHANGED <<refs, fed>>
     ELSE /\ fed' = Input(r)
          /\ IF ~Skipped(r) /\ Refused(r)
             THEN Fail(r, FALSE, "unlock") /\ UNCHANGED refs
             ELSE t' = [t EXCEPT ![r] = Advanced(r, @)] /\ Brelse(Buffer(r)) /\ UNCHANGED pc
  /\ UNCHANGED <<state, mutex, reads>>

\* The bytes of block x, as they lie on the device.
Payload(x) == [i \in 1 .. Size[x] |-> Start(x) + i - 1]

\* zlib reaches the end of its stream with the last byte of a block.
End(r) ==
  /\ Is(r, "inflate") /\ ~Left(r)
  /\ Goto(r, IF \E x \in Block : fed = Payload(x) THEN "end" ELSE "unlock")
  /\ t' = [t EXCEPT ![r].out = fed]
  /\ UNCHANGED <<bufs, mutex, fed, reads>>

NextIndex(r) == At[t[r].blk] + t[r].cbyte + (IF IsMeta(r) THEN HeaderBytes ELSE 0)
Done(r, s)   == t' = [t EXCEPT ![r].next = NextIndex(r)] /\ Goto(r, s)

\* Mutant: a read that fails keeps the mutex.
Freed_OnSuccess(r) == IF Is(r, "end") THEN None ELSE r
Freed(r) == None

Unlock(r) ==
  /\ Is(r, "end") \/ Is(r, "unlock")
  /\ mutex' = Freed(r) /\ fed' = <<>>
  /\ IF Is(r, "end") THEN Done(r, "ok") ELSE Goto(r, "release") /\ UNCHANGED t
  /\ UNCHANGED <<bufs, reads>>

Wait(r) ==
  /\ Is(r, "wait")
  /\ LET mine == Range(t[r].bh) IN
     /\ \A d \in mine : state[d] # "io"
     /\ IF \A d \in mine : state[d] = "uptodate" THEN Goto(r, "copy") /\ UNCHANGED t
        ELSE Fail(r, mine \cap Flaky # {}, "release")
  /\ UNCHANGED <<bufs, mutex, fed, reads>>

Copy(r) ==
  /\ Is(r, "copy") /\ Left(r)
  /\ t' = [t EXCEPT ![r] = [Advanced(r, @) EXCEPT !.out = t[r].out \o Bytes(r)]]
  /\ Brelse(Buffer(r))
  /\ UNCHANGED <<state, mutex, fed, pc, reads>>
Copied(r) ==
  /\ Is(r, "copy") /\ ~Left(r)
  /\ Done(r, "ok")
  /\ UNCHANGED <<bufs, mutex, fed, reads>>

\* Mutant: the buffers that were put back already go back again.
Held_All(r) == 1 .. Len(t[r].bh)
\* block_release: the buffers that are left go back.
Held(r) == t[r].k .. Len(t[r].bh)
Release(r) ==
  /\ Is(r, "release")
  /\ refs' = [d \in Device |-> refs[d] - Cardinality({i \in Held(r) : t[r].bh[i] = d})]
  /\ Goto(r, "error")
  /\ UNCHANGED <<state, mutex, fed, t, reads>>

Return(r) ==
  /\ Is(r, "ok") \/ Is(r, "error")
  /\ Goto(r, "idle") /\ t' = [t EXCEPT ![r] = NoLocals]
  /\ UNCHANGED <<bufs, mutex, fed, reads>>

GetBlockLength(r) == LengthRead(r) \/ LengthEdge(r) \/ Marker(r) \/ MarkerEdge(r)
ReadData(r) ==
  \/ GetBlockLength(r) \/ Sized(r) \/ Getblk(r) \/ Submit(r) \/ Inflate(r) \/ End(r) \/ Unlock(r)
  \/ Wait(r) \/ Copy(r) \/ Copied(r) \/ Release(r) \/ Return(r)
Next ==
  \/ \E r \in Reader : NoArray(r) \/ ReadData(r) \/ Lock(r) \/ \E x \in Block : Call(r, x)
  \/ \E d \in Device : Answer(d) \/ Reclaim(d)
Spec == Init /\ [][Next]_vars

\* Readers run, the device answers, and the mutex goes to its waiters in their order.
FairSpec ==
  /\ Spec
  /\ \A r \in Reader : WF_vars(ReadData(r)) /\ SF_vars(Lock(r))
  /\ \A d \in Device : WF_vars(Answer(d))

-------------------------------------------------------------------------------
(* Properties                                                              *)

Locals == [blk : Block \cup {None}, temp : Nat \X Nat, offset : 0 .. D, cur : Nat, cbyte : Nat,
           bh : Seq(Device), k : Nat \ {0}, bytes : Int, out : Seq(Nat), next : Nat, hit : BOOLEAN]

\* A read has more buffer heads than its array has room for (lines 187-188) only if its
\* block is itself longer, on the device, than the block_size that the array is for:
\* however the length, the marker and the block lie, the one head to spare is enough.
ArrayHolds ==
  \A r \in Reader :
    Len(t[r].bh) > Room(t[r].blk) => t[r].blk \in Block /\ Size[t[r].blk] > BlockSize

\* Types, and what an array of block_size is enough for.
TypeOK ==
  /\ state \in [Device -> {"clean", "io", "uptodate", "failed"}]
  /\ refs \in [Device -> Nat]
  /\ mutex \in Reader \cup {None} /\ fed \in Seq(Nat)
  /\ pc \in [Reader -> States] /\ t \in [Reader -> Locals]
  /\ (\A r \in Reader : t[r].k <= Len(t[r].bh) + 1) /\ ArrayHolds
  /\ reads \in 0 .. MaxReads

\* A read that succeeds hands out the bytes of its own block, all of them in order, and
\* says where the next block is, wherever the length, the marker and the block lie in the
\* device's blocks and whoever used the stream in between (lines 245-298 and 318-320).
RightBlocks ==
  \A r \in Reader : Is(r, "ok") =>
    t[r].out = Payload(t[r].blk) /\ t[r].next = Start(t[r].blk) + Size[t[r].blk]

\* A block that is sound and was read is not refused: no edge of the device's blocks and
\* no other reader makes a read fail.
Sound(x) == x \notin Corrupt /\ Size[x] <= Src[x] /\ Start(x) + Size[x] <= BytesUsed
SoundBlocksAreRead == \A r \in Reader : Is(r, "error") => t[r].hit \/ ~Sound(t[r].blk)

\* However a block lies in the device's blocks and whoever reads beside it, it comes out
\* as it is; only a bad block or a device that failed gives an error.
BlocksComeOut == RightBlocks /\ SoundBlocksAreRead

\* The readers that have a buffer head of d, each with its places in the array.
Holds(d) == {h \in Reader \X (1 .. BytesUsed + 1) :
               h[2] \in Held(h[1]) /\ t[h[1]].bh[h[2]] = d /\ ~Is(h[1], "error")}

\* A buffer head is counted as often as a reader has it, whichever way its reads end:
\* each is put back once (lines 270, 285, 314 and 328-330).
BuffersGoBack == \A d \in Device : refs[d] = Cardinality(Holds(d))

\* Reads return: the mutex is free again whichever way its holder ends, and no reader
\* waits for a buffer nobody reads.
ReadsReturn ==
  <>[][\A r \in Reader : ~NoArray(r) /\ \A x \in Block : ~Call(r, x)]_vars
    => <>[](\A r \in Reader : pc[r] = "idle")
===============================================================================
