-------------------------- MODULE SquashfsReadProofs --------------------------
(***************************************************************************)
(* Proofs about reading the device, for any image, any size of the         *)
(* device's blocks and any number of readers: a block comes out as it      *)
(* lies on the device, a read has room for its buffers, and each buffer    *)
(* goes back once.                                                         *)
(*                                                                         *)
(* The argument: while the length of a block is read, the next byte is the *)
(* header's next one (Measuring), so the buffers that are got lie one      *)
(* behind the other from the block's first byte on, and each is needed     *)
(* (Getting, Lie).  The bytes had so far are then always a prefix of the   *)
(* block (Reading), and with the last buffer they are all of it (Ended).   *)
(* What a reader has, the kernel counts (Counted), so that no buffer is    *)
(* taken back between its read and its use (Answered), and zlib's stream   *)
(* is the holder's of the mutex alone (Mutexed).                           *)
(***************************************************************************)
EXTENDS SquashfsRead, SequenceTheorems, FiniteSetTheorems, TLAPS

-------------------------------------------------------------------------------
(* Arithmetic                                                              *)

\* Division by a positive number.
LEMMA DivFacts ==
  ASSUME NEW a \in Nat, NEW b \in Nat \ {0}
  PROVE  /\ a \div b \in Nat /\ a % b \in 0 .. b - 1
         /\ a % b = a - (a \div b) * b
OBVIOUS

LEMMA MulLess ==
  ASSUME NEW a \in Nat, NEW b \in Nat, NEW c \in Nat \ {0}, a * c < b * c
  PROVE  a < b
<1> SUFFICES ASSUME b <= a PROVE FALSE
  OBVIOUS
<1> DEFINE d == a - b
<1>1. d \in Nat /\ a = b + d
  OBVIOUS
<1>2. a * c = b * c + d * c /\ d * c \in Nat /\ b * c \in Nat
  BY <1>1
<1> HIDE DEF d
<1> QED
  BY <1>2

LEMMA MulSucc ==
  ASSUME NEW a \in Int, NEW c \in Int
  PROVE  (a + 1) * c = a * c + c /\ (a - 1) * c = a * c - c /\ a * c \in Int
OBVIOUS

LEMMA MulSum ==
  ASSUME NEW a \in Int, NEW b \in Int, NEW c \in Int
  PROVE  (a + b) * c = a * c + b * c /\ a * c \in Int /\ b * c \in Int
OBVIOUS

LEMMA MinOfTwo ==
  ASSUME NEW a \in Int, NEW b \in Int
  PROVE  Min({a, b}) = IF a <= b THEN a ELSE b
<1> DEFINE m == IF a <= b THEN a ELSE b
<1>1. m \in {a, b} /\ \A y \in {a, b} : m <= y
  OBVIOUS
<1>2. \A x \in {a, b} : (\A y \in {a, b} : x <= y) => x = m
  OBVIOUS
<1> HIDE DEF m
<1>3. Min({a, b}) = CHOOSE x \in {a, b} : \A y \in {a, b} : x <= y
  BY Zenon DEF Min
<1>4. Min({a, b}) = m
  BY <1>1, <1>2, <1>3
<1> QED
  BY <1>4 DEF m

\* The constants, taken apart.
LEMMA Constants ==
  /\ D \in Nat \ {0, 1} /\ BlockSize \in Nat /\ BytesUsed \in Nat /\ MaxReads \in Nat
  /\ CheckData \in BOOLEAN /\ Swap \in BOOLEAN /\ None \notin Reader
  /\ \A x \in Block : At[x] \in Nat /\ Size[x] \in Nat \ {0} /\ Src[x] \in Nat
BY SRAssumption

LEMMA StartFacts ==
  ASSUME NEW x \in Block
  PROVE  /\ Start(x) \in Nat /\ HeaderBytes \in {2, 3}
         /\ At[x] <= Start(x) /\ Start(x) <= At[x] + 3
         /\ x \in Meta => Start(x) = At[x] + HeaderBytes
         /\ x \notin Meta => Start(x) = At[x]
BY Constants DEF Start, HeaderBytes

\* Blocks of the device up to the end of the image.
LEMMA OnDevice ==
  ASSUME NEW d \in Nat, d * D <= BytesUsed + 2
  PROVE  d \in Device
<1> DEFINE u == BytesUsed + 2
           q == u \div D
           m == u % D
           e == q * D
<1>1. u \in Nat /\ D \in Nat \ {0} /\ d * D \in Int
  BY Constants
<1>2. q \in Nat /\ m \in 0 .. D - 1 /\ m = u - e
  <2> HIDE DEF u
  <2> QED
    BY <1>1, DivFacts
<1>3. d * D <= u
  OBVIOUS
<1>4. (q + 1) * D = e + D /\ e \in Int
  <2> HIDE DEF q
  <2> QED
    BY <1>1, <1>2, MulSucc
<1>5. d * D < (q + 1) * D
  <2> HIDE DEF u, q, m, e
  <2> QED
    BY <1>1, <1>2, <1>3, <1>4
<1>6. d < q + 1
  <2> HIDE DEF u, q
  <2> QED
    BY <1>1, <1>2, <1>5, MulLess
<1> QED
  BY <1>2, <1>6 DEF Device

\* There is room for one more buffer while not all bytes of a block are covered.
LEMMA RoomForMore ==
  ASSUME NEW n \in Nat, NEW o \in 0 .. D, NEW c \in 0 .. BlockSize, n * D - o < c
  PROVE  n + 1 <= (BlockSize \div D) + 1
<1> DEFINE q == BlockSize \div D
           m == BlockSize % D
<1>1. q \in Nat /\ D \in Nat \ {0} /\ q * D = BlockSize
  <2>1. D \in Nat \ {0} /\ BlockSize \in Nat /\ m = 0
    BY SRAssumption
  <2>2. q \in Nat /\ m = BlockSize - q * D
    BY <2>1, DivFacts
  <2> HIDE DEF q, m
  <2>3. q * D \in Int
    BY <2>1, <2>2
  <2> QED
    BY <2>1, <2>2, <2>3
<1> HIDE DEF q
<1>2. (q + 1) * D = q * D + D /\ n * D \in Int
  BY <1>1, MulSucc
<1>3. n * D < (q + 1) * D
  BY <1>1, <1>2, Constants
<1>4. n < q + 1
  BY <1>1, <1>3, MulLess
<1> QED
  BY <1>1, <1>4 DEF q

\* Every buffer but one brings a byte of the block at least.
LEMMA OneByteEach ==
  ASSUME NEW n \in Nat, NEW o \in 0 .. D, NEW c \in Nat, n * D - o < c
  PROVE  n <= c
<1>1. D \in Nat \ {0, 1}
  BY Constants
<1>2. CASE n = 0
  BY <1>2
<1>3. CASE n > 0
  <2> DEFINE m == n - 1
  <2>1. m \in Nat /\ n = m + 1
    BY <1>3
  <2> HIDE DEF m
  <2>2. n * D = m * D + D /\ m * D \in Int
    BY <1>1, <2>1, MulSucc
  <2>3. m * D = m + m * (D - 1) /\ m * (D - 1) \in Nat
    BY <1>1, <2>1
  <2>4. m < c
    BY <1>1, <2>1, <2>2, <2>3
  <2> QED
    BY <2>1, <2>4
<1> QED
  BY <1>2, <1>3

LEMMA RoomFacts == BlockSize \div D \in Nat
BY Constants, DivFacts

-------------------------------------------------------------------------------
(* Sequences                                                               *)

LEMMA SingleFacts ==
  ASSUME NEW S, NEW d \in S
  PROVE  <<d>> \in Seq(S) /\ Len(<<d>>) = 1 /\ <<d>>[1] = d
OBVIOUS

LEMMA EmptyFacts ==
  ASSUME NEW S
  PROVE  <<>> \in Seq(S) /\ Len(<<>>) = 0
OBVIOUS

LEMMA AppendFacts ==
  ASSUME NEW S, NEW s \in Seq(S), NEW d \in S
  PROVE  /\ Append(s, d) \in Seq(S) /\ Len(Append(s, d)) = Len(s) + 1 /\ Len(s) \in Nat
         /\ \A i \in 1 .. Len(s) : Append(s, d)[i] = s[i]
         /\ Append(s, d)[Len(s) + 1] = d
BY AppendProperties, LenProperties

LEMMA SeqItem ==
  ASSUME NEW S, NEW s \in Seq(S), NEW i \in 1 .. Len(s)
  PROVE  s[i] \in S /\ Len(s) \in Nat
OBVIOUS

\* Consecutive bytes.
LEMMA RunFacts ==
  ASSUME NEW a \in Nat, NEW n \in Nat
  PROVE  /\ [i \in 1 .. n |-> a + i - 1] \in Seq(Nat)
         /\ Len([i \in 1 .. n |-> a + i - 1]) = n
<1>1. [i \in 1 .. n |-> a + i - 1] \in [1 .. n -> Nat]
  OBVIOUS
<1> QED
  BY <1>1

LEMMA RunsMeet ==
  ASSUME NEW a \in Nat, NEW n \in Nat, NEW m \in Nat
  PROVE  [i \in 1 .. n |-> a + i - 1] \o [i \in 1 .. m |-> (a + n) + i - 1]
           = [i \in 1 .. n + m |-> a + i - 1]
<1> DEFINE s == [i \in 1 .. n |-> a + i - 1]
           u == [i \in 1 .. m |-> (a + n) + i - 1]
           w == [i \in 1 .. n + m |-> a + i - 1]
<1>1. s \in Seq(Nat) /\ Len(s) = n
  BY RunFacts
<1>2. u \in Seq(Nat) /\ Len(u) = m
  BY RunFacts
<1>3. w \in Seq(Nat) /\ Len(w) = n + m
  BY RunFacts
<1>4. /\ \A i \in 1 .. n : s[i] = a + i - 1
      /\ \A i \in 1 .. m : u[i] = (a + n) + i - 1
      /\ \A i \in 1 .. n + m : w[i] = a + i - 1
  OBVIOUS
<1> HIDE DEF s, u, w
<1>5. s \o u \in Seq(Nat) /\ Len(s \o u) = n + m
  BY <1>1, <1>2, ConcatProperties
<1>6. ASSUME NEW i \in 1 .. n + m PROVE (s \o u)[i] = w[i]
  <2>1. CASE i <= n
    <3>1. (s \o u)[i] = s[i]
      BY <1>1, <1>2, <2>1, ConcatProperties
    <3> QED
      BY <2>1, <3>1, <1>4
  <2>2. CASE ~(i <= n)
    <3>1. (s \o u)[i] = u[i - n]
      BY <1>1, <1>2, <2>2, ConcatProperties
    <3>2. i - n \in 1 .. m
      BY <2>2
    <3>3. u[i - n] = (a + n) + (i - n) - 1 /\ w[i] = a + i - 1
      BY <1>4, <3>2
    <3> QED
      BY <3>1, <3>3
  <2> QED
    BY <2>1, <2>2
<1>7. s \o u = w
  BY <1>3, <1>5, <1>6, SeqEqual
<1> QED
  BY <1>7 DEF s, u, w

LEMMA NoRun ==
  ASSUME NEW a \in Nat
  PROVE  [i \in 1 .. 0 |-> a + i - 1] = <<>>
BY RunFacts, EmptySeq

-------------------------------------------------------------------------------
(* The invariant                                                           *)

\* The bytes of x as far as b of them.
Prefix(x, b) == [i \in 1 .. b |-> Start(x) + i - 1]

\* What n of the device's blocks hold behind the first o bytes.
Covered(n, o) == n * D - o

Fits(x) == Size[x] <= Src[x] /\ At[x] + Size[x] <= BytesUsed

\* The buffer heads with locals l: no more than the image has bytes, nor than the array
\* has room for unless the block is too long for it.
InRoom(l) ==
  /\ Len(l.bh) <= BytesUsed + 1
  /\ Len(l.bh) > (BlockSize \div D) + 1 => l.blk \in Block /\ Size[l.blk] > BlockSize
Roomy == \A r \in Reader : InRoom(t[r])

LEMMA FewFit ==
  ASSUME NEW l, Len(l.bh) \in {0, 1}
  PROVE  InRoom(l)
<1> DEFINE n == Len(l.bh)
           q == BlockSize \div D
<1>1. q \in Nat /\ BytesUsed \in Nat /\ (n = 0 \/ n = 1)
  BY Constants, RoomFacts
<1>2. (n <= BytesUsed + 1) /\ ~(n > q + 1)
  <2> HIDE DEF n, q
  <2> QED
    BY <1>1
<1> QED
  BY <1>2 DEF InRoom

LEMMA OneFits ==
  ASSUME NEW l, NEW d, l.bh = <<d>>
  PROVE  InRoom(l) /\ Len(l.bh) = 1
<1>1. Len(l.bh) = 1
  OBVIOUS
<1> DEFINE n == Len(l.bh)
           q == BlockSize \div D
<1>2. (n <= BytesUsed + 1) /\ ~(n > q + 1)
  <2>1. n = 1 /\ q \in Nat /\ BytesUsed \in Nat
    BY <1>1, Constants, RoomFacts
  <2> HIDE DEF n, q
  <2> QED
    BY <2>1
<1>3. InRoom(l)
  BY <1>2, Zenon DEF InRoom
<1> QED
  BY <1>1, <1>3

\* A block of metadata is being measured: where the next byte of its header lies.
Header       == {"head", "tail", "mark", "sized"}
HeadAt(p, x) == IF p \in {"head", "tail"} THEN At[x] ELSE IF p = "mark" THEN At[x] + 2 ELSE Start(x)
Measuring(p, l) ==
  p \in Header =>
    /\ l.blk \in Meta /\ At[l.blk] + 2 <= BytesUsed
    /\ l.k = 1 /\ l.out = <<>> /\ l.cur * D + l.offset = HeadAt(p, l.blk)
    /\ l.bh = (IF p = "head" THEN <<>> ELSE <<l.cur>>)
    /\ p = "head" => l.offset < D
    /\ p = "tail" => l.offset = D - 1 /\ l.temp[FirstByte] = At[l.blk]
    /\ p \in {"mark", "sized"} => l.temp = LengthAt(l.blk)
    /\ p = "mark" => CheckData

\* The buffers of a read lie one behind the other, from the one with its first byte on
\* (the last of the header may be all that it has), and each is needed.
Lie(l, b, o) ==
  /\ b * D + o = Start(l.blk)
  /\ \A i \in 1 .. Len(l.bh) : l.bh[i] = b + i - 1 /\ (i # 1 => Covered(i - 1, o) < l.cbyte)

First(l) == l.cur - Len(l.bh) + (IF l.blk \in Meta THEN 1 ELSE 0)
Getting(p, l) ==
  p = "getblk" =>
    /\ l.blk \in Block /\ Fits(l.blk) /\ l.cbyte = Size[l.blk]
    /\ l.k = 1 /\ l.out = <<>> /\ l.bytes = Covered(Len(l.bh), l.offset)
    /\ l.blk \in Meta => Len(l.bh) > 0
    /\ Lie(l, First(l), l.offset)

\* How far a read has come: the buffers that went back, and their bytes.
Edge(l) == Start(l.blk) - l.bh[1] * D
Gone(l) == IF l.k = 1 THEN 0 ELSE IF l.k <= Len(l.bh) THEN Covered(l.k - 1, Edge(l)) ELSE Size[l.blk]
Got     == {"lock", "inflate", "wait", "copy"}
Reading(p, l, f) ==
  p \in Got =>
    /\ l.blk \in Block /\ l.cbyte = Size[l.blk] /\ Len(l.bh) > 0
    /\ Lie(l, l.bh[1], Edge(l)) /\ Edge(l) \in 0 .. D /\ l.cbyte <= Covered(Len(l.bh), Edge(l))
    /\ l.offset = (IF l.k = 1 THEN Edge(l) ELSE 0)
    /\ l.bytes = Gone(l)
    /\ p \in {"lock", "wait"} => l.k = 1 /\ l.out = <<>>
    /\ p = "copy" => l.out = Prefix(l.blk, l.bytes)
    /\ p = "inflate" /\ l.k > 1 => f = Prefix(l.blk, l.bytes)
Ended(p, l) ==
  p \in {"end", "ok"} =>
    /\ l.blk \in Block /\ l.cbyte = Size[l.blk]
    /\ l.k = Len(l.bh) + 1 /\ l.out = Payload(l.blk)
    /\ p = "ok" => l.next = Start(l.blk) + Size[l.blk]

Idle(p, l)    == p = "idle" => l.bh = <<>> /\ l.k = 1
Refusal(p, l) == p \in {"unlock", "release", "error"} => l.hit \/ ~Sound(l.blk)

\* A reader in place p with locals l, and what zlib has got.
Proper(p, l, f) ==
  Measuring(p, l) /\ Getting(p, l) /\ Reading(p, l, f) /\ Ended(p, l) /\ Idle(p, l) /\ Refusal(p, l)
ReadersInv == \A r \in Reader : Proper(pc[r], t[r], fed)

Inside  == {"inflate", "end", "unlock"}
Mutexed == \A r \in Reader : pc[r] \in Inside => mutex = r

\* What a reader has read stays read until it puts it back.
HasRead(p, l) ==
  {i \in l.k .. Len(l.bh) :
     p \in Got \/ (p \in {"tail", "mark", "sized", "getblk"} /\ l.blk \in Meta /\ i = 1)}
Answered ==
  /\ \A d \in Device : state[d] = "failed" => d \in Flaky
  /\ \A r \in Reader : \A i \in HasRead(pc[r], t[r]) : state[t[r].bh[i]] # "clean"

Counted == \A d \in Device : IsFiniteSet(Holds(d)) /\ refs[d] = Cardinality(Holds(d))

IInv == TypeOK /\ Roomy /\ ReadersInv /\ Mutexed /\ Answered /\ Counted

-------------------------------------------------------------------------------
(* A step of one reader                                                    *)

\* The places of d among the buffers of a reader in place p with locals l.
Mine(p, l, d) == {i \in 1 .. BytesUsed + 1 : i \in l.k .. Len(l.bh) /\ l.bh[i] = d /\ p # "error"}

Statuses == {"clean", "io", "uptodate", "failed"}

\* r goes to s with locals l, and leaves the others what they had.
Moves(r, s, l) ==
  /\ s \in States /\ l \in Locals
  /\ pc' = [pc EXCEPT ![r] = s] /\ t' = [t EXCEPT ![r] = l]
  /\ l.k <= Len(l.bh) + 1 /\ InRoom(l)
  /\ reads' \in 0 .. MaxReads
Locking(r, s) ==
  /\ fed' \in Seq(Nat) /\ (fed' # fed => mutex = r)
  /\ mutex' \in Reader \cup {None}
  /\ \A q \in Reader \ {r} : mutex = q => mutex' = q
  /\ s \in Inside => mutex' = r
Answering(r, s, l) ==
  /\ state' \in [Device -> Statuses]
  /\ \A d \in Device : state'[d] = "clean" => state[d] = "clean"
  /\ \A d \in Device : state'[d] = "failed" => d \in Flaky
  /\ \A i \in HasRead(s, l) : state'[l.bh[i]] # "clean"
Counting(r, s, l) ==
  /\ refs' \in [Device -> Int]
  /\ \A d \in Device :
       refs'[d] = (refs[d] + Cardinality(Mine(s, l, d))) - Cardinality(Mine(pc[r], t[r], d))

MovesWell(r, s, l) ==
  Moves(r, s, l) /\ Locking(r, s) /\ Answering(r, s, l) /\ Counting(r, s, l) /\ Proper(s, l, fed')

LEMMA MineFinite ==
  ASSUME NEW p, NEW l, NEW d
  PROVE  IsFiniteSet(Mine(p, l, d)) /\ Cardinality(Mine(p, l, d)) \in Nat
<1>1. IsFiniteSet(1 .. BytesUsed + 1)
  BY FS_Interval, Constants
<1>2. IsFiniteSet(Mine(p, l, d))
  BY <1>1, FS_Subset DEF Mine
<1> QED
  BY <1>2, FS_CardinalityType

\* A reader's places, paired with it, are as many.
LEMMA PairedCount ==
  ASSUME NEW r, NEW M, IsFiniteSet(M)
  PROVE  IsFiniteSet({r} \X M) /\ Cardinality({r} \X M) = Cardinality(M)
<1>1. IsFiniteSet({r}) /\ Cardinality({r}) = 1
  BY FS_Singleton
<1>2. IsFiniteSet({r} \X M) /\ Cardinality({r} \X M) = Cardinality({r}) * Cardinality(M)
  BY <1>1, FS_Product
<1>3. Cardinality(M) \in Nat
  BY FS_CardinalityType
<1> QED
  BY <1>1, <1>2, <1>3

LEMMA DisjointCount ==
  ASSUME NEW S, NEW T, IsFiniteSet(S), IsFiniteSet(T), S \cap T = {}
  PROVE  IsFiniteSet(S \cup T) /\ Cardinality(S \cup T) = Cardinality(S) + Cardinality(T)
<1>1. Cardinality(S) \in Nat /\ Cardinality(T) \in Nat /\ Cardinality(S \cap T) = 0
  BY FS_CardinalityType, FS_EmptySet
<1>2. IsFiniteSet(S \cup T)
      /\ Cardinality(S \cup T) = Cardinality(S) + Cardinality(T) - Cardinality(S \cap T)
  BY FS_Union
<1> QED
  BY <1>1, <1>2

\* The count of a buffer head follows the places of the reader that moves.
LEMMA CountFollows ==
  ASSUME TypeOK, Counted, NEW r \in Reader, NEW s, NEW l, Moves(r, s, l), Counting(r, s, l)
  PROVE  Counted' /\ refs' \in [Device -> Nat]
<1> SUFFICES ASSUME NEW d \in Device
             PROVE  IsFiniteSet(Holds(d)') /\ refs'[d] = Cardinality(Holds(d)') /\ refs'[d] \in Nat
  BY DEF Counted, Counting
<1> DEFINE Old  == Mine(pc[r], t[r], d)
           New  == Mine(s, l, d)
           Rest == Holds(d) \ ({r} \X Old)
<1>1. pc'[r] = s /\ t'[r] = l /\ \A q \in Reader : q # r => pc'[q] = pc[q] /\ t'[q] = t[q]
  BY DEF Moves, TypeOK
<1>2. Old = {i \in 1 .. BytesUsed + 1 : i \in Held(r) /\ t[r].bh[i] = d /\ ~Is(r, "error")}
  BY DEF Mine, Held, Is
<1>3. New = {i \in 1 .. BytesUsed + 1 : i \in Held(r)' /\ t'[r].bh[i] = d /\ ~Is(r, "error")'}
  BY <1>1 DEF Mine, Held, Is
<1>4. \A q \in Reader : q # r => Held(q)' = Held(q) /\ Is(q, "error")' = Is(q, "error")
  BY <1>1 DEF Held, Is
<1> HIDE DEF Old, New
<1>5. Holds(d) = Rest \cup ({r} \X Old) /\ Rest \cap ({r} \X Old) = {}
  BY <1>2 DEF Holds
<1>6. Holds(d)' = Rest \cup ({r} \X New) /\ Rest \cap ({r} \X New) = {}
  BY <1>1, <1>2, <1>3, <1>4 DEF Holds
<1>7. /\ IsFiniteSet(Old) /\ IsFiniteSet(New)
      /\ Cardinality(Old) \in Nat /\ Cardinality(New) \in Nat
  BY MineFinite DEF Old, New
<1>8. IsFiniteSet(Holds(d)) /\ refs[d] = Cardinality(Holds(d))
  BY DEF Counted
<1>9. IsFiniteSet(Rest) /\ Cardinality(Rest) \in Nat
  BY <1>8, FS_Difference, FS_CardinalityType
<1> HIDE DEF Rest
<1>10. Cardinality(Holds(d)) = Cardinality(Rest) + Cardinality(Old)
  <2>1. IsFiniteSet({r} \X Old) /\ Cardinality({r} \X Old) = Cardinality(Old)
    BY <1>7, PairedCount
  <2> QED
    BY <1>5, <1>9, <2>1, DisjointCount
<1>11. IsFiniteSet(Holds(d)') /\ Cardinality(Holds(d)') = Cardinality(Rest) + Cardinality(New)
  <2>1. IsFiniteSet({r} \X New) /\ Cardinality({r} \X New) = Cardinality(New)
    BY <1>7, PairedCount
  <2>2. /\ IsFiniteSet(Rest \cup ({r} \X New))
        /\ Cardinality(Rest \cup ({r} \X New)) = Cardinality(Rest) + Cardinality({r} \X New)
    BY <1>6, <1>9, <2>1, DisjointCount
  <2> QED
    BY <1>6, <2>1, <2>2, Zenon
<1>12. refs'[d] = (refs[d] + Cardinality(New)) - Cardinality(Old)
  BY DEF Counting, Old, New
<1> QED
  BY <1>7, <1>8, <1>9, <1>10, <1>11, <1>12

LEMMA StepKeeps ==
  ASSUME IInv, NEW r \in Reader, NEW s, NEW l, MovesWell(r, s, l)
  PROVE  IInv'
<1>1. pc'[r] = s /\ t'[r] = l /\ \A q \in Reader : q # r => pc'[q] = pc[q] /\ t'[q] = t[q]
  BY DEF MovesWell, Moves, IInv, TypeOK
<1>2. Counted' /\ refs' \in [Device -> Nat]
  BY CountFollows DEF MovesWell, IInv
<1>3. TypeOK'
  <2>1. pc' \in [Reader -> States] /\ t' \in [Reader -> Locals]
    BY DEF MovesWell, Moves, IInv, TypeOK
  <2>2. \A q \in Reader : t'[q].k <= Len(t'[q].bh) + 1 /\ InRoom(t'[q])
    BY <1>1 DEF MovesWell, Moves, IInv, TypeOK, Roomy
  <2>3. /\ state' \in [Device -> {"clean", "io", "uptodate", "failed"}]
        /\ mutex' \in Reader \cup {None} /\ fed' \in Seq(Nat) /\ reads' \in 0 .. MaxReads
    BY DEF MovesWell, Moves, Locking, Answering, Statuses
  <2> QED
    BY <1>2, <2>1, <2>2, <2>3 DEF TypeOK, Room, ArrayHolds, InRoom
<1>r. Roomy'
  BY <1>1 DEF MovesWell, Moves, IInv, Roomy
<1>4. ReadersInv'
  <2> SUFFICES ASSUME NEW q \in Reader PROVE Proper(pc'[q], t'[q], fed')
    BY DEF ReadersInv
  <2>1. CASE q = r
    BY <1>1, <2>1 DEF MovesWell
  <2>2. CASE q # r
    <3>1. Proper(pc[q], t[q], fed)
      BY DEF IInv, ReadersInv
    <3>2. pc[q] = "inflate" => fed' = fed
      BY <2>2 DEF IInv, Mutexed, Inside, MovesWell, Locking
    <3>3. Proper(pc[q], t[q], fed')
      BY <3>1, <3>2, Zenon DEF Proper, Reading
    <3> QED
      BY <1>1, <2>2, <3>3
  <2> QED
    BY <2>1, <2>2
<1>5. Mutexed'
  BY <1>1 DEF Mutexed, MovesWell, Locking, IInv
<1>6. Answered'
  <2> SUFFICES ASSUME NEW q \in Reader, NEW i \in HasRead(pc'[q], t'[q])
               PROVE  state'[t'[q].bh[i]] # "clean"
    BY DEF Answered, MovesWell, Answering
  <2>1. CASE q = r
    BY <1>1, <2>1 DEF MovesWell, Answering
  <2>2. CASE q # r
    <3>1. i \in HasRead(pc[q], t[q]) /\ t'[q] = t[q]
      BY <1>1, <2>2
    <3>2. state[t[q].bh[i]] # "clean"
      BY <3>1 DEF IInv, Answered
    <3>3. t[q].bh[i] \in Device
      <4>1. t[q].bh \in Seq(Device) /\ t[q].k \in Nat \ {0}
        BY DEF IInv, TypeOK, Locals
      <4>2. i \in 1 .. Len(t[q].bh)
        BY <3>1, <4>1 DEF HasRead
      <4> QED
        BY <4>1, <4>2
    <3> QED
      BY <3>1, <3>2, <3>3 DEF MovesWell, Answering
  <2> QED
    BY <2>1, <2>2
<1> QED
  BY <1>2, <1>3, <1>r, <1>4, <1>5, <1>6 DEF IInv

-------------------------------------------------------------------------------
(* The start, and the steps of the device                                  *)

LEMMA InitInv == Init => IInv
<1> SUFFICES ASSUME Init PROVE IInv
  OBVIOUS
<1>1. \A r \in Reader : pc[r] = "idle" /\ t[r] = NoLocals
  BY DEF Init
<1>2. /\ NoLocals.bh = <<>> /\ NoLocals.k = 1 /\ NoLocals.blk = None /\ NoLocals.temp = <<0, 0>>
      /\ NoLocals.out = <<>>
  BY DEF NoLocals
<1>3. NoLocals \in Locals
  <2>1. <<>> \in Seq(Device) /\ <<>> \in Seq(Nat) /\ <<0, 0>> \in Nat \X Nat
    BY EmptyFacts
  <2>2. 0 \in 0 .. D /\ 0 \in Nat /\ 0 \in Int /\ 1 \in Nat \ {0} /\ FALSE \in BOOLEAN
    BY Constants
  <2> QED
    BY <2>1, <2>2 DEF NoLocals, Locals
<1>4. Len(<<>>) = 0
  OBVIOUS
<1>5. TypeOK
  <2>1. (\A r \in Reader : t[r].k <= Len(t[r].bh) + 1) /\ ArrayHolds
    BY <1>1, <1>2, <1>4, RoomFacts DEF Room, ArrayHolds
  <2>2. <<>> \in Seq(Nat) /\ 0 \in 0 .. MaxReads
    BY Constants, EmptyFacts
  <2> QED
    BY <1>3, <2>1, <2>2 DEF TypeOK, Init, States
<1>r. Roomy
  BY <1>1, <1>2, <1>4, FewFit DEF Roomy
<1>6. ReadersInv
  <2>1. Proper("idle", NoLocals, fed)
    BY <1>2 DEF Proper, Measuring, Getting, Reading, Ended, Idle, Refusal, Header, Got
  <2> QED
    BY <1>1, <2>1 DEF ReadersInv
<1>7. Mutexed
  BY <1>1 DEF Mutexed, Inside
<1>8. Answered
  BY <1>1 DEF Answered, HasRead, Init, Got
<1>9. Counted
  <2> SUFFICES ASSUME NEW d \in Device PROVE IsFiniteSet(Holds(d)) /\ refs[d] = Cardinality(Holds(d))
    BY DEF Counted
  <2>1. \A r \in Reader : Held(r) = {}
    BY <1>1, <1>2, <1>4 DEF Held
  <2>2. Holds(d) = {}
    BY <2>1 DEF Holds
  <2>3. refs[d] = 0
    BY DEF Init
  <2> QED
    BY <2>2, <2>3, FS_EmptySet
<1> QED
  BY <1>5, <1>r, <1>6, <1>7, <1>8, <1>9 DEF IInv

\* What a reader has, it has in one of its places, and the kernel counts it.
LEMMA HeldFacts ==
  ASSUME IInv, NEW r \in Reader, NEW i \in t[r].k .. Len(t[r].bh)
  PROVE  i \in 1 .. Len(t[r].bh) /\ i \in 1 .. BytesUsed + 1 /\ t[r].bh[i] \in Device
<1>1. t[r].bh \in Seq(Device) /\ t[r].k \in Nat \ {0} /\ Len(t[r].bh) <= BytesUsed + 1
  BY DEF IInv, TypeOK, Locals, Roomy, InRoom
<1>2. Len(t[r].bh) \in Nat
  BY <1>1
<1>3. i \in 1 .. Len(t[r].bh) /\ i \in 1 .. BytesUsed + 1
  BY <1>1, <1>2, Constants
<1> QED
  BY <1>1, <1>3

LEMMA HeldIsCounted ==
  ASSUME IInv, NEW r \in Reader, NEW i \in t[r].k .. Len(t[r].bh), pc[r] # "error"
  PROVE  refs[t[r].bh[i]] \in Nat \ {0}
<1> DEFINE d == t[r].bh[i]
<1>1. d \in Device /\ i \in 1 .. BytesUsed + 1
  BY HeldFacts
<1>2. <<r, i>> \in Holds(d)
  BY <1>1 DEF Holds, Held, Is
<1>3. IsFiniteSet(Holds(d)) /\ refs[d] = Cardinality(Holds(d))
  BY <1>1 DEF IInv, Counted
<1> HIDE DEF d
<1>4. Cardinality(Holds(d)) \in Nat /\ Cardinality(Holds(d)) # 0
  BY <1>2, <1>3, FS_CardinalityType, FS_EmptySet
<1> QED
  BY <1>3, <1>4 DEF d

LEMMA DeviceKeeps ==
  ASSUME IInv, NEW d \in Device, Answer(d) \/ Reclaim(d)
  PROVE  IInv'
<1>1. UNCHANGED <<refs, mutex, fed, pc, t, reads>>
  BY DEF Answer, Reclaim
<1>2. /\ state' \in [Device -> Statuses]
      /\ \A e \in Device : e # d => state'[e] = state[e]
      /\ state'[d] = "failed" => d \in Flaky
      /\ state'[d] = "clean" => refs[d] = 0
  BY DEF Answer, Reclaim, IInv, TypeOK, Statuses
<1>3. TypeOK'
  BY <1>1, <1>2 DEF IInv, TypeOK, ArrayHolds, Statuses, Room
<1>4. ReadersInv' /\ Mutexed' /\ Roomy'
  BY <1>1 DEF IInv, ReadersInv, Mutexed, Roomy, InRoom
<1>5. Answered'
  <2>1. ASSUME NEW r \in Reader, NEW i \in HasRead(pc[r], t[r]) PROVE state'[t[r].bh[i]] # "clean"
    <3>1. i \in t[r].k .. Len(t[r].bh) /\ pc[r] # "error"
      BY DEF HasRead, Got
    <3>2. state[t[r].bh[i]] # "clean" /\ t[r].bh[i] \in Device
      BY <3>1, HeldFacts DEF IInv, Answered
    <3>3. refs[t[r].bh[i]] # 0
      BY <3>1, HeldIsCounted
    <3> QED
      BY <1>2, <3>2, <3>3
  <2>2. \A e \in Device : state'[e] = "failed" => e \in Flaky
    BY <1>2 DEF IInv, Answered
  <2> QED
    BY <1>1, <2>1, <2>2 DEF Answered
<1>6. Counted'
  BY <1>1 DEF IInv, Counted, Holds, Held, Is
<1> QED
  BY <1>3, <1>4, <1>5, <1>6 DEF IInv

LEMMA RestKeeps == IInv /\ UNCHANGED vars => IInv'
<1> SUFFICES ASSUME IInv, UNCHANGED vars PROVE IInv'
  OBVIOUS
<1>1. UNCHANGED <<state, refs, mutex, fed, pc, t, reads>>
  BY DEF vars
<1>2. TypeOK'
  BY <1>1 DEF IInv, TypeOK, ArrayHolds, Room
<1>3. ReadersInv' /\ Mutexed' /\ Answered' /\ Roomy'
  BY <1>1 DEF IInv, ReadersInv, Mutexed, Answered, Roomy, InRoom
<1>4. Counted'
  BY <1>1 DEF IInv, Counted, Holds, Held, Is
<1> QED
  BY <1>2, <1>3, <1>4 DEF IInv

-------------------------------------------------------------------------------
(* What a step leaves alone                                                *)

LEMMA LockingSame ==
  ASSUME IInv, NEW r \in Reader, NEW s, UNCHANGED <<mutex, fed>>, s \in Inside => pc[r] \in Inside
  PROVE  Locking(r, s)
BY DEF IInv, TypeOK, Mutexed, Locking

LEMMA AnsweringSame ==
  ASSUME IInv, NEW r \in Reader, NEW s, NEW l, UNCHANGED state,
         \A i \in HasRead(s, l) : i \in HasRead(pc[r], t[r]) /\ l.bh[i] = t[r].bh[i]
  PROVE  Answering(r, s, l)
BY DEF IInv, TypeOK, Answered, Answering, Statuses

LEMMA CountingSame ==
  ASSUME IInv, NEW r \in Reader, NEW s, NEW l, UNCHANGED refs,
         \A d \in Device : Mine(s, l, d) = Mine(pc[r], t[r], d)
  PROVE  Counting(r, s, l)
<1> SUFFICES ASSUME NEW d \in Device
             PROVE  refs'[d] = (refs[d] + Cardinality(Mine(s, l, d))) - Cardinality(Mine(pc[r], t[r], d))
  BY DEF Counting, IInv, TypeOK
<1>1. Cardinality(Mine(s, l, d)) \in Nat /\ refs[d] \in Nat
  BY MineFinite DEF IInv, TypeOK
<1> QED
  BY <1>1

LEMMA CountingGot ==
  ASSUME IInv, NEW r \in Reader, NEW s, NEW l, NEW d0 \in Device, NEW i0,
         Get(d0), i0 \notin Mine(pc[r], t[r], d0),
         Mine(s, l, d0) = Mine(pc[r], t[r], d0) \cup {i0},
         \A d \in Device : d # d0 => Mine(s, l, d) = Mine(pc[r], t[r], d)
  PROVE  Counting(r, s, l)
<1>1. refs \in [Device -> Nat] /\ refs' = [refs EXCEPT ![d0] = @ + 1]
  BY DEF IInv, TypeOK, Get
<1> SUFFICES ASSUME NEW d \in Device
             PROVE  refs'[d] = (refs[d] + Cardinality(Mine(s, l, d))) - Cardinality(Mine(pc[r], t[r], d))
  BY <1>1 DEF Counting
<1> DEFINE Old == Mine(pc[r], t[r], d)
           New == Mine(s, l, d)
<1>2. IsFiniteSet(Old) /\ Cardinality(Old) \in Nat /\ refs[d] \in Nat
  BY <1>1, MineFinite
<1>3. CASE d = d0
  <2>1. refs'[d] = refs[d] + 1
    BY <1>1, <1>3
  <2>2. New = Old \cup {i0} /\ i0 \notin Old
    BY <1>3
  <2> HIDE DEF Old, New
  <2>3. Cardinality(New) = Cardinality(Old) + 1
    BY <1>2, <2>2, FS_AddElement
  <2> QED
    BY <1>2, <2>1, <2>3 DEF Old, New
<1>4. CASE d # d0
  BY <1>1, <1>2, <1>4
<1> QED
  BY <1>3, <1>4

LEMMA CountingPut ==
  ASSUME IInv, NEW r \in Reader, NEW s, NEW l, NEW d0 \in Device, NEW i0,
         Brelse(d0), i0 \in Mine(pc[r], t[r], d0),
         Mine(s, l, d0) = Mine(pc[r], t[r], d0) \ {i0},
         \A d \in Device : d # d0 => Mine(s, l, d) = Mine(pc[r], t[r], d)
  PROVE  Counting(r, s, l)
<1>1. refs \in [Device -> Nat] /\ refs' = [refs EXCEPT ![d0] = @ - 1]
  BY DEF IInv, TypeOK, Brelse
<1> SUFFICES ASSUME NEW d \in Device
             PROVE  refs'[d] = (refs[d] + Cardinality(Mine(s, l, d))) - Cardinality(Mine(pc[r], t[r], d))
  BY <1>1 DEF Counting
<1> DEFINE Old == Mine(pc[r], t[r], d)
           New == Mine(s, l, d)
<1>2. IsFiniteSet(Old) /\ Cardinality(Old) \in Nat /\ refs[d] \in Nat
  BY <1>1, MineFinite
<1>3. CASE d = d0
  <2>1. refs'[d] = refs[d] - 1
    BY <1>1, <1>3
  <2>2. New = Old \ {i0} /\ i0 \in Old
    BY <1>3
  <2> HIDE DEF Old, New
  <2>3. Cardinality(New) = Cardinality(Old) - 1
    BY <1>2, <2>2, FS_RemoveElement
  <2> QED
    BY <1>2, <2>1, <2>3 DEF Old, New
<1>4. CASE d # d0
  BY <1>1, <1>2, <1>4
<1> QED
  BY <1>3, <1>4

\* A reader is well-typed.
LEMMA ReaderType ==
  ASSUME IInv, NEW r \in Reader
  PROVE  /\ t[r] \in Locals /\ pc[r] \in States /\ Proper(pc[r], t[r], fed)
         /\ t[r].blk \in Block \cup {None} /\ t[r].temp \in Nat \X Nat /\ t[r].offset \in 0 .. D
         /\ t[r].cur \in Nat /\ t[r].cbyte \in Nat /\ t[r].bh \in Seq(Device) /\ t[r].k \in Nat \ {0}
         /\ t[r].bytes \in Int /\ t[r].out \in Seq(Nat) /\ t[r].next \in Nat /\ t[r].hit \in BOOLEAN
         /\ Len(t[r].bh) \in Nat /\ t[r].k <= Len(t[r].bh) + 1 /\ InRoom(t[r])
         /\ reads \in 0 .. MaxReads
<1>1. t[r] \in Locals /\ pc[r] \in States /\ Proper(pc[r], t[r], fed)
  BY DEF IInv, TypeOK, ReadersInv
<1>2. /\ t[r].blk \in Block \cup {None} /\ t[r].temp \in Nat \X Nat /\ t[r].offset \in 0 .. D
      /\ t[r].cur \in Nat /\ t[r].cbyte \in Nat /\ t[r].bh \in Seq(Device) /\ t[r].k \in Nat \ {0}
      /\ t[r].bytes \in Int /\ t[r].out \in Seq(Nat) /\ t[r].next \in Nat /\ t[r].hit \in BOOLEAN
  BY <1>1 DEF Locals
<1>3. Len(t[r].bh) \in Nat
  BY <1>2
<1>4. t[r].k <= Len(t[r].bh) + 1 /\ InRoom(t[r])
      /\ reads \in 0 .. MaxReads
  BY DEF IInv, TypeOK, Roomy
<1> QED
  BY <1>1, <1>2, <1>3, <1>4

-------------------------------------------------------------------------------
(* The calls and their ends                                                *)

\* A reader without buffers.
LEMMA Bare ==
  ASSUME NEW p, NEW l, NEW d, l.bh = <<>>, l.k = 1
  PROVE  Mine(p, l, d) = {} /\ HasRead(p, l) = {}
BY EmptyFacts DEF Mine, HasRead

LEMMA CallKeeps ==
  ASSUME IInv, NEW r \in Reader, NEW x \in Block, Call(r, x)
  PROVE  IInv'
<1> DEFINE m == At[x] % D
           c == At[x] \div D
           l == [NoLocals EXCEPT !.blk = x, !.offset = m, !.cur = c,
                                 !.cbyte = IF x \in Meta THEN 0 ELSE Size[x], !.bytes = -m]
           s == IF x \in Meta
                THEN IF At[x] + 2 > BytesUsed THEN "error" ELSE "head"
                ELSE IF Size[x] > Src[x] \/ At[x] + Size[x] > BytesUsed THEN "error" ELSE "getblk"
<1>1. /\ pc[r] = "idle" /\ reads < MaxReads /\ reads' = reads + 1
      /\ pc' = [pc EXCEPT ![r] = s] /\ t' = [t EXCEPT ![r] = l]
      /\ UNCHANGED <<state, refs, mutex, fed>>
  BY DEF Call, Is, Goto, bufs
<1>2. /\ l.blk = x /\ l.offset = m /\ l.cur = c /\ l.cbyte = (IF x \in Meta THEN 0 ELSE Size[x])
      /\ l.bytes = -m /\ l.bh = <<>> /\ l.k = 1 /\ l.out = <<>> /\ l.hit = FALSE /\ l.next = 0
      /\ l.temp = <<0, 0>>
  BY DEF NoLocals
<1>3. /\ At[x] \in Nat /\ Size[x] \in Nat \ {0} /\ Src[x] \in Nat /\ BytesUsed \in Nat
      /\ D \in Nat \ {0, 1}
  BY Constants
<1>4. c \in Nat /\ m \in 0 .. D - 1 /\ m = At[x] - c * D /\ c * D \in Int
  <2>1. c \in Nat /\ m \in 0 .. D - 1 /\ m = At[x] - c * D
    BY <1>3, DivFacts
  <2> HIDE DEF c, m
  <2> QED
    BY <1>3, <2>1
<1>5. l \in Locals
  <2>1. <<>> \in Seq(Device) /\ <<>> \in Seq(Nat) /\ <<0, 0>> \in Nat \X Nat
    BY EmptyFacts
  <2>2. m \in 0 .. D /\ -m \in Int /\ l.cbyte \in Nat /\ 0 \in Nat /\ 1 \in Nat \ {0} /\ FALSE \in BOOLEAN
    BY <1>2, <1>3, <1>4
  <2> HIDE DEF m, c
  <2> QED
    BY <1>2, <1>4, <2>1, <2>2 DEF Locals, NoLocals
<1>6. s \in States
  BY DEF States
<1>7. t[r].bh = <<>> /\ t[r].k = 1 /\ reads \in 0 .. MaxReads /\ MaxReads \in Nat
  BY <1>1, ReaderType, Constants DEF Proper, Idle
<1>8. Len(<<>>) = 0
  BY EmptyFacts
<1>9. s \in {"error", "head", "getblk"}
  OBVIOUS
<1>10. /\ s = "head" => x \in Meta /\ At[x] + 2 <= BytesUsed
       /\ s = "getblk" => x \notin Meta /\ Fits(x)
       /\ s = "error" => ~Sound(x)
  BY <1>3, StartFacts DEF Fits, Sound
<1> HIDE DEF l, s, m, c
<1>11. Moves(r, s, l)
  <2>1. InRoom(l)
    BY <1>2, <1>8, FewFit
  <2> QED
    BY <1>1, <1>2, <1>5, <1>6, <1>7, <1>8, <2>1 DEF Moves
<1>12. Locking(r, s) /\ Answering(r, s, l) /\ Counting(r, s, l)
  BY <1>1, <1>2, <1>7, <1>9, Bare, LockingSame, AnsweringSame, CountingSame DEF Inside
<1>13. Proper(s, l, fed')
  <2>1. Measuring(s, l)
    BY <1>2, <1>4, <1>9, <1>10, <1>3 DEF Measuring, Header, HeadAt
  <2>2. Getting(s, l)
    <3>1. CASE s = "getblk"
      <4>1. Covered(0, m) = -m
        BY <1>3, <1>4 DEF Covered
      <4>2. First(l) = c
        BY <1>2, <1>4, <1>8, <1>10, <3>1 DEF First
      <4>3. Lie(l, c, m)
        BY <1>2, <1>4, <1>8, <1>10, <3>1, <1>3, StartFacts DEF Lie
      <4> QED
        BY <1>2, <1>8, <1>10, <3>1, <4>1, <4>2, <4>3 DEF Getting
    <3> QED
      BY <3>1 DEF Getting
  <2>3. Reading(s, l, fed') /\ Ended(s, l) /\ Idle(s, l)
    BY <1>9 DEF Reading, Ended, Idle, Got
  <2>4. Refusal(s, l)
    BY <1>2, <1>9, <1>10 DEF Refusal
  <2> QED
    BY <2>1, <2>2, <2>3, <2>4 DEF Proper
<1> QED
  BY <1>11, <1>12, <1>13, StepKeeps DEF MovesWell

LEMMA NoArrayKeeps ==
  ASSUME IInv, NEW r \in Reader, NoArray(r)
  PROVE  IInv'
<1> DEFINE l == [NoLocals EXCEPT !.blk = None, !.hit = TRUE]
<1>1. /\ pc[r] = "idle" /\ reads < MaxReads /\ reads' = reads + 1
      /\ pc' = [pc EXCEPT ![r] = "error"] /\ t' = [t EXCEPT ![r] = l]
      /\ UNCHANGED <<state, refs, mutex, fed>>
  BY DEF NoArray, Is, Goto, bufs
<1>2. /\ l.blk = None /\ l.offset = 0 /\ l.cur = 0 /\ l.cbyte = 0 /\ l.bytes = 0
      /\ l.bh = <<>> /\ l.k = 1 /\ l.out = <<>> /\ l.hit = TRUE /\ l.next = 0 /\ l.temp = <<0, 0>>
  BY DEF NoLocals
<1>3. l \in Locals
  <2>1. <<>> \in Seq(Device) /\ <<>> \in Seq(Nat) /\ <<0, 0>> \in Nat \X Nat
    BY EmptyFacts
  <2>2. 0 \in 0 .. D /\ 0 \in Int /\ 0 \in Nat /\ 1 \in Nat \ {0} /\ TRUE \in BOOLEAN
    BY Constants
  <2> QED
    BY <1>2, <2>1, <2>2 DEF Locals, NoLocals
<1>4. t[r].bh = <<>> /\ t[r].k = 1 /\ reads \in 0 .. MaxReads /\ MaxReads \in Nat
  BY <1>1, ReaderType, Constants DEF Proper, Idle
<1> HIDE DEF l
<1>5. Moves(r, "error", l)
  BY <1>1, <1>2, <1>3, <1>4, EmptyFacts, FewFit DEF Moves, States
<1>6. Locking(r, "error") /\ Answering(r, "error", l) /\ Counting(r, "error", l)
  <2>1. Locking(r, "error")
    BY <1>1, LockingSame DEF Inside
  <2>2. Answering(r, "error", l)
    BY <1>1, <1>2, Bare, AnsweringSame
  <2>3. Counting(r, "error", l)
    BY <1>1, <1>2, <1>4, Bare, CountingSame
  <2> QED
    BY <2>1, <2>2, <2>3
<1>7. Proper("error", l, fed')
  BY <1>2 DEF Proper, Measuring, Header, Getting, Reading, Got, Ended, Idle, Refusal
<1> QED
  BY <1>5, <1>6, <1>7, StepKeeps DEF MovesWell

LEMMA ReturnKeeps ==
  ASSUME IInv, NEW r \in Reader, Return(r)
  PROVE  IInv'
<1>1. /\ pc[r] \in {"ok", "error"}
      /\ pc' = [pc EXCEPT ![r] = "idle"] /\ t' = [t EXCEPT ![r] = NoLocals]
      /\ UNCHANGED <<state, refs, mutex, fed, reads>>
  BY DEF Return, Is, Goto, bufs
<1>2. /\ NoLocals.blk = None /\ NoLocals.offset = 0 /\ NoLocals.cur = 0 /\ NoLocals.cbyte = 0
      /\ NoLocals.bytes = 0 /\ NoLocals.bh = <<>> /\ NoLocals.k = 1 /\ NoLocals.out = <<>>
      /\ NoLocals.hit = FALSE /\ NoLocals.next = 0 /\ NoLocals.temp = <<0, 0>>
  BY DEF NoLocals
<1>3. NoLocals \in Locals
  <2>1. <<>> \in Seq(Device) /\ <<>> \in Seq(Nat) /\ <<0, 0>> \in Nat \X Nat
    BY EmptyFacts
  <2>2. 0 \in 0 .. D /\ 0 \in Int /\ 0 \in Nat /\ 1 \in Nat \ {0} /\ FALSE \in BOOLEAN
    BY Constants
  <2> QED
    BY <1>2, <2>1, <2>2 DEF Locals, NoLocals
<1>4. Moves(r, "idle", NoLocals)
  BY <1>1, <1>2, <1>3, EmptyFacts, FewFit, ReaderType DEF Moves, States
<1>5. Counting(r, "idle", NoLocals)
  <2>1. ASSUME NEW d \in Device PROVE Mine(pc[r], t[r], d) = {}
    <3>1. pc[r] = "ok" => t[r].k = Len(t[r].bh) + 1 /\ Len(t[r].bh) \in Nat
      BY ReaderType DEF Proper, Ended
    <3> QED
      BY <1>1, <3>1 DEF Mine
  <2> QED
    BY <1>1, <1>2, <2>1, Bare, CountingSame
<1>6. Locking(r, "idle") /\ Answering(r, "idle", NoLocals)
  <2>1. Locking(r, "idle")
    BY <1>1, LockingSame DEF Inside
  <2>2. Answering(r, "idle", NoLocals)
    BY <1>1, <1>2, Bare, AnsweringSame
  <2> QED
    BY <2>1, <2>2
<1>7. Proper("idle", NoLocals, fed')
  BY <1>2 DEF Proper, Measuring, Header, Getting, Reading, Got, Ended, Idle, Refusal
<1> QED
  BY <1>4, <1>5, <1>6, <1>7, StepKeeps DEF MovesWell

-------------------------------------------------------------------------------
(* Failing                                                                 *)

\* A step that fails, for a reason: the reader keeps what it has.
LEMMA FailMoves ==
  ASSUME IInv, NEW r \in Reader, NEW s \in {"unlock", "release", "error"}, NEW why \in BOOLEAN,
         Fail(r, why, s), why \/ ~Sound(t[r].blk), UNCHANGED reads
  PROVE  \E l : /\ Moves(r, s, l) /\ Proper(s, l, fed')
                /\ l.bh = t[r].bh /\ l.k = t[r].k /\ HasRead(s, l) = {}
<1> DEFINE l == [t[r] EXCEPT !.hit = @ \/ why]
<1>1. pc' = [pc EXCEPT ![r] = s] /\ t' = [t EXCEPT ![r] = l]
  BY Zenon DEF Fail, Goto
<1>2. l \in Locals
  <2>1. t[r] \in Locals /\ (t[r].hit \/ why) \in BOOLEAN
    BY ReaderType, Zenon
  <2> QED
    BY <2>1, Zenon DEF Locals
<1>3. l.bh = t[r].bh /\ l.k = t[r].k /\ l.blk = t[r].blk
  BY ReaderType DEF Locals
<1>4. l.hit = (t[r].hit \/ why)
  <2>1. t[r] \in Locals
    BY ReaderType
  <2> QED
    BY <2>1, Zenon DEF Locals
<1> HIDE DEF l
<1>5. Moves(r, s, l)
  BY <1>1, <1>2, <1>3, ReaderType DEF Moves, InRoom, States
<1>6. Proper(s, l, fed')
  <2>1. Refusal(s, l)
    BY <1>3, <1>4, Zenon DEF Refusal
  <2>2. s \notin Header /\ s \notin Got /\ s # "getblk" /\ s \notin {"end", "ok"} /\ s # "idle"
    BY DEF Header, Got
  <2> QED
    BY <2>1, <2>2 DEF Proper, Measuring, Getting, Reading, Ended, Idle
<1>7. HasRead(s, l) = {}
  BY DEF HasRead, Got
<1> QED
  BY <1>3, <1>5, <1>6, <1>7

\* A buffer that was read or could not be.
LEMMA AnsweringSet ==
  ASSUME IInv, NEW r \in Reader, NEW s, NEW l, NEW d \in Device, NEW v \in {"uptodate", "failed"},
         state' = [state EXCEPT ![d] = v], v = "failed" => d \in Flaky,
         \A i \in HasRead(s, l) : l.bh[i] = d \/ (i \in HasRead(pc[r], t[r]) /\ l.bh[i] = t[r].bh[i])
  PROVE  Answering(r, s, l)
<1>1. state \in [Device -> Statuses] /\ v \in Statuses /\ v # "clean"
  BY DEF IInv, TypeOK, Statuses
<1>2. \A e \in Device : state'[e] = (IF e = d THEN v ELSE state[e])
  BY <1>1
<1>3. ASSUME NEW i \in HasRead(s, l) PROVE state'[l.bh[i]] # "clean"
  <2>1. CASE l.bh[i] = d
    BY <1>1, <1>2, <2>1
  <2>2. CASE i \in HasRead(pc[r], t[r]) /\ l.bh[i] = t[r].bh[i]
    <3>1. state[t[r].bh[i]] # "clean"
      BY <2>2 DEF IInv, Answered
    <3>2. i \in t[r].k .. Len(t[r].bh)
      BY <2>2 DEF HasRead
    <3>3. t[r].bh[i] \in Device
      BY <3>2, HeldFacts
    <3> QED
      BY <1>1, <1>2, <2>2, <3>1, <3>3
  <2> QED
    BY <2>1, <2>2
<1>4. state' \in [Device -> Statuses]
  BY <1>1
<1>5. \A e \in Device : (state'[e] = "clean" => state[e] = "clean") /\ (state'[e] = "failed" => e \in Flaky)
  BY <1>1, <1>2 DEF IInv, Answered
<1> QED
  BY <1>3, <1>4, <1>5 DEF Answering

-------------------------------------------------------------------------------
(* The length of a block of metadata                                       *)

LEMMA TupleExcept ==
  ASSUME NEW w \in Nat \X Nat, NEW a \in Nat
  PROVE  [w EXCEPT ![1] = a] = <<a, w[2]>> /\ [w EXCEPT ![2] = a] = <<w[1], a>>
OBVIOUS

LEMMA FirstByteSet ==
  ASSUME NEW w \in Nat \X Nat, NEW a \in Nat
  PROVE  /\ [w EXCEPT ![FirstByte] = a] \in Nat \X Nat
         /\ [w EXCEPT ![FirstByte] = a][FirstByte] = a
<1>1. CASE Swap
  BY <1>1, TupleExcept DEF FirstByte
<1>2. CASE ~Swap
  BY <1>2, TupleExcept DEF FirstByte
<1> QED
  BY <1>1, <1>2

LEMMA SecondByteSet ==
  ASSUME NEW w \in Nat \X Nat, NEW x \in Block, w[FirstByte] = At[x]
  PROVE  /\ [w EXCEPT ![SecondByte] = At[x] + 1] \in Nat \X Nat
         /\ [w EXCEPT ![SecondByte] = At[x] + 1] = LengthAt(x)
<1>1. At[x] \in Nat /\ At[x] + 1 \in Nat /\ Swap \in BOOLEAN
  BY Constants
<1>2. CASE Swap
  BY <1>1, <1>2, TupleExcept DEF FirstByte, SecondByte, LengthAt
<1>3. CASE ~Swap
  BY <1>1, <1>3, TupleExcept DEF FirstByte, SecondByte, LengthAt
<1> QED
  BY <1>2, <1>3

\* A reader with one buffer.
LEMMA OneBuffer ==
  ASSUME NEW p, NEW l, NEW c \in Device, l.bh = <<c>>, l.k = 1
  PROVE  /\ \A d : p # "error" => Mine(p, l, d) = (IF d = c THEN {1} ELSE {})
         /\ \A i \in HasRead(p, l) : i = 1 /\ l.bh[i] = c
         /\ Len(l.bh) = 1
<1>1. Len(l.bh) = 1 /\ l.bh[1] = c
  BY SingleFacts
<1>2. 1 \in 1 .. BytesUsed + 1
  BY Constants
<1>3. l.k .. Len(l.bh) = {1}
  BY <1>1
<1> QED
  BY <1>1, <1>2, <1>3 DEF Mine, HasRead

\* The one buffer goes back and the next one comes.
LEMMA CountingNext ==
  ASSUME IInv, NEW r \in Reader, NEW s, NEW l, NEW c \in Device, NEW d0 \in Device, c # d0,
         pc[r] # "error", s # "error", t[r].bh = <<c>>, t[r].k = 1, l.bh = <<d0>>, l.k = 1,
         refs' = [refs EXCEPT ![d0] = @ + 1, ![c] = @ - 1]
  PROVE  Counting(r, s, l)
<1>1. refs \in [Device -> Nat]
  BY DEF IInv, TypeOK
<1> SUFFICES ASSUME NEW d \in Device
             PROVE  refs'[d] = (refs[d] + Cardinality(Mine(s, l, d))) - Cardinality(Mine(pc[r], t[r], d))
  BY <1>1 DEF Counting
<1>2. Mine(s, l, d) = (IF d = d0 THEN {1} ELSE {}) /\ Mine(pc[r], t[r], d) = (IF d = c THEN {1} ELSE {})
  <2>1. Mine(s, l, d) = (IF d = d0 THEN {1} ELSE {})
    <3>1. l.bh = <<d0>> /\ l.k = 1
      OBVIOUS
    <3>2. \A e : s # "error" => Mine(s, l, e) = (IF e = d0 THEN {1} ELSE {})
      BY <3>1, OneBuffer, Zenon
    <3> QED
      BY <3>2
  <2>2. Mine(pc[r], t[r], d) = (IF d = c THEN {1} ELSE {})
    BY OneBuffer, Zenon
  <2> QED
    BY <2>1, <2>2
<1>3. Cardinality({1}) = 1 /\ Cardinality({}) = 0
  BY FS_Singleton, FS_EmptySet
<1>4. Cardinality(Mine(s, l, d)) = (IF d = d0 THEN 1 ELSE 0)
      /\ Cardinality(Mine(pc[r], t[r], d)) = (IF d = c THEN 1 ELSE 0)
  BY <1>2, <1>3
<1>5. refs'[d] = IF d = c THEN refs[d] - 1 ELSE IF d = d0 THEN refs[d] + 1 ELSE refs[d]
  BY <1>1
<1>6. refs[d] \in Nat
  BY <1>1
<1> QED
  BY <1>4, <1>5, <1>6

\* The one buffer goes back.
LEMMA CountingDrop ==
  ASSUME IInv, NEW r \in Reader, NEW l, NEW c \in Device,
         pc[r] # "error", t[r].bh = <<c>>, t[r].k = 1, Brelse(c)
  PROVE  Counting(r, "error", l)
<1>1. \A d : Mine(pc[r], t[r], d) = (IF d = c THEN {1} ELSE {})
  BY OneBuffer, Zenon
<1>2. \A d : Mine("error", l, d) = {}
  BY DEF Mine
<1> QED
  BY <1>1, <1>2, CountingPut

\* Where the header lies, the image and its device go on.
LEMMA HeaderFacts ==
  ASSUME IInv, NEW r \in Reader, pc[r] \in Header
  PROVE  /\ t[r].blk \in Meta /\ t[r].blk \in Block /\ At[t[r].blk] + 2 <= BytesUsed
         /\ At[t[r].blk] \in Nat /\ BytesUsed \in Nat /\ D \in Nat \ {0, 1}
         /\ t[r].k = 1 /\ t[r].out = <<>> /\ t[r].cur * D + t[r].offset = HeadAt(pc[r], t[r].blk)
         /\ t[r].cur * D \in Int /\ (t[r].cur + 1) * D = t[r].cur * D + D
         /\ t[r].bh = (IF pc[r] = "head" THEN <<>> ELSE <<t[r].cur>>)
<1>1. Measuring(pc[r], t[r])
  BY ReaderType DEF Proper
<1>2. t[r].blk \in Meta /\ t[r].blk \in Block
  BY <1>1, SRAssumption DEF Measuring
<1>3. t[r].cur \in Nat /\ D \in Nat \ {0, 1}
  BY ReaderType, Constants
<1>4. t[r].cur * D \in Int /\ (t[r].cur + 1) * D = t[r].cur * D + D
  BY <1>3, MulSucc
<1> QED
  BY <1>1, <1>2, <1>3, <1>4, Constants DEF Measuring

LEMMA LengthReadKeeps ==
  ASSUME IInv, NEW r \in Reader, LengthRead(r)
  PROVE  IInv'
<1> DEFINE d     == t[r].cur
           x     == t[r].blk
           edge  == D - t[r].offset = 1
           first == [t[r].temp EXCEPT ![FirstByte] = Here(r)]
           both  == [first EXCEPT ![SecondByte] = Here(r) + 1]
<1>1. pc[r] = "head" /\ UNCHANGED <<mutex, fed, reads>>
  BY DEF LengthRead, Is
<1>2. x \in Block /\ x \in Meta /\ At[x] \in Nat /\ At[x] + 2 <= BytesUsed /\ Here(r) = At[x]
      /\ t[r].k = 1 /\ t[r].out = <<>> /\ t[r].bh = <<>> /\ t[r].offset \in Nat /\ t[r].offset < D
      /\ D \in Nat \ {0, 1} /\ d * D \in Int /\ BytesUsed \in Nat
  <2>1. pc[r] \in Header
    BY <1>1 DEF Header
  <2>2. t[r].cur * D + t[r].offset = At[x] /\ t[r].bh = <<>>
    BY <1>1, <2>1, HeaderFacts DEF HeadAt
  <2>3. Measuring(pc[r], t[r])
    BY ReaderType DEF Proper
  <2>4. t[r].offset < D
    BY <1>1, <2>1, <2>3 DEF Measuring
  <2>5. t[r].offset \in Nat
    BY ReaderType, Constants
  <2> QED
    BY <2>1, <2>2, <2>4, <2>5, HeaderFacts DEF Here
<1>3. d \in Nat /\ d \in Device
  <2>1. d \in Nat /\ d * D + t[r].offset = At[x]
    BY <1>2, ReaderType DEF Here
  <2> HIDE DEF d, x
  <2>2. d * D <= BytesUsed + 2
    BY <1>2, <2>1
  <2> QED
    BY <2>1, <2>2, OnDevice
<1>4. first \in Nat \X Nat /\ first[FirstByte] = At[x]
  BY <1>2, FirstByteSet, ReaderType
<1>5. both \in Nat \X Nat /\ both = LengthAt(x)
  <2> HIDE DEF first
  <2> QED
    BY <1>2, <1>4, SecondByteSet
<1>6. ASSUME Bread(d),
             t' = IF edge THEN [t EXCEPT ![r].temp = first, ![r].bh = <<d>>]
                          ELSE [t EXCEPT ![r].temp = both, ![r].bh = <<d>>, ![r].offset = @ + 2],
             Goto(r, IF edge THEN "tail" ELSE IF CheckData THEN "mark" ELSE "sized")
      PROVE  IInv'
  <2> DEFINE o == IF edge THEN t[r].offset ELSE t[r].offset + 2
             w == IF edge THEN first ELSE both
             l == [t[r] EXCEPT !.temp = w, !.bh = <<d>>, !.offset = o]
             s == IF edge THEN "tail" ELSE IF CheckData THEN "mark" ELSE "sized"
  <2>1. t' = [t EXCEPT ![r] = l] /\ pc' = [pc EXCEPT ![r] = s]
    <3>1. t \in [Reader -> Locals] /\ t[r] \in Locals
      BY ReaderType DEF IInv, TypeOK
    <3>2. CASE edge
      <4>1. l = [t[r] EXCEPT !.temp = first, !.bh = <<d>>]
        BY <3>1, <3>2 DEF Locals
      <4> QED
        BY <1>6, <3>2, <4>1 DEF Goto
    <3>3. CASE ~edge
      BY <1>6, <3>3 DEF Goto
    <3> QED
      BY <3>2, <3>3
  <2>2. o \in 0 .. D /\ w \in Nat \X Nat /\ <<d>> \in Seq(Device)
    <3>1. o \in 0 .. D
      BY <1>2
    <3>2. <<d>> \in Seq(Device)
      BY <1>3, SingleFacts
    <3>3. w \in Nat \X Nat
      <4> HIDE DEF first, both, d
      <4> QED
        BY <1>4, <1>5
    <3> QED
      BY <3>1, <3>2, <3>3
  <2>3. t[r] \in Locals
    BY ReaderType
  <2> HIDE DEF o, w, first, both, d
  <2>4. l \in Locals /\ l.bh = <<d>> /\ l.k = 1 /\ l.blk = x /\ l.cur = d /\ l.offset = o /\ l.temp = w
        /\ l.out = <<>>
    BY <1>2, <2>2, <2>3 DEF Locals, d
  <2>5. s \in {"tail", "mark", "sized"}
    OBVIOUS
  <2>6. Moves(r, s, l)
    <3> HIDE DEF l
    <3>1. s \in States
      BY <2>5 DEF States
    <3>2. Len(<<d>>) = 1
      BY SingleFacts, <1>3
    <3>3. l.k <= Len(l.bh) + 1 /\ InRoom(l)
      BY <2>4, <3>2, OneFits
    <3> QED
      BY <1>1, <2>1, <2>4, <3>1, <3>3, ReaderType DEF Moves
  <2>7. Locking(r, s)
    BY <1>1, <2>5, LockingSame DEF Inside
  <2>8. Answering(r, s, l)
    <3>1. state' = [state EXCEPT ![d] = "uptodate"]
      BY <1>6 DEF Bread, d
    <3>2. \A i \in HasRead(s, l) : l.bh[i] = d
      BY <2>4, <1>3, OneBuffer
    <3> HIDE DEF l, s
    <3> QED
      BY <1>3, <3>1, <3>2, AnsweringSet
  <2>9. Counting(r, s, l)
    <3>1. \A e : Mine(s, l, e) = (IF e = d THEN {1} ELSE {})
      BY <2>4, <2>5, <1>3, OneBuffer
    <3>2. \A e : Mine(pc[r], t[r], e) = {}
      BY <1>2, Bare
    <3>3. Get(d)
      BY <1>6 DEF Bread, d
    <3> HIDE DEF l, s
    <3> QED
      BY <1>3, <3>1, <3>2, <3>3, CountingGot
  <2>10. Proper(s, l, fed')
    <3>1. Measuring(s, l)
      <4>1. d * D + t[r].offset = At[x]
        BY <1>2 DEF Here, d
      <4>2. d * D \in Int
        BY <1>2 DEF d
      <4>3. CASE edge
        <5>1. s = "tail" /\ o = D - 1 /\ o = t[r].offset /\ w = first
          BY <4>3, <1>2 DEF o, w
        <5>2. l.cur * D + l.offset = At[x]
          BY <2>4, <4>1, <5>1
        <5>3. l.temp[FirstByte] = At[x]
          BY <1>4, <2>4, <5>1 DEF first
        <5> HIDE DEF l, s, edge
        <5> QED
          BY <1>2, <2>4, <5>1, <5>2, <5>3 DEF Measuring, Header, HeadAt
      <4>4. CASE ~edge
        <5>1. s = (IF CheckData THEN "mark" ELSE "sized") /\ o = t[r].offset + 2 /\ w = both
          BY <4>4 DEF o, w
        <5>2. l.cur * D + l.offset = At[x] + 2
          <6> HIDE DEF l, x
          <6> QED
            BY <1>2, <2>4, <4>1, <4>2, <5>1
        <5>3. l.temp = LengthAt(x)
          BY <1>5, <2>4, <5>1 DEF both, first
        <5>4. CheckData \in BOOLEAN /\ (~CheckData => Start(x) = At[x] + 2)
          BY <1>2, Constants DEF Start, HeaderBytes
        <5> HIDE DEF l, s, edge
        <5>5. s \in {"mark", "sized"} /\ (s = "mark" <=> CheckData)
          BY <5>1, <5>4
        <5> QED
          BY <1>2, <2>4, <5>2, <5>3, <5>4, <5>5 DEF Measuring, Header, HeadAt
      <4> QED
        BY <4>3, <4>4
    <3> HIDE DEF l, s
    <3> QED
      BY <2>5, <3>1 DEF Proper, Getting, Reading, Got, Ended, Idle, Refusal
  <2> HIDE DEF l, s
  <2> QED
    BY <2>6, <2>7, <2>8, <2>9, <2>10, StepKeeps DEF MovesWell
<1>7. ASSUME BreadFails(r, d) PROVE IInv'
  <2>1. d \in Flaky /\ state' = [state EXCEPT ![d] = "failed"] /\ Fail(r, TRUE, "error")
        /\ UNCHANGED refs
    BY <1>7 DEF BreadFails
  <2> HIDE DEF d
  <2>2. PICK l : /\ Moves(r, "error", l) /\ Proper("error", l, fed')
                 /\ l.bh = t[r].bh /\ l.k = t[r].k /\ HasRead("error", l) = {}
    BY <1>1, <2>1, FailMoves
  <2>3. Locking(r, "error")
    BY <1>1, LockingSame DEF Inside
  <2>4. Answering(r, "error", l)
    BY <1>3, <2>1, <2>2, AnsweringSet
  <2>5. Counting(r, "error", l)
    BY <1>2, <2>1, <2>2, Bare, CountingSame
  <2> QED
    BY <2>2, <2>3, <2>4, <2>5, StepKeeps DEF MovesWell
<1> QED
  BY <1>6, <1>7 DEF LengthRead

\* The next of the device's blocks is read in place of this one, or is not.
LEMMA NextOnDevice ==
  ASSUME IInv, NEW r \in Reader, pc[r] = "tail" \/ (pc[r] = "mark" /\ AtEdge(r))
  PROVE  /\ t[r].cur \in Device /\ t[r].cur + 1 \in Device /\ t[r].cur \in Nat
         /\ t[r].bh = <<t[r].cur>> /\ t[r].k = 1
         /\ pc[r] = "tail" => (t[r].cur + 1) * D = At[t[r].blk] + 1
         /\ pc[r] = "mark" => (t[r].cur + 1) * D = At[t[r].blk] + 2
<1> DEFINE c == t[r].cur
           x == t[r].blk
           e == t[r].cur * D
           f == (t[r].cur + 1) * D
<1>1. pc[r] \in Header
  BY DEF Header
<1>2. /\ x \in Block /\ At[x] + 2 <= BytesUsed /\ At[x] \in Nat /\ BytesUsed \in Nat /\ D \in Nat \ {0, 1}
      /\ t[r].k = 1 /\ e + t[r].offset = HeadAt(pc[r], x)
      /\ e \in Int /\ f = e + D
      /\ t[r].bh = (IF pc[r] = "head" THEN <<>> ELSE <<t[r].cur>>)
  BY <1>1, HeaderFacts, Zenon
<1>3. c \in Nat /\ c + 1 \in Nat /\ t[r].offset \in Int
  BY ReaderType, Constants
<1>4. pc[r] = "tail" => t[r].offset = D - 1
  <2>1. Measuring(pc[r], t[r])
    BY ReaderType DEF Proper
  <2> QED
    BY <1>1, <2>1 DEF Measuring
<1>5. pc[r] = "mark" => t[r].offset = D
  BY DEF AtEdge
<1>6. HeadAt(pc[r], x) = (IF pc[r] = "tail" THEN At[x] ELSE At[x] + 2)
  BY DEF HeadAt
<1> HIDE DEF e, f, x
<1>7. /\ pc[r] = "tail" => f = At[x] + 1
      /\ pc[r] = "mark" => f = At[x] + 2
  <2> DEFINE a == At[x]
             q == t[r].offset
             w == HeadAt(pc[r], x)
  <2>1. e + q = w /\ f = e + D /\ e \in Int /\ q \in Int /\ a \in Int /\ D \in Int
    BY <1>2, <1>3
  <2>2. w = (IF pc[r] = "tail" THEN a ELSE a + 2)
    BY <1>6
  <2>3. (pc[r] = "tail" => q = D - 1) /\ (pc[r] = "mark" => q = D)
    BY <1>4, <1>5
  <2> HIDE DEF a, q, w
  <2>4. /\ pc[r] = "tail" => f = a + 1
        /\ pc[r] = "mark" => f = a + 2
    BY <2>1, <2>2, <2>3
  <2> QED
    BY <2>4 DEF a
<1>8. e <= BytesUsed + 2 /\ f <= BytesUsed + 2
  BY <1>2, <1>7
<1>9. c \in Device /\ c + 1 \in Device
  BY <1>3, <1>8, OnDevice DEF e, f
<1> QED
  BY <1>2, <1>3, <1>7, <1>9 DEF f, x

LEMMA NextFails ==
  ASSUME IInv, NEW r \in Reader, pc[r] = "tail" \/ (pc[r] = "mark" /\ AtEdge(r)),
         t[r].cur + 1 \in Flaky, state' = [state EXCEPT ![t[r].cur + 1] = "failed"],
         Brelse(t[r].cur), Fail(r, TRUE, "error"), UNCHANGED <<mutex, fed, reads>>
  PROVE  IInv'
<1>1. t[r].cur \in Device /\ t[r].cur + 1 \in Device /\ t[r].bh = <<t[r].cur>> /\ t[r].k = 1
  BY NextOnDevice, Zenon
<1>2. PICK l : /\ Moves(r, "error", l) /\ Proper("error", l, fed')
               /\ l.bh = t[r].bh /\ l.k = t[r].k /\ HasRead("error", l) = {}
  BY FailMoves
<1>3. Locking(r, "error")
  BY LockingSame DEF Inside
<1>4. Answering(r, "error", l)
  BY <1>1, <1>2, AnsweringSet
<1>5. Counting(r, "error", l)
  BY <1>1, CountingDrop
<1> QED
  BY <1>2, <1>3, <1>4, <1>5, StepKeeps DEF MovesWell

LEMMA NextComes ==
  ASSUME IInv, NEW r \in Reader, pc[r] = "tail" \/ (pc[r] = "mark" /\ AtEdge(r)),
         state' = [state EXCEPT ![t[r].cur + 1] = "uptodate"],
         refs' = [refs EXCEPT ![t[r].cur + 1] = @ + 1, ![t[r].cur] = @ - 1],
         UNCHANGED <<mutex, fed>>,
         NEW s \in {"mark", "sized"}, NEW l, Moves(r, s, l), l.bh = <<t[r].cur + 1>>, l.k = 1,
         Proper(s, l, fed')
  PROVE  IInv'
<1>1. t[r].cur \in Device /\ t[r].cur + 1 \in Device /\ t[r].bh = <<t[r].cur>> /\ t[r].k = 1
      /\ t[r].cur \in Nat
  BY NextOnDevice, Zenon
<1>2. Locking(r, s)
  BY LockingSame DEF Inside
<1>3. Answering(r, s, l)
  <2>1. \A i \in HasRead(s, l) : l.bh[i] = t[r].cur + 1
    BY <1>1, OneBuffer
  <2> QED
    BY <1>1, <2>1, AnsweringSet
<1>4. Counting(r, s, l)
  <2>1. t[r].cur # t[r].cur + 1 /\ pc[r] # "error" /\ s # "error"
    BY <1>1
  <2> QED
    BY <1>1, <2>1, CountingNext
<1> QED
  BY <1>2, <1>3, <1>4, StepKeeps DEF MovesWell

LEMMA LengthEdgeKeeps ==
  ASSUME IInv, NEW r \in Reader, LengthEdge(r)
  PROVE  IInv'
<1> DEFINE d == t[r].cur + 1
           x == t[r].blk
<1>1. pc[r] = "tail" /\ NextBread(r) /\ UNCHANGED <<mutex, fed, reads>>
      /\ IF state'[d] = "failed" THEN Fail(r, TRUE, "error")
         ELSE /\ t' = [t EXCEPT ![r].temp[SecondByte] = d * D, ![r].cur = d, ![r].bh = <<d>>,
                                ![r].offset = 1]
              /\ Goto(r, IF CheckData THEN "mark" ELSE "sized")
  BY DEF LengthEdge, Is
<1>2. t[r].cur \in Device /\ d \in Device /\ d \in Nat /\ t[r].bh = <<t[r].cur>> /\ t[r].k = 1
      /\ d * D = At[x] + 1
  BY <1>1, NextOnDevice
<1>3. state \in [Device -> Statuses]
  BY DEF IInv, TypeOK, Statuses
<1>4. x \in Meta /\ x \in Block /\ At[x] + 2 <= BytesUsed /\ t[r].out = <<>> /\ t[r].temp[FirstByte] = At[x]
      /\ At[x] \in Nat /\ D \in Nat \ {0, 1}
  <2>1. Measuring(pc[r], t[r])
    BY ReaderType DEF Proper
  <2> QED
    BY <1>1, <2>1, HeaderFacts DEF Measuring, Header
<1>5. CASE state'[d] = "failed"
  <2>1. d \in Flaky /\ state' = [state EXCEPT ![d] = "failed"] /\ Brelse(t[r].cur)
    BY <1>1, <1>2, <1>3, <1>5 DEF NextBread
  <2> QED
    BY <1>1, <1>5, <2>1, NextFails
<1>6. CASE state'[d] # "failed"
  <2> DEFINE w == [t[r].temp EXCEPT ![SecondByte] = d * D]
             l == [t[r] EXCEPT !.temp = w, !.cur = d, !.bh = <<d>>, !.offset = 1]
             s == IF CheckData THEN "mark" ELSE "sized"
  <2>1. /\ state' = [state EXCEPT ![d] = "uptodate"]
        /\ refs' = [refs EXCEPT ![d] = @ + 1, ![t[r].cur] = @ - 1]
    BY <1>1, <1>2, <1>3, <1>6 DEF NextBread
  <2>2. pc' = [pc EXCEPT ![r] = s]
    BY <1>1, <1>6 DEF Goto
  <2>3. t' = [t EXCEPT ![r] = l]
    BY <1>1, <1>6
  <2>4. w \in Nat \X Nat /\ w = LengthAt(x)
    <3>1. w = [t[r].temp EXCEPT ![SecondByte] = At[x] + 1]
      BY <1>2, Zenon
    <3> HIDE DEF w
    <3> QED
      BY <1>4, <3>1, SecondByteSet, ReaderType
  <2>5. <<d>> \in Seq(Device) /\ Len(<<d>>) = 1 /\ 1 \in 0 .. D /\ t[r] \in Locals
    BY <1>2, <1>4, SingleFacts, ReaderType
  <2> HIDE DEF w, d
  <2>6. l \in Locals /\ l.bh = <<d>> /\ l.k = 1 /\ l.blk = x /\ l.cur = d /\ l.offset = 1 /\ l.temp = w
        /\ l.out = <<>>
    BY <1>2, <1>4, <2>4, <2>5 DEF Locals
  <2>7. s \in {"mark", "sized"} /\ (s = "mark" => CheckData)
        /\ (s = "sized" => Start(x) = At[x] + 2)
    BY <1>4 DEF Start, HeaderBytes
  <2> HIDE DEF l, s
  <2>8. Moves(r, s, l)
    <3>1. s \in States
      BY <2>7 DEF States
    <3>2. l.k <= Len(l.bh) + 1 /\ InRoom(l)
      BY <2>5, <2>6, OneFits
    <3> QED
      BY <1>1, <2>2, <2>3, <2>6, <3>1, <3>2, ReaderType DEF Moves
  <2>9. Proper(s, l, fed')
    <3>1. l.cur * D + l.offset = At[x] + 2
      BY <1>2, <1>4, <2>6
    <3>2. Measuring(s, l)
      BY <1>4, <2>4, <2>6, <2>7, <3>1 DEF Measuring, Header, HeadAt
    <3> QED
      BY <2>7, <3>2 DEF Proper, Getting, Reading, Got, Ended, Idle, Refusal
  <2> QED
    BY <1>1, <2>1, <2>6, <2>7, <2>8, <2>9, NextComes DEF d
<1> QED
  BY <1>5, <1>6

LEMMA MarkerEdgeKeeps ==
  ASSUME IInv, NEW r \in Reader, MarkerEdge(r)
  PROVE  IInv'
<1> DEFINE d == t[r].cur + 1
           x == t[r].blk
<1>1. pc[r] = "mark" /\ AtEdge(r) /\ NextBread(r) /\ UNCHANGED <<mutex, fed, reads>>
      /\ IF state'[d] = "failed" THEN Fail(r, TRUE, "error")
         ELSE t' = [t EXCEPT ![r].cur = d, ![r].bh = <<d>>, ![r].offset = 0] /\ UNCHANGED pc
  BY DEF MarkerEdge, Is
<1>2. t[r].cur \in Device /\ d \in Device /\ d \in Nat /\ t[r].bh = <<t[r].cur>> /\ t[r].k = 1
      /\ d * D = At[x] + 2
  BY <1>1, NextOnDevice
<1>3. state \in [Device -> Statuses]
  BY DEF IInv, TypeOK, Statuses
<1>4. x \in Meta /\ x \in Block /\ At[x] + 2 <= BytesUsed /\ t[r].out = <<>> /\ t[r].temp = LengthAt(x)
      /\ At[x] \in Nat /\ D \in Nat \ {0, 1} /\ CheckData
  <2>1. Measuring(pc[r], t[r])
    BY ReaderType DEF Proper
  <2> QED
    BY <1>1, <2>1, HeaderFacts DEF Measuring, Header
<1>5. CASE state'[d] = "failed"
  <2>1. d \in Flaky /\ state' = [state EXCEPT ![d] = "failed"] /\ Brelse(t[r].cur)
    BY <1>1, <1>2, <1>3, <1>5 DEF NextBread
  <2> QED
    BY <1>1, <1>5, <2>1, NextFails
<1>6. CASE state'[d] # "failed"
  <2> DEFINE l == [t[r] EXCEPT !.cur = d, !.bh = <<d>>, !.offset = 0]
  <2>1. /\ state' = [state EXCEPT ![d] = "uptodate"]
        /\ refs' = [refs EXCEPT ![d] = @ + 1, ![t[r].cur] = @ - 1]
    BY <1>1, <1>2, <1>3, <1>6 DEF NextBread
  <2>2. pc' = [pc EXCEPT ![r] = "mark"]
    BY <1>1, <1>6 DEF IInv, TypeOK
  <2>3. t' = [t EXCEPT ![r] = l]
    BY <1>1, <1>6
  <2>4. <<d>> \in Seq(Device) /\ Len(<<d>>) = 1 /\ 0 \in 0 .. D /\ t[r] \in Locals
    BY <1>2, <1>4, SingleFacts, ReaderType
  <2> HIDE DEF d
  <2>5. l \in Locals /\ l.bh = <<d>> /\ l.k = 1 /\ l.blk = x /\ l.cur = d /\ l.offset = 0
        /\ l.temp = t[r].temp /\ l.out = <<>>
    BY <1>2, <1>4, <2>4 DEF Locals
  <2> HIDE DEF l
  <2>6. Moves(r, "mark", l)
    <3>1. l.k <= Len(l.bh) + 1 /\ InRoom(l)
      BY <2>4, <2>5, OneFits
    <3> QED
      BY <1>1, <2>2, <2>3, <2>5, <3>1, ReaderType DEF Moves, States
  <2>7. Proper("mark", l, fed')
    <3>1. l.cur * D + l.offset = At[x] + 2
      BY <1>2, <1>4, <2>5
    <3>2. Measuring("mark", l)
      BY <1>4, <2>5, <3>1 DEF Measuring, Header, HeadAt
    <3> QED
      BY <3>2 DEF Proper, Getting, Reading, Got, Ended, Idle, Refusal
  <2> QED
    BY <1>1, <2>1, <2>5, <2>6, <2>7, NextComes DEF d
<1> QED
  BY <1>5, <1>6

LEMMA HeaderOnDevice ==
  ASSUME IInv, NEW r \in Reader, pc[r] \in {"mark", "sized"}
  PROVE  t[r].cur \in Device
<1> DEFINE x == t[r].blk
           e == t[r].cur * D
<1>1. pc[r] \in Header
  BY DEF Header
<1>2. /\ x \in Block /\ At[x] + 2 <= BytesUsed /\ At[x] \in Nat /\ BytesUsed \in Nat
      /\ e + t[r].offset = HeadAt(pc[r], x) /\ e \in Int
  BY <1>1, HeaderFacts, Zenon
<1>3. t[r].cur \in Nat /\ t[r].offset \in Nat
  BY ReaderType, Constants
<1>4. HeadAt(pc[r], x) \in Nat /\ HeadAt(pc[r], x) <= At[x] + 3
  BY <1>2, StartFacts DEF HeadAt
<1> HIDE DEF e, x
<1>5. e <= BytesUsed + 2
  BY <1>2, <1>3, <1>4
<1> QED
  BY <1>3, <1>5, OnDevice DEF e

LEMMA MarkerKeeps ==
  ASSUME IInv, NEW r \in Reader, Marker(r)
  PROVE  IInv'
<1> DEFINE x == t[r].blk
           l == [t[r] EXCEPT !.offset = @ + 1]
<1>1. pc[r] = "mark" /\ ~AtEdge(r) /\ UNCHANGED <<state, mutex, fed, reads>>
      /\ IF Marked(r) /\ Here(r) = At[x] + 2
         THEN t' = [t EXCEPT ![r] = l] /\ pc' = [pc EXCEPT ![r] = "sized"] /\ UNCHANGED refs
         ELSE Brelse(t[r].cur) /\ Fail(r, FALSE, "error")
  BY DEF Marker, Is, Goto
<1>2. pc[r] \in Header /\ Measuring(pc[r], t[r])
  BY <1>1, ReaderType DEF Header, Proper
<1>3. /\ x \in Meta /\ x \in Block /\ At[x] + 2 <= BytesUsed /\ t[r].out = <<>> /\ t[r].temp = LengthAt(x)
      /\ At[x] \in Nat /\ D \in Nat \ {0, 1} /\ CheckData /\ Here(r) = At[x] + 2
      /\ t[r].bh = <<t[r].cur>> /\ t[r].k = 1 /\ t[r].cur * D \in Int
  BY <1>1, <1>2, HeaderFacts DEF Measuring, HeadAt, Here
<1>4. t[r].cur \in Device
  BY <1>1, HeaderOnDevice
<1>5. CASE Marked(r)
  <2>1. t' = [t EXCEPT ![r] = l] /\ pc' = [pc EXCEPT ![r] = "sized"] /\ UNCHANGED refs
    BY <1>1, <1>3, <1>5
  <2>2. t[r].offset + 1 \in 0 .. D /\ t[r].offset \in Int
    BY <1>1, Constants, ReaderType DEF AtEdge
  <2>3. l \in Locals /\ l.bh = t[r].bh /\ l.k = 1 /\ l.blk = x /\ l.cur = t[r].cur
        /\ l.offset = t[r].offset + 1 /\ l.temp = t[r].temp /\ l.out = <<>>
    <3>1. t[r] \in Locals
      BY ReaderType
    <3> QED
      BY <1>3, <2>2, <3>1 DEF Locals
  <2> HIDE DEF l
  <2>4. Moves(r, "sized", l)
    <3>1. InRoom(t[r]) => InRoom(l)
      BY <2>3 DEF InRoom
    <3> QED
      BY <1>1, <1>3, <2>1, <2>3, <3>1, ReaderType DEF Moves, States
  <2>5. Proper("sized", l, fed')
    <3>1. l.cur * D + l.offset = Start(x)
      <4>1. t[r].cur * D + t[r].offset = At[x] + 2
        BY <1>3 DEF Here
      <4>2. Start(x) = At[x] + 3
        BY <1>3 DEF Start, HeaderBytes
      <4> DEFINE e == t[r].cur * D
      <4>3. l.cur * D = e /\ l.offset = t[r].offset + 1
        BY <2>3, Zenon
      <4>4. e \in Int /\ At[x] \in Nat /\ e + t[r].offset = At[x] + 2
        BY <1>3, <4>1
      <4> HIDE DEF x, e
      <4> QED
        BY <2>2, <4>2, <4>3, <4>4
    <3>2. Measuring("sized", l)
      BY <1>3, <2>3, <3>1 DEF Measuring, Header, HeadAt
    <3> QED
      BY <3>2 DEF Proper, Getting, Reading, Got, Ended, Idle, Refusal
  <2>6. Locking(r, "sized")
    BY <1>1, LockingSame DEF Inside
  <2>7. Answering(r, "sized", l)
    <3>1. \A i \in HasRead("sized", l) : i \in HasRead(pc[r], t[r]) /\ l.bh[i] = t[r].bh[i]
      BY <1>1, <1>3, <2>3 DEF HasRead
    <3> QED
      BY <1>1, <3>1, AnsweringSame
  <2>8. Counting(r, "sized", l)
    <3>1. \A e : Mine("sized", l, e) = Mine(pc[r], t[r], e)
      BY <1>1, <1>3, <2>3 DEF Mine
    <3> QED
      BY <2>1, <3>1, CountingSame
  <2> QED
    BY <2>4, <2>5, <2>6, <2>7, <2>8, StepKeeps DEF MovesWell
<1>6. CASE ~Marked(r)
  <2>1. Brelse(t[r].cur) /\ Fail(r, FALSE, "error")
    BY <1>1, <1>6
  <2>2. ~Sound(x)
    BY <1>6 DEF Marked, Sound
  <2>3. PICK k : /\ Moves(r, "error", k) /\ Proper("error", k, fed')
                 /\ k.bh = t[r].bh /\ k.k = t[r].k /\ HasRead("error", k) = {}
    BY <1>1, <2>1, <2>2, FailMoves
  <2>4. Locking(r, "error")
    BY <1>1, LockingSame DEF Inside
  <2>5. Answering(r, "error", k)
    BY <1>1, <2>3, AnsweringSame
  <2>6. Counting(r, "error", k)
    BY <1>1, <1>3, <1>4, <2>1, CountingDrop
  <2> QED
    BY <2>3, <2>4, <2>5, <2>6, StepKeeps DEF MovesWell
<1> QED
  BY <1>5, <1>6

LEMMA SizedKeeps ==
  ASSUME IInv, NEW r \in Reader, Sized(r)
  PROVE  IInv'
<1> DEFINE x == t[r].blk
           o == t[r].offset
           l == [t[r] EXCEPT !.cbyte = Size[x], !.bytes = D - o]
           s == IF TooBig(r, Size[x]) THEN "release" ELSE "getblk"
<1>1. pc[r] = "sized" /\ UNCHANGED <<state, refs, mutex, fed, reads>>
      /\ t' = [t EXCEPT ![r].cbyte = Decoded(r), ![r].bytes = D - t[r].offset]
      /\ Goto(r, IF TooBig(r, Decoded(r)) THEN "release" ELSE "getblk")
  BY DEF Sized, Is, bufs
<1>2. pc[r] \in Header /\ Measuring(pc[r], t[r])
  BY <1>1, ReaderType DEF Header, Proper
<1>3. /\ x \in Meta /\ x \in Block /\ t[r].out = <<>> /\ t[r].temp = LengthAt(x)
      /\ D \in Nat \ {0, 1} /\ t[r].cur * D + o = Start(x)
      /\ t[r].bh = <<t[r].cur>> /\ t[r].k = 1
  BY <1>1, <1>2, HeaderFacts DEF Measuring, HeadAt
<1>4. t[r].cur \in Device /\ Decoded(r) = Size[x] /\ o \in 0 .. D /\ Size[x] \in Nat \ {0} /\ t[r].cur \in Nat
  BY <1>1, <1>3, HeaderOnDevice, ReaderType, Constants DEF Decoded
<1>5. t' = [t EXCEPT ![r] = l] /\ pc' = [pc EXCEPT ![r] = s]
  BY <1>1, <1>4 DEF Goto
<1>6. Len(<<t[r].cur>>) = 1 /\ <<t[r].cur>>[1] = t[r].cur
  BY <1>4, SingleFacts
<1>7. D - o \in Int
  BY <1>3, <1>4
<1>8. s \in {"release", "getblk"} /\ (s = "getblk" <=> Fits(x))
  BY <1>4, Constants, <1>3 DEF TooBig, Fits
<1>9. l \in Locals /\ l.bh = <<t[r].cur>> /\ l.k = 1 /\ l.blk = x /\ l.cur = t[r].cur
        /\ l.offset = o /\ l.out = <<>> /\ l.cbyte = Size[x] /\ l.bytes = D - o
  <2>1. t[r] \in Locals /\ Size[x] \in Nat
    BY ReaderType, <1>4
  <2> HIDE DEF o, x
  <2> QED
    BY <1>3, <1>7, <2>1 DEF Locals, o, x
<1> HIDE DEF l, s
<1>10. Moves(r, s, l)
  <2>1. s \in States
    BY <1>8 DEF States
  <2>2. l.k <= Len(l.bh) + 1 /\ InRoom(l)
    BY <1>6, <1>9, OneFits
  <2> QED
    BY <1>1, <1>5, <1>9, <2>1, <2>2, ReaderType DEF Moves
<1>11. Locking(r, s)
  BY <1>1, <1>8, LockingSame DEF Inside
<1>12. Answering(r, s, l)
  <2>1. \A i \in HasRead(s, l) : i \in HasRead(pc[r], t[r]) /\ l.bh[i] = t[r].bh[i]
    BY <1>1, <1>3, <1>8, <1>9 DEF HasRead, Got
  <2> QED
    BY <1>1, <2>1, AnsweringSame
<1>13. Counting(r, s, l)
  <2>1. \A e : Mine(s, l, e) = Mine(pc[r], t[r], e)
    BY <1>1, <1>3, <1>8, <1>9 DEF Mine
  <2> QED
    BY <1>1, <2>1, CountingSame
<1>14. Proper(s, l, fed')
  <2>1. Refusal(s, l)
    <3>1. Fits(x) \/ ~Sound(x)
      BY <1>3, <1>4, Constants, StartFacts DEF Fits, Sound
    <3> QED
      BY <1>8, <1>9, <3>1 DEF Refusal
  <2>2. Getting(s, l)
    <3>1. CASE s = "getblk"
      <4>1. Fits(x)
        BY <1>8, <3>1
      <4>2. Covered(1, o) = D - o
        BY <1>3, <1>4 DEF Covered
      <4>3. First(l) = t[r].cur
        BY <1>3, <1>4, <1>6, <1>9 DEF First
      <4>4. Lie(l, t[r].cur, o)
        BY <1>3, <1>4, <1>6, <1>9 DEF Lie
      <4> QED
        BY <1>3, <1>6, <1>9, <4>1, <4>2, <4>3, <4>4 DEF Getting
    <3> QED
      BY <3>1 DEF Getting
  <2> QED
    BY <1>8, <2>1, <2>2 DEF Proper, Measuring, Header, Reading, Got, Ended, Idle
<1> QED
  BY <1>10, <1>11, <1>12, <1>13, <1>14, StepKeeps DEF MovesWell

-------------------------------------------------------------------------------
(* Getting the buffers                                                     *)

LEMMA CoveredFacts ==
  ASSUME NEW n \in Int, NEW o \in Int
  PROVE  /\ Covered(n, o) \in Int /\ Covered(n + 1, o) = Covered(n, o) + D
         /\ \A b \in Int : (b + n) * D = (b * D + o) + Covered(n, o)
<1>1. D \in Int
  BY Constants
<1>2. n * D \in Int /\ (n + 1) * D = n * D + D
  BY <1>1, MulSucc
<1>3. ASSUME NEW b \in Int PROVE (b + n) * D = (b * D + o) + Covered(n, o)
  <2>1. (b + n) * D = b * D + n * D /\ b * D \in Int
    BY <1>1, MulSum
  <2> QED
    BY <1>2, <2>1 DEF Covered
<1> QED
  BY <1>1, <1>2, <1>3 DEF Covered

\* One more buffer while bytes are wanted: it lies on the device, and there is room for it.
LEMMA MoreFits ==
  ASSUME NEW x \in Block, Fits(x), NEW b \in Int, NEW n \in Nat, NEW o \in 0 .. D, b + n \in Nat,
         b * D + o = Start(x), Covered(n, o) < Size[x]
  PROVE  /\ b + n \in Device /\ n + 1 <= BytesUsed + 1
         /\ n + 1 > (BlockSize \div D) + 1 => Size[x] > BlockSize
<1>1. /\ Start(x) \in Nat /\ Start(x) <= At[x] + 3 /\ At[x] + Size[x] <= BytesUsed
      /\ At[x] \in Nat /\ Size[x] \in Nat /\ Size[x] <= Src[x] /\ Src[x] \in Nat
      /\ BytesUsed \in Nat /\ BlockSize \in Nat /\ o \in Int /\ D \in Nat
  BY StartFacts, Constants DEF Fits
<1>2. (b + n) * D = Start(x) + Covered(n, o) /\ Covered(n, o) \in Int
  <2>1. n \in Int /\ o \in Int
    BY <1>1
  <2>2. Covered(n, o) \in Int /\ \A c \in Int : (c + n) * D = (c * D + o) + Covered(n, o)
    BY <2>1, CoveredFacts, Zenon
  <2> QED
    BY <2>2, Zenon
<1>3. (b + n) * D <= BytesUsed + 2
  <2> DEFINE e == (b + n) * D
  <2>1. e = Start(x) + Covered(n, o)
    BY <1>2
  <2> HIDE DEF e
  <2>2. e <= BytesUsed + 2
    BY <1>1, <1>2, <2>1
  <2> QED
    BY <2>2 DEF e
<1>4. b + n \in Device
  BY <1>3, OnDevice
<1>5. n * D - o < Size[x]
  BY DEF Covered
<1>6. n + 1 <= BytesUsed + 1
  <2>1. n <= Size[x]
    BY <1>1, <1>5, OneByteEach
  <2> QED
    BY <1>1, <2>1
<1>7. ASSUME Size[x] <= BlockSize PROVE n + 1 <= (BlockSize \div D) + 1
  <2>1. Size[x] \in 0 .. BlockSize
    BY <1>1, <1>7
  <2> QED
    BY <1>5, <2>1, RoomForMore
<1>8. n + 1 > (BlockSize \div D) + 1 => Size[x] > BlockSize
  <2>1. BlockSize \div D \in Nat
    BY RoomFacts
  <2> QED
    BY <1>1, <1>7, <2>1
<1> QED
  BY <1>4, <1>6, <1>8

LEMMA GetblkKeeps ==
  ASSUME IInv, NEW r \in Reader, Getblk(r)
  PROVE  IInv'
<1> DEFINE x == t[r].blk
           o == t[r].offset
           n == Len(t[r].bh)
           b == First(t[r])
           d == t[r].cur + (IF IsMeta(r) THEN 1 ELSE 0)
           l == [t[r] EXCEPT !.bh = Append(@, d), !.bytes = @ + D, !.cur = @ + 1]
<1>1. pc[r] = "getblk" /\ t[r].bytes < t[r].cbyte /\ UNCHANGED <<state, mutex, fed, reads>>
      /\ \/ /\ Get(d) /\ UNCHANGED pc
            /\ t' = [t EXCEPT ![r].bh = Append(@, d), ![r].bytes = @ + D, ![r].cur = @ + 1]
         \/ d \in Flaky /\ Fail(r, TRUE, "release") /\ UNCHANGED refs
  BY DEF Getblk, Is, Wanted
<1>2. /\ x \in Block /\ Fits(x) /\ t[r].cbyte = Size[x] /\ t[r].k = 1 /\ t[r].out = <<>>
      /\ t[r].bytes = Covered(n, o) /\ Lie(t[r], b, o) /\ (x \in Meta => n > 0)
  BY <1>1, ReaderType DEF Proper, Getting
<1>3. /\ n \in Nat /\ o \in 0 .. D /\ t[r].cur \in Nat /\ t[r].bh \in Seq(Device) /\ t[r] \in Locals
      /\ t[r].bytes \in Int /\ D \in Nat \ {0, 1} /\ InRoom(t[r])
  BY ReaderType, Constants
<1>4. b \in Int /\ d = b + n /\ d \in Nat
  <2> DEFINE m == IF x \in Meta THEN 1 ELSE 0
             c == t[r].cur
  <2>1. b = (c - n) + m /\ d = c + m
    BY DEF First, IsMeta
  <2>2. m \in Nat /\ c \in Nat /\ n \in Int
    BY <1>3
  <2> HIDE DEF b, d, n, m, c
  <2> QED
    BY <2>1, <2>2
<1>5. /\ d \in Device /\ n + 1 <= BytesUsed + 1
      /\ n + 1 > (BlockSize \div D) + 1 => Size[x] > BlockSize
  <2>1. b * D + o = Start(x) /\ Covered(n, o) < Size[x]
    BY <1>1, <1>2 DEF Lie
  <2> HIDE DEF b, n, o, x, d
  <2> QED
    BY <1>2, <1>3, <1>4, <2>1, MoreFits
<1>6. ASSUME Get(d), UNCHANGED pc,
             t' = [t EXCEPT ![r].bh = Append(@, d), ![r].bytes = @ + D, ![r].cur = @ + 1]
      PROVE  IInv'
  <2>1. t' = [t EXCEPT ![r] = l] /\ pc' = [pc EXCEPT ![r] = "getblk"]
    BY <1>1, <1>6 DEF IInv, TypeOK
  <2>2. /\ Append(t[r].bh, d) \in Seq(Device) /\ Len(Append(t[r].bh, d)) = n + 1
        /\ \A i \in 1 .. n : Append(t[r].bh, d)[i] = t[r].bh[i]
        /\ Append(t[r].bh, d)[n + 1] = d
    <3> HIDE DEF d
    <3> QED
      BY <1>3, <1>5, AppendFacts
  <2>3. t[r].bytes + D \in Int /\ t[r].cur + 1 \in Nat
    BY <1>3
  <2>4. /\ l \in Locals /\ l.bh = Append(t[r].bh, d) /\ l.k = 1 /\ l.blk = x /\ l.cur = t[r].cur + 1
        /\ l.offset = o /\ l.out = <<>> /\ l.cbyte = Size[x] /\ l.bytes = t[r].bytes + D
    <3> HIDE DEF d, o, x
    <3> QED
      BY <1>2, <1>3, <2>2, <2>3 DEF Locals, o, x
  <2> HIDE DEF l
  <2>5. Len(l.bh) = n + 1 /\ l.bh[n + 1] = d /\ \A i \in 1 .. n : l.bh[i] = t[r].bh[i]
    BY <2>2, <2>4
  <2>6. Moves(r, "getblk", l)
    <3>1. InRoom(l)
      BY <1>2, <1>5, <2>4, <2>5 DEF InRoom
    <3> QED
      BY <1>1, <1>3, <2>1, <2>4, <2>5, <3>1, ReaderType DEF Moves, States
  <2>7. Locking(r, "getblk")
    BY <1>1, LockingSame DEF Inside
  <2>8. Answering(r, "getblk", l)
    <3>1. \A i \in HasRead("getblk", l) : i \in HasRead(pc[r], t[r]) /\ l.bh[i] = t[r].bh[i]
      BY <1>1, <1>2, <1>3, <2>4, <2>5 DEF HasRead, Got
    <3> QED
      BY <1>1, <3>1, AnsweringSame
  <2>9. Counting(r, "getblk", l)
    <3>1. n + 1 \in 1 .. BytesUsed + 1
      BY <1>3, <1>5, RoomFacts, Constants
    <3>2. \A i \in 1 .. n + 1 : l.bh[i] = (IF i = n + 1 THEN d ELSE t[r].bh[i])
      <4>1. \A i \in 1 .. n + 1 : i = n + 1 \/ i \in 1 .. n
        BY <1>3
      <4>2. l.bh[n + 1] = d /\ \A i \in 1 .. n : i # n + 1 /\ l.bh[i] = t[r].bh[i]
        BY <1>3, <2>5
      <4> HIDE DEF n, d
      <4> QED
        BY <4>1, <4>2
    <3>3. \A e : Mine("getblk", l, e) = {i \in 1 .. n + 1 : i \in 1 .. BytesUsed + 1 /\ l.bh[i] = e}
      BY <1>3, <2>4, <2>5 DEF Mine
    <3>4. \A e : Mine(pc[r], t[r], e) = {i \in 1 .. n : i \in 1 .. BytesUsed + 1 /\ t[r].bh[i] = e}
      BY <1>1, <1>2, <1>3 DEF Mine
    <3>5. n + 1 \notin Mine(pc[r], t[r], d)
      BY <1>3, <3>4
    <3>6. \A i : i \in 1 .. n + 1 <=> (i \in 1 .. n \/ i = n + 1)
      BY <1>3
    <3> DEFINE m == n + 1
    <3>7. \A i \in 1 .. n : i # m
      BY <1>3
    <3> HIDE DEF n, d, m
    <3>8. Mine("getblk", l, d) = Mine(pc[r], t[r], d) \cup {m}
      <4>1. Mine("getblk", l, d) = {i \in 1 .. m : i \in 1 .. BytesUsed + 1 /\ l.bh[i] = d}
        BY <3>3 DEF m
      <4>2. Mine(pc[r], t[r], d) = {i \in 1 .. n : i \in 1 .. BytesUsed + 1 /\ t[r].bh[i] = d}
        BY <3>4
      <4>3. m \in 1 .. BytesUsed + 1 /\ (\A i : i \in 1 .. m <=> (i \in 1 .. n \/ i = m))
            /\ \A i \in 1 .. m : l.bh[i] = (IF i = m THEN d ELSE t[r].bh[i])
        BY <3>1, <3>2, <3>6 DEF m
      <4> QED
        BY <3>7, <4>1, <4>2, <4>3, Zenon
    <3>9. ASSUME NEW e, e # d PROVE Mine("getblk", l, e) = Mine(pc[r], t[r], e)
      <4>1. Mine("getblk", l, e) = {i \in 1 .. m : i \in 1 .. BytesUsed + 1 /\ l.bh[i] = e}
        BY <3>3 DEF m
      <4>2. Mine(pc[r], t[r], e) = {i \in 1 .. n : i \in 1 .. BytesUsed + 1 /\ t[r].bh[i] = e}
        BY <3>4
      <4>3. (\A i : i \in 1 .. m <=> (i \in 1 .. n \/ i = m))
            /\ \A i \in 1 .. m : l.bh[i] = (IF i = m THEN d ELSE t[r].bh[i])
        BY <3>2, <3>6 DEF m
      <4> QED
        BY <3>7, <3>9, <4>1, <4>2, <4>3
    <3> QED
      BY <1>5, <1>6, <3>5, <3>8, <3>9, CountingGot DEF m
  <2>10. Proper("getblk", l, fed')
    <3>1. First(l) = b
      <4> DEFINE m == IF x \in Meta THEN 1 ELSE 0
                 c == t[r].cur
      <4>1. b = (c - n) + m
        BY DEF First
      <4>2. First(l) = ((c + 1) - (n + 1)) + m
        BY <2>4, <2>5 DEF First
      <4>3. m \in Int /\ c \in Int /\ n \in Int
        BY <1>3
      <4> HIDE DEF b, n, m, c, x
      <4> QED
        BY <4>1, <4>2, <4>3
    <3>2. Covered(n + 1, o) = Covered(n, o) + D
      <4>1. n \in Int /\ o \in Int
        BY <1>3
      <4> HIDE DEF n, o
      <4> QED
        BY <4>1, CoveredFacts
    <3>3. Lie(l, b, o)
      <4>1. b * D + o = Start(l.blk)
        BY <1>2, <2>4 DEF Lie
      <4>2. ASSUME NEW i \in 1 .. n + 1
            PROVE  l.bh[i] = b + i - 1 /\ (i # 1 => Covered(i - 1, o) < l.cbyte)
        <5>1. CASE i \in 1 .. n
          BY <1>2, <2>4, <2>5, <5>1 DEF Lie
        <5>2. CASE i = n + 1
          <6>1. l.bh[i] = b + i - 1
            BY <1>3, <1>4, <2>5, <5>2
          <6>2. i - 1 = n
            BY <1>3, <5>2
          <6> QED
            BY <1>1, <1>2, <2>4, <6>1, <6>2
        <5> QED
          BY <1>3, <5>1, <5>2
      <4> QED
        BY <2>5, <4>1, <4>2 DEF Lie
    <3>4. l.bytes = Covered(n + 1, o)
      BY <1>2, <2>4, <3>2
    <3>5. n + 1 > 0
      BY <1>3
    <3>6. Getting("getblk", l)
      <4> HIDE DEF b, n, o, x, d
      <4> QED
        BY <1>2, <2>4, <2>5, <3>1, <3>3, <3>4, <3>5 DEF Getting
    <3> QED
      BY <3>6 DEF Proper, Measuring, Header, Reading, Got, Ended, Idle, Refusal
  <2> QED
    BY <2>6, <2>7, <2>8, <2>9, <2>10, StepKeeps DEF MovesWell
<1>7. ASSUME d \in Flaky, Fail(r, TRUE, "release"), UNCHANGED refs PROVE IInv'
  <2>1. PICK k : /\ Moves(r, "release", k) /\ Proper("release", k, fed')
                 /\ k.bh = t[r].bh /\ k.k = t[r].k /\ HasRead("release", k) = {}
    BY <1>1, <1>7, FailMoves
  <2>2. Locking(r, "release")
    BY <1>1, LockingSame DEF Inside
  <2>3. Answering(r, "release", k)
    BY <1>1, <2>1, AnsweringSame
  <2>4. Counting(r, "release", k)
    <3>1. \A e : Mine("release", k, e) = Mine(pc[r], t[r], e)
      BY <1>1, <2>1 DEF Mine
    <3> QED
      BY <1>7, <3>1, CountingSame
  <2> QED
    BY <2>1, <2>2, <2>3, <2>4, StepKeeps DEF MovesWell
<1> QED
  BY <1>1, <1>6, <1>7

LEMMA SubmitKeeps ==
  ASSUME IInv, NEW r \in Reader, Submit(r)
  PROVE  IInv'
<1> DEFINE x == t[r].blk
           o == t[r].offset
           n == Len(t[r].bh)
           b == First(t[r])
           from == IF IsMeta(r) THEN 2 ELSE 1
           mine == {t[r].bh[i] : i \in from .. n}
           l == [t[r] EXCEPT !.bytes = 0]
           s == IF x \in Packed THEN "lock" ELSE "wait"
<1>1. /\ pc[r] = "getblk" /\ ~(t[r].bytes < t[r].cbyte) /\ UNCHANGED <<refs, mutex, fed, reads>>
      /\ state' = [d \in Device |-> IF d \in mine /\ state[d] # "uptodate" THEN "io" ELSE state[d]]
      /\ pc' = [pc EXCEPT ![r] = s] /\ t' = [t EXCEPT ![r] = l]
  BY DEF Submit, Is, Wanted, Goto
<1>2. /\ x \in Block /\ Fits(x) /\ t[r].cbyte = Size[x] /\ t[r].k = 1 /\ t[r].out = <<>>
      /\ t[r].bytes = Covered(n, o) /\ Lie(t[r], b, o) /\ (x \in Meta => n > 0)
  BY <1>1, ReaderType DEF Proper, Getting
<1>3. /\ n \in Nat /\ o \in 0 .. D /\ t[r].cur \in Nat /\ t[r].bh \in Seq(Device) /\ t[r] \in Locals
      /\ t[r].bytes \in Int /\ D \in Nat \ {0, 1} /\ Size[x] \in Nat \ {0}
  BY <1>2, ReaderType, Constants
<1>4. Size[x] <= Covered(n, o)
  BY <1>1, <1>2, <1>3
<1>5. n > 0
  <2>1. n = 0 => Covered(n, o) = -o
    BY <1>3 DEF Covered
  <2> HIDE DEF n, o, x
  <2> QED
    BY <1>3, <1>4, <2>1
<1>6. t[r].bh[1] = b
  <2>1. b \in Int /\ 1 \in 1 .. n
    BY <1>3, <1>5 DEF First
  <2>2. t[r].bh[1] = b + 1 - 1
    BY <1>2, <2>1 DEF Lie
  <2> HIDE DEF b
  <2> QED
    BY <2>1, <2>2
<1>7. Edge(t[r]) = o
  <2>1. b * D + o = Start(x)
    BY <1>2 DEF Lie
  <2>2. b \in Int /\ b * D \in Int
    BY <1>3 DEF First
  <2> HIDE DEF b
  <2> QED
    BY <1>3, <1>6, <2>1, <2>2 DEF Edge
<1>8. /\ l \in Locals /\ l.bh = t[r].bh /\ l.k = 1 /\ l.blk = x /\ l.offset = o /\ l.out = <<>>
      /\ l.cbyte = Size[x] /\ l.bytes = 0
  <2>1. 0 \in Int
    OBVIOUS
  <2> HIDE DEF o, x
  <2> QED
    BY <1>2, <1>3, <2>1 DEF Locals, o, x
<1>9. s \in {"lock", "wait"}
  OBVIOUS
<1> HIDE DEF l, s
<1>10. Moves(r, s, l)
  BY <1>1, <1>8, <1>9, ReaderType DEF Moves, InRoom, States
<1>11. Locking(r, s)
  BY <1>1, <1>9, LockingSame DEF Inside
<1>12. Answering(r, s, l)
  <2>1. state \in [Device -> Statuses] /\ \A d \in Device : state[d] = "failed" => d \in Flaky
    BY DEF IInv, TypeOK, Statuses, Answered
  <2>2. state' \in [Device -> Statuses]
    BY <1>1, <2>1 DEF Statuses
  <2>3. \A d \in Device : state'[d] = (IF d \in mine /\ state[d] # "uptodate" THEN "io" ELSE state[d])
    BY <1>1
  <2>4. ASSUME NEW i \in HasRead(s, l) PROVE state'[l.bh[i]] # "clean"
    <3>1. i \in 1 .. n
      BY <1>8 DEF HasRead
    <3>2. t[r].bh[i] \in Device
      BY <1>3, <3>1
    <3>3. CASE i \in from .. n
      <4>1. t[r].bh[i] \in mine
        BY <3>3
      <4> HIDE DEF mine
      <4> QED
        BY <1>8, <2>3, <3>2, <4>1
    <3>4. CASE i \notin from .. n
      <4>1. i = 1 /\ x \in Meta
        BY <1>3, <3>1, <3>4 DEF IsMeta
      <4>2. 1 \in HasRead(pc[r], t[r])
        BY <1>1, <1>2, <1>3, <1>5, <4>1 DEF HasRead
      <4>3. state[t[r].bh[i]] # "clean"
        BY <4>1, <4>2 DEF IInv, Answered
      <4> HIDE DEF mine
      <4> QED
        BY <1>8, <2>3, <3>2, <4>3
    <3> QED
      BY <3>3, <3>4
  <2> HIDE DEF mine
  <2> QED
    BY <2>1, <2>2, <2>3, <2>4 DEF Answering
<1>13. Counting(r, s, l)
  <2>1. \A e : Mine(s, l, e) = Mine(pc[r], t[r], e)
    BY <1>1, <1>2, <1>8, <1>9 DEF Mine
  <2> QED
    BY <1>1, <2>1, CountingSame
<1>14. Proper(s, l, fed')
  <2>1. Edge(l) = o
    BY <1>7, <1>8 DEF Edge
  <2>2. Lie(l, l.bh[1], o)
    BY <1>2, <1>6, <1>8 DEF Lie
  <2>3. Gone(l) = 0
    BY <1>8 DEF Gone
  <2>4. Reading(s, l, fed')
    BY <1>2, <1>3, <1>4, <1>5, <1>8, <1>9, <2>1, <2>2, <2>3 DEF Reading
  <2> QED
    BY <1>9, <2>4 DEF Proper, Measuring, Header, Getting, Ended, Idle, Refusal
<1> QED
  BY <1>10, <1>11, <1>12, <1>13, <1>14, StepKeeps DEF MovesWell

-------------------------------------------------------------------------------
(* Unpacking and copying                                                   *)

\* A reader that has its buffers.
LEMMA ReadingFacts ==
  ASSUME IInv, NEW r \in Reader, pc[r] \in Got
  PROVE  /\ t[r].blk \in Block /\ t[r].cbyte = Size[t[r].blk] /\ Len(t[r].bh) > 0
         /\ Lie(t[r], t[r].bh[1], Edge(t[r])) /\ Edge(t[r]) \in 0 .. D
         /\ t[r].cbyte <= Covered(Len(t[r].bh), Edge(t[r]))
         /\ t[r].offset = (IF t[r].k = 1 THEN Edge(t[r]) ELSE 0)
         /\ t[r].bytes = Gone(t[r])
BY ReaderType DEF Proper, Reading

\* What the buffer at hand holds of the block: the next bytes, all of them if there is a
\* buffer behind it, and some if it is not the first.
LEMMA AvailFacts ==
  ASSUME IInv, NEW r \in Reader, pc[r] \in Got, Left(r)
  PROVE  /\ Avail(r) \in Nat /\ t[r].bytes \in Nat
         /\ Buffer(r) * D + t[r].offset = Start(t[r].blk) + t[r].bytes
         /\ t[r].bytes + Avail(r) = (IF t[r].k + 1 <= Len(t[r].bh) THEN Covered(t[r].k, Edge(t[r]))
                                     ELSE Size[t[r].blk])
         /\ t[r].k # 1 => Avail(r) > 0
<1> DEFINE x == t[r].blk
           o == Edge(t[r])
           n == Len(t[r].bh)
           k == t[r].k
           b == t[r].bh[1]
           y == t[r].bytes
           f == t[r].offset
           c == Size[x]
           g == Covered(k - 1, o)
           h == Covered(k, o)
<1>1. /\ x \in Block /\ t[r].cbyte = c /\ n > 0 /\ Lie(t[r], b, o) /\ o \in 0 .. D
      /\ c <= Covered(n, o) /\ f = (IF k = 1 THEN o ELSE 0) /\ y = Gone(t[r])
  BY ReadingFacts
<1>2. n \in Nat /\ k \in Nat \ {0} /\ k <= n /\ t[r].bh \in Seq(Device) /\ D \in Nat \ {0, 1}
  BY ReaderType, Constants DEF Left
<1>3. x \in Block /\ c \in Nat \ {0} /\ Start(x) \in Nat
  BY <1>1, Constants, StartFacts
<1>4. b \in Nat
  <2>1. 1 \in 1 .. n
    BY <1>2
  <2>2. b \in Device
    BY <1>2, <2>1
  <2> QED
    BY <2>2 DEF Device
<1>5. y = (IF k = 1 THEN 0 ELSE g)
  BY <1>1, <1>2 DEF Gone
<1>6. b * D + o = Start(x) /\ \A i \in 1 .. n : t[r].bh[i] = b + i - 1 /\ (i # 1 => Covered(i - 1, o) < c)
  BY <1>1 DEF Lie
<1>7. Buffer(r) = b + (k - 1) /\ (k # 1 => g < c)
  <2>1. k \in 1 .. n
    BY <1>2
  <2>2. t[r].bh[k] = b + k - 1 /\ (k # 1 => g < c)
    BY <1>6, <2>1
  <2> HIDE DEF b, k, g
  <2> QED
    BY <1>2, <1>4, <2>2 DEF Buffer, k
<1>8. k < n => h < c
  <2> SUFFICES ASSUME k < n PROVE h < c
    OBVIOUS
  <2>1. k + 1 \in 1 .. n /\ k + 1 # 1 /\ (k + 1) - 1 = k
    BY <1>2
  <2>2. Covered((k + 1) - 1, o) < c
    BY <1>6, <2>1
  <2> QED
    BY <2>1, <2>2
<1>9. k = n => c <= h
  BY <1>1
<1>10. g \in Int /\ h = g + D /\ (b + (k - 1)) * D = (b * D + o) + g
  <2>1. k - 1 \in Int /\ o \in Int /\ b \in Int /\ (k - 1) + 1 = k
    BY <1>1, <1>2, <1>4
  <2>2. /\ Covered(k - 1, o) \in Int /\ Covered((k - 1) + 1, o) = Covered(k - 1, o) + D
        /\ \A e \in Int : (e + (k - 1)) * D = (e * D + o) + Covered(k - 1, o)
    BY <2>1, CoveredFacts, Zenon
  <2>3. h = g + D
    BY <2>1, <2>2
  <2>4. (b + (k - 1)) * D = (b * D + o) + g
    BY <2>1, <2>2
  <2> QED
    BY <2>2, <2>3, <2>4
<1>11. (k = 1 => g = -o) /\ (k # 1 => g >= 0)
  <2>1. (k - 1) * D = D + (k - 2) * D
    <3>1. k - 2 \in Int /\ D \in Int /\ (k - 2) + 1 = k - 1
      BY <1>2
    <3>2. ((k - 2) + 1) * D = (k - 2) * D + D /\ (k - 2) * D \in Int
      BY <3>1, MulSucc
    <3> QED
      BY <1>2, <3>1, <3>2
  <2>2. k # 1 => (k - 2) * D \in Nat
    <3>1. k # 1 => k - 2 \in Nat
      BY <1>2
    <3> QED
      BY <1>2, <3>1
  <2>3. k = 1 => (k - 1) * D = 0
    BY <1>2
  <2>4. g = (k - 1) * D - o
    BY DEF Covered
  <2> DEFINE u == (k - 1) * D
             v == (k - 2) * D
  <2>5. (k = 1 => u = 0) /\ (k # 1 => v \in Nat) /\ u = D + v /\ g = u - o
    BY <2>1, <2>2, <2>3, <2>4
  <2> HIDE DEF u, v, k, g, o
  <2> QED
    BY <1>1, <1>2, <2>5
<1>12. Avail(r) = IF c - y <= D - f THEN c - y ELSE D - f
  <2>1. c - y \in Int /\ D - f \in Int
    <3> HIDE DEF c, y, f, k, o, g
    <3> QED
      BY <1>1, <1>2, <1>3, <1>5, <1>10
  <2>2. Avail(r) = Min({c - y, D - f})
    BY <1>1 DEF Avail
  <2> HIDE DEF c, y, f
  <2> QED
    BY <2>1, <2>2, MinOfTwo
<1>13. /\ Avail(r) \in Nat /\ y \in Nat
       /\ y + Avail(r) = (IF k + 1 <= n THEN h ELSE c)
       /\ k # 1 => Avail(r) > 0
  <2> HIDE DEF x, o, n, k, b, y, f, c, g, h
  <2> QED
    BY <1>1, <1>2, <1>3, <1>5, <1>7, <1>8, <1>9, <1>10, <1>11, <1>12
<1>14. Buffer(r) * D + f = Start(x) + y
  <2> DEFINE e == Buffer(r) * D
             s == Start(x)
             z == b * D
  <2>1. e = (z + o) + g /\ z + o = s /\ s \in Nat /\ z \in Int
    BY <1>3, <1>4, <1>2, <1>6, <1>7, <1>10
  <2> HIDE DEF x, o, n, k, b, y, f, c, g, h, e, s, z
  <2>2. e + f = s + y
    BY <1>1, <1>5, <1>10, <1>11, <2>1
  <2> QED
    BY <2>2 DEF e, s
<1> QED
  BY <1>13, <1>14

LEMMA BytesAreNext ==
  ASSUME IInv, NEW r \in Reader, pc[r] \in Got, Left(r)
  PROVE  /\ Bytes(r) = [i \in 1 .. Avail(r) |-> (Start(t[r].blk) + t[r].bytes) + i - 1]
         /\ Bytes(r) \in Seq(Nat)
         /\ Prefix(t[r].blk, t[r].bytes) \o Bytes(r) = Prefix(t[r].blk, t[r].bytes + Avail(r))
         /\ t[r].bytes = 0 => Bytes(r) = Prefix(t[r].blk, t[r].bytes + Avail(r))
<1> DEFINE a == Avail(r)
           e == Buffer(r) * D
           f == t[r].offset
           s == Start(t[r].blk)
           y == t[r].bytes
<1>1. a \in Nat /\ y \in Nat /\ e + f = s + y
  BY AvailFacts
<1>2. s \in Nat
  BY ReadingFacts, StartFacts
<1>3. Bytes(r) = [i \in 1 .. a |-> e + f + i - 1]
  BY DEF Bytes
<1>4. e \in Int /\ f \in Int
  <2>1. Buffer(r) \in Int /\ D \in Int /\ f \in Int
    <3>1. t[r].k \in 1 .. Len(t[r].bh) /\ t[r].bh \in Seq(Device) /\ t[r].offset \in 0 .. D
      BY ReaderType DEF Left
    <3>2. t[r].bh[t[r].k] \in Device
      BY <3>1
    <3> QED
      BY <3>1, <3>2, Constants DEF Buffer, Device
  <2> QED
    BY <2>1
<1>5. Bytes(r) = [i \in 1 .. a |-> (s + y) + i - 1]
  <2> HIDE DEF a, e, f, s, y
  <2>1. \A i \in 1 .. a : e + f + i - 1 = (s + y) + i - 1
    BY <1>1, <1>2, <1>4
  <2> QED
    BY <1>3, <2>1
<1> HIDE DEF a, s, y
<1>6. s + y \in Nat
  BY <1>1, <1>2
<1>7. Bytes(r) \in Seq(Nat)
  BY <1>1, <1>5, <1>6, RunFacts
<1>8. [i \in 1 .. y |-> s + i - 1] \o [i \in 1 .. a |-> (s + y) + i - 1] = [i \in 1 .. y + a |-> s + i - 1]
  BY <1>1, <1>2, RunsMeet
<1>9. y = 0 => y + a = a /\ s + y = s
  BY <1>1, <1>2
<1>10. y = 0 => Bytes(r) = [i \in 1 .. y + a |-> s + i - 1]
  BY <1>5, <1>9
<1> QED
  BY <1>5, <1>7, <1>8, <1>10 DEF Prefix, s, y, a

\* On to the next buffer, with f as what zlib has got then and u as what is copied.
LEMMA AdvanceKeeps ==
  ASSUME IInv, NEW r \in Reader, pc[r] \in {"inflate", "copy"}, Left(r),
         NEW u \in Seq(Nat), t' = [t EXCEPT ![r] = [Advanced(r, t[r]) EXCEPT !.out = u]],
         Brelse(Buffer(r)), UNCHANGED <<state, mutex, pc, reads>>,
         fed' \in Seq(Nat), pc[r] = "copy" => UNCHANGED fed,
         pc[r] = "inflate" => fed' = Prefix(t[r].blk, t[r].bytes + Avail(r)),
         pc[r] = "copy" => u = Prefix(t[r].blk, t[r].bytes + Avail(r))
  PROVE  IInv'
<1> DEFINE x == t[r].blk
           n == Len(t[r].bh)
           k == t[r].k
           y == t[r].bytes + Avail(r)
           l == [Advanced(r, t[r]) EXCEPT !.out = u]
           s == pc[r]
           d == t[r].bh[k]
<1>1. /\ t[r] \in Locals /\ t[r].bh \in Seq(Device) /\ n \in Nat /\ k \in Nat \ {0} /\ k <= n
      /\ InRoom(t[r]) /\ 0 \in 0 .. D
  BY ReaderType, Constants DEF Left
<1>2. s \in Got
  BY DEF Got
<1>3. /\ Avail(r) \in Nat /\ y \in Nat
      /\ y = (IF k + 1 <= n THEN Covered(k, Edge(t[r])) ELSE Size[x])
  BY <1>2, AvailFacts
<1>4. /\ l \in Locals /\ l.bh = t[r].bh /\ l.k = k + 1 /\ l.blk = x /\ l.offset = 0 /\ l.out = u
      /\ l.cbyte = t[r].cbyte /\ l.bytes = y
  <2>1. k + 1 \in Nat \ {0} /\ y \in Int
    BY <1>1, <1>3
  <2>2. l = [t[r] EXCEPT !.k = k + 1, !.bytes = y, !.offset = 0, !.out = u]
    BY DEF Advanced
  <2> HIDE DEF l, y
  <2> QED
    BY <1>1, <2>1, <2>2 DEF Locals
<1>5. t' = [t EXCEPT ![r] = l] /\ pc' = [pc EXCEPT ![r] = s]
  BY DEF IInv, TypeOK
<1> HIDE DEF l
<1>6. Moves(r, s, l)
  <2>1. l.k <= Len(l.bh) + 1 /\ InRoom(l)
    BY <1>1, <1>4 DEF InRoom
  <2>2. s \in States /\ reads' \in 0 .. MaxReads
    BY ReaderType
  <2> QED
    BY <1>4, <1>5, <2>1, <2>2 DEF Moves
<1>7. Locking(r, s)
  BY <1>2 DEF Locking, Inside, IInv, Mutexed, TypeOK
<1>8. Answering(r, s, l)
  <2>1. \A i \in HasRead(s, l) : i \in HasRead(pc[r], t[r]) /\ l.bh[i] = t[r].bh[i]
    BY <1>1, <1>2, <1>4 DEF HasRead
  <2> QED
    BY <2>1, AnsweringSame
<1>9. Counting(r, s, l)
  <2>1. k \in k .. n /\ s # "error"
    BY <1>1
  <2>2. d \in Device /\ k \in 1 .. BytesUsed + 1
    BY <2>1, HeldFacts
  <2>3. k \in Mine(pc[r], t[r], d)
    BY <2>1, <2>2 DEF Mine
  <2>4. \A i \in Int : i \in k + 1 .. n <=> (i \in k .. n /\ i # k)
    BY <1>1
  <2>5. \A e : Mine(s, l, e) = {i \in 1 .. BytesUsed + 1 : i \in k + 1 .. n /\ t[r].bh[i] = e}
    BY <1>4, <2>1 DEF Mine
  <2>6. \A e : Mine(pc[r], t[r], e) = {i \in 1 .. BytesUsed + 1 : i \in k .. n /\ t[r].bh[i] = e}
    BY <2>1 DEF Mine
  <2>7. Mine(s, l, d) = Mine(pc[r], t[r], d) \ {k}
    <3>1. Mine(s, l, d) = {i \in 1 .. BytesUsed + 1 : i \in k + 1 .. n /\ t[r].bh[i] = d}
      BY <2>5
    <3>2. Mine(pc[r], t[r], d) = {i \in 1 .. BytesUsed + 1 : i \in k .. n /\ t[r].bh[i] = d}
      BY <2>6
    <3>3. \A i \in 1 .. BytesUsed + 1 : i \in k + 1 .. n <=> (i \in k .. n /\ i # k)
      BY <2>4, Constants
    <3> HIDE DEF d, s, k, n
    <3> QED
      BY <3>1, <3>2, <3>3
  <2>8. ASSUME NEW e, e # d PROVE Mine(s, l, e) = Mine(pc[r], t[r], e)
    <3>1. Mine(s, l, e) = {i \in 1 .. BytesUsed + 1 : i \in k + 1 .. n /\ t[r].bh[i] = e}
      BY <2>5
    <3>2. Mine(pc[r], t[r], e) = {i \in 1 .. BytesUsed + 1 : i \in k .. n /\ t[r].bh[i] = e}
      BY <2>6
    <3>3. \A i \in 1 .. BytesUsed + 1 : i \in k + 1 .. n <=> (i \in k .. n /\ i # k)
      BY <2>4, Constants
    <3>4. t[r].bh[k] # e
      BY <2>8
    <3> HIDE DEF d, s, k, n
    <3> QED
      BY <3>1, <3>2, <3>3, <3>4
  <2>9. Brelse(d)
    BY DEF Buffer
  <2> HIDE DEF d, s, k
  <2> QED
    BY <2>2, <2>3, <2>7, <2>8, <2>9, CountingPut
<1>10. Proper(s, l, fed')
  <2>1. /\ x \in Block /\ t[r].cbyte = Size[x] /\ n > 0 /\ Lie(t[r], t[r].bh[1], Edge(t[r]))
        /\ Edge(t[r]) \in 0 .. D /\ t[r].cbyte <= Covered(n, Edge(t[r]))
    BY <1>2, ReadingFacts
  <2>2. Edge(l) = Edge(t[r])
    BY <1>4 DEF Edge
  <2>3. Lie(l, l.bh[1], Edge(l))
    BY <1>4, <2>1, <2>2 DEF Lie
  <2>4. k + 1 # 1 /\ (k + 1) - 1 = k
    BY <1>1
  <2>5. Gone(l) = y
    <3>1. Gone(l) = (IF k + 1 <= n THEN Covered(k, Edge(t[r])) ELSE Size[x])
      BY <1>4, <2>2, <2>4 DEF Gone
    <3> QED
      BY <1>3, <3>1
  <2> HIDE DEF y, k, x, n
  <2>6. Reading(s, l, fed')
    BY <1>4, <2>1, <2>2, <2>3, <2>4, <2>5 DEF Reading, y, x, n
  <2> QED
    BY <2>6 DEF Proper, Measuring, Header, Getting, Ended, Idle, Refusal
<1> QED
  BY <1>6, <1>7, <1>8, <1>9, <1>10, StepKeeps DEF MovesWell

LEMMA CopyKeeps ==
  ASSUME IInv, NEW r \in Reader, Copy(r)
  PROVE  IInv'
<1>1. /\ pc[r] = "copy" /\ Left(r) /\ Brelse(Buffer(r)) /\ UNCHANGED <<state, mutex, fed, pc, reads>>
      /\ t' = [t EXCEPT ![r] = [Advanced(r, t[r]) EXCEPT !.out = t[r].out \o Bytes(r)]]
  BY DEF Copy, Is
<1>2. pc[r] \in Got
  BY <1>1 DEF Got
<1>3. t[r].out = Prefix(t[r].blk, t[r].bytes)
  BY <1>1, <1>2, ReaderType DEF Proper, Reading
<1>4. /\ t[r].out \o Bytes(r) = Prefix(t[r].blk, t[r].bytes + Avail(r))
      /\ t[r].out \in Seq(Nat) /\ Bytes(r) \in Seq(Nat)
  BY <1>1, <1>2, <1>3, BytesAreNext, ReaderType
<1>5. t[r].out \o Bytes(r) \in Seq(Nat)
  BY <1>4, ConcatProperties
<1>6. fed' \in Seq(Nat)
  BY <1>1 DEF IInv, TypeOK
<1> QED
  BY <1>1, <1>4, <1>5, <1>6, AdvanceKeeps

\* A step that fails under the mutex.
LEMMA UnpackFails ==
  ASSUME IInv, NEW r \in Reader, pc[r] = "inflate", NEW why \in BOOLEAN, Fail(r, why, "unlock"),
         why \/ ~Sound(t[r].blk), UNCHANGED <<state, refs, mutex, reads>>, fed' \in Seq(Nat)
  PROVE  IInv'
<1>1. PICK l : /\ Moves(r, "unlock", l) /\ Proper("unlock", l, fed')
               /\ l.bh = t[r].bh /\ l.k = t[r].k /\ HasRead("unlock", l) = {}
  BY FailMoves
<1>2. Locking(r, "unlock")
  BY DEF Locking, Inside, IInv, Mutexed, TypeOK
<1>3. Answering(r, "unlock", l)
  BY <1>1, AnsweringSame
<1>4. Counting(r, "unlock", l)
  <2>1. \A e : Mine("unlock", l, e) = Mine(pc[r], t[r], e)
    BY <1>1 DEF Mine
  <2> QED
    BY <2>1, CountingSame
<1> QED
  BY <1>1, <1>2, <1>3, <1>4, StepKeeps DEF MovesWell

LEMMA InflateKeeps ==
  ASSUME IInv, NEW r \in Reader, Inflate(r)
  PROVE  IInv'
<1>1. /\ pc[r] = "inflate" /\ Left(r) /\ state[Buffer(r)] # "io" /\ UNCHANGED <<state, mutex, reads>>
      /\ IF state[Buffer(r)] # "uptodate"
         THEN Fail(r, Buffer(r) \in Flaky, "unlock") /\ UNCHANGED <<refs, fed>>
         ELSE /\ fed' = Input(r)
              /\ IF ~Skipped(r) /\ Refused(r)
                 THEN Fail(r, FALSE, "unlock") /\ UNCHANGED refs
                 ELSE t' = [t EXCEPT ![r] = Advanced(r, t[r])] /\ Brelse(Buffer(r)) /\ UNCHANGED pc
  BY DEF Inflate, Is
<1>2. pc[r] \in Got
  BY <1>1 DEF Got
<1>3. t[r].k \in t[r].k .. Len(t[r].bh)
  BY <1>1, ReaderType DEF Left
<1>4. Buffer(r) \in Device /\ state[Buffer(r)] # "clean"
  <2>1. t[r].k \in HasRead(pc[r], t[r])
    BY <1>2, <1>3 DEF HasRead
  <2> QED
    BY <1>3, <2>1, HeldFacts DEF IInv, Answered, Buffer
<1>5. Bytes(r) \in Seq(Nat) /\ fed \in Seq(Nat)
  BY <1>1, <1>2, BytesAreNext DEF IInv, TypeOK
<1>6. Input(r) \in Seq(Nat)
  BY <1>5, ConcatProperties DEF Input
<1>7. CASE state[Buffer(r)] # "uptodate"
  <2>1. Buffer(r) \in Flaky
    BY <1>1, <1>4, <1>7 DEF IInv, TypeOK, Answered
  <2> DEFINE why == Buffer(r) \in Flaky
  <2>2. Fail(r, why, "unlock") /\ UNCHANGED <<refs, fed>> /\ why /\ why \in BOOLEAN
    BY <1>1, <1>7, <2>1
  <2> HIDE DEF why
  <2> QED
    BY <1>1, <1>5, <2>2, UnpackFails
<1>8. CASE state[Buffer(r)] = "uptodate" /\ ~Skipped(r) /\ Refused(r)
  <2>1. ~Sound(t[r].blk)
    <3>1. t[r].k # 1 => Avail(r) > 0 /\ Avail(r) \in Nat
      BY <1>1, <1>2, AvailFacts
    <3> QED
      BY <1>8, <3>1 DEF Skipped, Refused, Sound
  <2>2. Fail(r, FALSE, "unlock") /\ UNCHANGED refs /\ fed' \in Seq(Nat)
    BY <1>1, <1>6, <1>8
  <2> QED
    BY <1>1, <2>1, <2>2, UnpackFails
<1>9. CASE state[Buffer(r)] = "uptodate" /\ ~(~Skipped(r) /\ Refused(r))
  <2>1. /\ t' = [t EXCEPT ![r] = Advanced(r, t[r])] /\ Brelse(Buffer(r)) /\ UNCHANGED pc
        /\ fed' = Input(r)
    BY <1>1, <1>9
  <2>2. t[r] \in Locals /\ t[r].out \in Seq(Nat)
    BY ReaderType
  <2>3. Advanced(r, t[r]) = [Advanced(r, t[r]) EXCEPT !.out = t[r].out]
    BY <2>2 DEF Advanced, Locals
  <2>4. Input(r) = Prefix(t[r].blk, t[r].bytes + Avail(r))
    <3>1. CASE t[r].k = 1
      <4>1. t[r].bytes = 0
        BY <1>2, <3>1, ReadingFacts DEF Gone
      <4> QED
        BY <1>1, <1>2, <3>1, <4>1, BytesAreNext DEF Input
    <3>2. CASE t[r].k # 1
      <4>1. t[r].k > 1
        BY <3>2, ReaderType
      <4>2. fed = Prefix(t[r].blk, t[r].bytes)
        BY <1>1, <1>2, <4>1, ReaderType DEF Proper, Reading
      <4> QED
        BY <1>1, <1>2, <3>2, <4>2, BytesAreNext DEF Input
    <3> QED
      BY <3>1, <3>2
  <2>5. t' = [t EXCEPT ![r] = [Advanced(r, t[r]) EXCEPT !.out = t[r].out]]
    BY <2>1, <2>3, Zenon
  <2> QED
    BY <1>1, <1>6, <2>1, <2>2, <2>4, <2>5, AdvanceKeeps
<1> QED
  BY <1>7, <1>8, <1>9

\* Nothing is left: all bytes of the block were had.
LEMMA AllRead ==
  ASSUME IInv, NEW r \in Reader, pc[r] \in Got, ~Left(r)
  PROVE  /\ t[r].k = Len(t[r].bh) + 1 /\ t[r].k > 1 /\ t[r].bytes = Size[t[r].blk]
         /\ Prefix(t[r].blk, t[r].bytes) = Payload(t[r].blk)
<1>1. Len(t[r].bh) > 0 /\ t[r].bytes = Gone(t[r])
  BY ReadingFacts
<1>2. t[r].k = Len(t[r].bh) + 1 /\ Len(t[r].bh) \in Nat /\ t[r].k \in Nat
  BY ReaderType DEF Left
<1>3. t[r].k > 1 /\ ~(t[r].k <= Len(t[r].bh))
  BY <1>1, <1>2
<1>4. t[r].bytes = Size[t[r].blk]
  BY <1>1, <1>3 DEF Gone
<1> QED
  BY <1>2, <1>3, <1>4 DEF Prefix, Payload

\* A reader whose buffers went back all.
LEMMA NoneLeft ==
  ASSUME NEW p, NEW l, l.k = Len(l.bh) + 1, Len(l.bh) \in Nat
  PROVE  HasRead(p, l) = {} /\ \A d : Mine(p, l, d) = {}
<1>1. l.k .. Len(l.bh) = {}
  OBVIOUS
<1> QED
  BY <1>1 DEF HasRead, Mine

LEMMA EndKeeps ==
  ASSUME IInv, NEW r \in Reader, End(r)
  PROVE  IInv'
<1> DEFINE l == [t[r] EXCEPT !.out = fed]
<1>1. /\ pc[r] = "inflate" /\ ~Left(r) /\ UNCHANGED <<state, refs, mutex, fed, reads>>
      /\ t' = [t EXCEPT ![r] = l]
      /\ Goto(r, IF \E x \in Block : fed = Payload(x) THEN "end" ELSE "unlock")
  BY DEF End, Is, bufs
<1>2. pc[r] \in Got
  BY <1>1 DEF Got
<1>3. /\ t[r].k = Len(t[r].bh) + 1 /\ t[r].k > 1 /\ t[r].bytes = Size[t[r].blk]
      /\ Prefix(t[r].blk, t[r].bytes) = Payload(t[r].blk)
  BY <1>1, <1>2, AllRead
<1>4. /\ t[r] \in Locals /\ Len(t[r].bh) \in Nat /\ InRoom(t[r])
      /\ fed \in Seq(Nat) /\ t[r].blk \in Block /\ t[r].cbyte = Size[t[r].blk]
  BY <1>2, ReaderType, ReadingFacts DEF IInv, TypeOK
<1>5. fed = Payload(t[r].blk)
  BY <1>1, <1>2, <1>3, ReaderType DEF Proper, Reading
<1>6. pc' = [pc EXCEPT ![r] = "end"]
  BY <1>1, <1>4, <1>5 DEF Goto
<1>7. l \in Locals /\ l.bh = t[r].bh /\ l.k = t[r].k /\ l.blk = t[r].blk /\ l.out = fed
      /\ l.cbyte = t[r].cbyte
  BY <1>4 DEF Locals
<1> HIDE DEF l
<1>8. Moves(r, "end", l)
  BY <1>1, <1>3, <1>4, <1>6, <1>7, ReaderType DEF Moves, InRoom, States
<1>9. Locking(r, "end")
  BY <1>1, LockingSame DEF Inside
<1>10. Answering(r, "end", l)
  BY <1>1, <1>3, <1>4, <1>7, NoneLeft, AnsweringSame
<1>11. Counting(r, "end", l)
  <2>1. \A e : Mine("end", l, e) = {} /\ Mine(pc[r], t[r], e) = {}
    BY <1>3, <1>4, <1>7, NoneLeft
  <2> QED
    BY <1>1, <2>1, CountingSame
<1>12. Proper("end", l, fed')
  BY <1>3, <1>4, <1>5, <1>7 DEF Proper, Measuring, Header, Getting, Reading, Got, Ended, Idle, Refusal
<1> QED
  BY <1>8, <1>9, <1>10, <1>11, <1>12, StepKeeps DEF MovesWell

\* The read is done: its locals say where the next block is.
LEMMA DoneMoves ==
  ASSUME IInv, NEW r \in Reader, Done(r, "ok"), t[r].blk \in Block, t[r].cbyte = Size[t[r].blk],
         t[r].k = Len(t[r].bh) + 1, t[r].out = Payload(t[r].blk), UNCHANGED reads
  PROVE  \E l : /\ Moves(r, "ok", l) /\ Proper("ok", l, fed')
                /\ HasRead("ok", l) = {} /\ \A e : Mine("ok", l, e) = {}
<1> DEFINE l == [t[r] EXCEPT !.next = NextIndex(r)]
<1>1. t' = [t EXCEPT ![r] = l] /\ pc' = [pc EXCEPT ![r] = "ok"]
  BY DEF Done, Goto
<1>2. NextIndex(r) \in Nat /\ NextIndex(r) = Start(t[r].blk) + Size[t[r].blk]
  <2> DEFINE x == t[r].blk
  <2>1. At[x] \in Nat /\ Size[x] \in Nat /\ HeaderBytes \in Nat
    BY Constants, StartFacts
  <2>2. NextIndex(r) = At[x] + Size[x] + (IF x \in Meta THEN HeaderBytes ELSE 0)
    BY DEF NextIndex, IsMeta
  <2>3. Start(x) = At[x] + (IF x \in Meta THEN HeaderBytes ELSE 0)
    BY DEF Start
  <2> HIDE DEF x
  <2> QED
    BY <2>1, <2>2, <2>3 DEF x
<1>3. l \in Locals /\ l.bh = t[r].bh /\ l.k = t[r].k /\ l.blk = t[r].blk /\ l.out = t[r].out
      /\ l.cbyte = t[r].cbyte /\ l.next = Start(t[r].blk) + Size[t[r].blk]
  <2>1. t[r] \in Locals
    BY ReaderType
  <2> QED
    BY <1>2, <2>1 DEF Locals
<1> HIDE DEF l
<1>4. Moves(r, "ok", l)
  BY <1>1, <1>3, ReaderType DEF Moves, InRoom, States
<1>5. Proper("ok", l, fed')
  BY <1>3 DEF Proper, Measuring, Header, Getting, Reading, Got, Ended, Idle, Refusal
<1>6. HasRead("ok", l) = {} /\ \A e : Mine("ok", l, e) = {}
  BY <1>3, ReaderType, NoneLeft
<1> QED
  BY <1>4, <1>5, <1>6

LEMMA UnlockKeeps ==
  ASSUME IInv, NEW r \in Reader, Unlock(r)
  PROVE  IInv'
<1>1. /\ pc[r] \in {"end", "unlock"} /\ mutex' = None /\ fed' = <<>> /\ UNCHANGED <<state, refs, reads>>
      /\ IF Is(r, "end") THEN Done(r, "ok") ELSE Goto(r, "release") /\ UNCHANGED t
  BY DEF Unlock, Is, Freed, bufs
<1>2. mutex = r
  BY <1>1 DEF IInv, Mutexed, Inside
<1>3. Locking(r, "ok") /\ Locking(r, "release")
  BY <1>1, <1>2, EmptyFacts DEF Locking, Inside
<1>4. CASE pc[r] = "end"
  <2>1. Done(r, "ok")
    BY <1>1, <1>4 DEF Is
  <2>2. /\ t[r].blk \in Block /\ t[r].cbyte = Size[t[r].blk] /\ t[r].k = Len(t[r].bh) + 1
        /\ t[r].out = Payload(t[r].blk)
    BY <1>4, ReaderType DEF Proper, Ended
  <2>3. PICK l : /\ Moves(r, "ok", l) /\ Proper("ok", l, fed')
                 /\ HasRead("ok", l) = {} /\ \A e : Mine("ok", l, e) = {}
    BY <1>1, <2>1, <2>2, DoneMoves
  <2>4. Answering(r, "ok", l)
    BY <1>1, <2>3, AnsweringSame
  <2>5. Counting(r, "ok", l)
    <3>1. \A e : Mine(pc[r], t[r], e) = {}
      BY <2>2, ReaderType, NoneLeft
    <3> QED
      BY <1>1, <2>3, <3>1, CountingSame
  <2> QED
    BY <1>3, <2>3, <2>4, <2>5, StepKeeps DEF MovesWell
<1>5. CASE pc[r] = "unlock"
  <2>1. pc' = [pc EXCEPT ![r] = "release"] /\ t' = [t EXCEPT ![r] = t[r]]
    BY <1>1, <1>5 DEF Is, Goto, IInv, TypeOK
  <2>2. Moves(r, "release", t[r])
    BY <1>1, <2>1, ReaderType DEF Moves, States
  <2>3. Proper("release", t[r], fed')
    <3>1. Refusal("unlock", t[r])
      BY <1>5, ReaderType DEF Proper
    <3>2. Refusal("release", t[r])
      BY <3>1 DEF Refusal
    <3> QED
      BY <3>2 DEF Proper, Measuring, Header, Getting, Reading, Got, Ended, Idle
  <2>4. Answering(r, "release", t[r])
    <3>1. HasRead("release", t[r]) = {}
      BY DEF HasRead, Got
    <3> QED
      BY <1>1, <3>1, AnsweringSame
  <2>5. Counting(r, "release", t[r])
    <3>1. \A e : Mine("release", t[r], e) = Mine(pc[r], t[r], e)
      BY <1>5 DEF Mine
    <3> QED
      BY <1>1, <3>1, CountingSame
  <2> QED
    BY <1>3, <2>2, <2>3, <2>4, <2>5, StepKeeps DEF MovesWell
<1> QED
  BY <1>1, <1>4, <1>5

LEMMA CopiedKeeps ==
  ASSUME IInv, NEW r \in Reader, Copied(r)
  PROVE  IInv'
<1>1. pc[r] = "copy" /\ ~Left(r) /\ Done(r, "ok") /\ UNCHANGED <<state, refs, mutex, fed, reads>>
  BY DEF Copied, Is, bufs
<1>2. pc[r] \in Got
  BY <1>1 DEF Got
<1>3. /\ t[r].k = Len(t[r].bh) + 1 /\ Prefix(t[r].blk, t[r].bytes) = Payload(t[r].blk)
      /\ Len(t[r].bh) \in Nat
  BY <1>1, <1>2, AllRead, ReaderType
<1>4. t[r].blk \in Block /\ t[r].cbyte = Size[t[r].blk] /\ t[r].out = Payload(t[r].blk)
  BY <1>1, <1>2, <1>3, ReaderType DEF Proper, Reading
<1>5. PICK l : /\ Moves(r, "ok", l) /\ Proper("ok", l, fed')
               /\ HasRead("ok", l) = {} /\ \A e : Mine("ok", l, e) = {}
  BY <1>1, <1>3, <1>4, DoneMoves
<1>6. Locking(r, "ok")
  BY <1>1, LockingSame DEF Inside
<1>7. Answering(r, "ok", l)
  BY <1>1, <1>5, AnsweringSame
<1>8. Counting(r, "ok", l)
  <2>1. \A e : Mine(pc[r], t[r], e) = {}
    BY <1>3, NoneLeft
  <2> QED
    BY <1>1, <1>5, <2>1, CountingSame
<1> QED
  BY <1>5, <1>6, <1>7, <1>8, StepKeeps DEF MovesWell

LEMMA LockKeeps ==
  ASSUME IInv, NEW r \in Reader, Lock(r)
  PROVE  IInv'
<1>1. /\ pc[r] = "lock" /\ mutex = None /\ mutex' = r /\ UNCHANGED <<state, refs, fed, t, reads>>
      /\ pc' = [pc EXCEPT ![r] = "inflate"]
  BY DEF Lock, Is, Goto, bufs
<1>2. t' = [t EXCEPT ![r] = t[r]]
  BY <1>1 DEF IInv, TypeOK
<1>3. Moves(r, "inflate", t[r])
  BY <1>1, <1>2, ReaderType DEF Moves, States
<1>4. Locking(r, "inflate")
  BY <1>1, Constants DEF Locking, IInv, TypeOK
<1>5. Answering(r, "inflate", t[r])
  <2>1. \A i \in HasRead("inflate", t[r]) : i \in HasRead(pc[r], t[r])
    BY <1>1 DEF HasRead, Got
  <2> QED
    BY <1>1, <2>1, AnsweringSame
<1>6. Counting(r, "inflate", t[r])
  <2>1. \A e : Mine("inflate", t[r], e) = Mine(pc[r], t[r], e)
    BY <1>1 DEF Mine
  <2> QED
    BY <1>1, <2>1, CountingSame
<1>7. Proper("inflate", t[r], fed')
  <2>1. Reading("lock", t[r], fed)
    BY <1>1, ReaderType DEF Proper
  <2>2. Reading("inflate", t[r], fed')
    BY <2>1 DEF Reading, Got
  <2> QED
    BY <2>2 DEF Proper, Measuring, Header, Getting, Ended, Idle, Refusal
<1> QED
  BY <1>3, <1>4, <1>5, <1>6, <1>7, StepKeeps DEF MovesWell

LEMMA WaitKeeps ==
  ASSUME IInv, NEW r \in Reader, Wait(r)
  PROVE  IInv'
<1> DEFINE mine == Range(t[r].bh)
           n == Len(t[r].bh)
<1>1. /\ pc[r] = "wait" /\ (\A d \in mine : state[d] # "io") /\ UNCHANGED <<state, refs, mutex, fed, reads>>
      /\ IF \A d \in mine : state[d] = "uptodate" THEN Goto(r, "copy") /\ UNCHANGED t
         ELSE Fail(r, mine \cap Flaky # {}, "release")
  BY DEF Wait, Is, bufs
<1>2. Reading("wait", t[r], fed)
  BY <1>1, ReaderType DEF Proper
<1>3. CASE \A d \in mine : state[d] = "uptodate"
  <2>1. pc' = [pc EXCEPT ![r] = "copy"] /\ t' = [t EXCEPT ![r] = t[r]]
    BY <1>1, <1>3 DEF Goto, IInv, TypeOK
  <2>2. Moves(r, "copy", t[r])
    BY <1>1, <2>1, ReaderType DEF Moves, States
  <2>3. Locking(r, "copy")
    BY <1>1, LockingSame DEF Inside
  <2>4. Answering(r, "copy", t[r])
    <3>1. \A i \in HasRead("copy", t[r]) : i \in HasRead(pc[r], t[r])
      BY <1>1 DEF HasRead, Got
    <3> QED
      BY <1>1, <3>1, AnsweringSame
  <2>5. Counting(r, "copy", t[r])
    <3>1. \A e : Mine("copy", t[r], e) = Mine(pc[r], t[r], e)
      BY <1>1 DEF Mine
    <3> QED
      BY <1>1, <3>1, CountingSame
  <2>6. Proper("copy", t[r], fed')
    <3>1. t[r].k = 1 /\ t[r].out = <<>> /\ t[r].bytes = Gone(t[r]) /\ t[r].blk \in Block
      BY <1>2 DEF Reading, Got
    <3>2. t[r].bytes = 0
      BY <3>1 DEF Gone
    <3>3. Prefix(t[r].blk, 0) = <<>>
      BY <3>1, StartFacts, NoRun DEF Prefix
    <3>4. Reading("copy", t[r], fed')
      BY <1>2, <3>1, <3>2, <3>3 DEF Reading, Got
    <3> QED
      BY <3>4 DEF Proper, Measuring, Header, Getting, Ended, Idle, Refusal
  <2> QED
    BY <2>2, <2>3, <2>4, <2>5, <2>6, StepKeeps DEF MovesWell
<1>4. CASE ~\A d \in mine : state[d] = "uptodate"
  <2> DEFINE why == mine \cap Flaky # {}
  <2>1. PICK d \in mine : state[d] # "uptodate"
    BY <1>4
  <2>2. t[r].bh \in Seq(Device) /\ n \in Nat /\ t[r].k = 1
    BY <1>2, ReaderType DEF Reading, Got
  <2>3. PICK i \in 1 .. n : d = t[r].bh[i]
    BY <2>1, <2>2 DEF Range
  <2>4. d \in Device
    BY <2>2, <2>3
  <2>5. state[d] # "clean"
    <3>1. i \in HasRead(pc[r], t[r])
      BY <1>1, <2>2 DEF HasRead, Got
    <3> QED
      BY <2>3, <3>1 DEF IInv, Answered
  <2>6. d \in Flaky
    BY <1>1, <2>1, <2>4, <2>5 DEF IInv, TypeOK, Answered
  <2>7. why /\ why \in BOOLEAN /\ Fail(r, why, "release")
    BY <1>1, <1>4, <2>1, <2>6
  <2> HIDE DEF why
  <2>8. PICK k : /\ Moves(r, "release", k) /\ Proper("release", k, fed')
                 /\ k.bh = t[r].bh /\ k.k = t[r].k /\ HasRead("release", k) = {}
    BY <1>1, <2>7, FailMoves
  <2>9. Locking(r, "release")
    BY <1>1, LockingSame DEF Inside
  <2>10. Answering(r, "release", k)
    BY <1>1, <2>8, AnsweringSame
  <2>11. Counting(r, "release", k)
    <3>1. \A e : Mine("release", k, e) = Mine(pc[r], t[r], e)
      BY <1>1, <2>8 DEF Mine
    <3> QED
      BY <1>1, <3>1, CountingSame
  <2> QED
    BY <2>8, <2>9, <2>10, <2>11, StepKeeps DEF MovesWell
<1> QED
  BY <1>3, <1>4

LEMMA ReleaseKeeps ==
  ASSUME IInv, NEW r \in Reader, Release(r)
  PROVE  IInv'
<1>1. /\ pc[r] = "release" /\ UNCHANGED <<state, mutex, fed, t, reads>>
      /\ refs' = [d \in Device |-> refs[d] - Cardinality({i \in Held(r) : t[r].bh[i] = d})]
      /\ pc' = [pc EXCEPT ![r] = "error"]
  BY DEF Release, Is, Goto
<1>2. t' = [t EXCEPT ![r] = t[r]]
  BY <1>1 DEF IInv, TypeOK
<1>3. Moves(r, "error", t[r])
  BY <1>1, <1>2, ReaderType DEF Moves, States
<1>4. Locking(r, "error")
  BY <1>1, LockingSame DEF Inside
<1>5. Answering(r, "error", t[r])
  <2>1. HasRead("error", t[r]) = {}
    BY DEF HasRead, Got
  <2> QED
    BY <1>1, <2>1, AnsweringSame
<1>6. Counting(r, "error", t[r])
  <2>1. refs \in [Device -> Nat]
    BY DEF IInv, TypeOK
  <2>2. ASSUME NEW d \in Device
        PROVE  /\ refs'[d] \in Int
               /\ refs'[d] = (refs[d] + Cardinality(Mine("error", t[r], d))) - Cardinality(Mine(pc[r], t[r], d))
    <3> DEFINE mine == Mine(pc[r], t[r], d)
    <3>1. \A i \in Held(r) : i \in 1 .. BytesUsed + 1
      BY HeldFacts DEF Held
    <3>2. {i \in Held(r) : t[r].bh[i] = d} = mine
      BY <1>1, <3>1 DEF Mine, Held
    <3>3. Mine("error", t[r], d) = {} /\ Cardinality({}) = 0
      BY FS_EmptySet DEF Mine
    <3>4. Cardinality(mine) \in Nat
      BY MineFinite
    <3>5. refs'[d] = refs[d] - Cardinality(mine) /\ refs[d] \in Nat
      BY <1>1, <2>1, <3>2
    <3> HIDE DEF mine
    <3>6. refs'[d] \in Int /\ refs'[d] = (refs[d] + 0) - Cardinality(mine)
      BY <3>4, <3>5
    <3> QED
      BY <3>3, <3>6 DEF mine
  <2>3. refs' \in [Device -> Int]
    BY <1>1, <2>2
  <2> QED
    BY <2>2, <2>3 DEF Counting
<1>7. Proper("error", t[r], fed')
  <2>1. Refusal("release", t[r])
    BY <1>1, ReaderType DEF Proper
  <2>2. Refusal("error", t[r])
    BY <2>1 DEF Refusal
  <2> QED
    BY <2>2 DEF Proper, Measuring, Header, Getting, Reading, Got, Ended, Idle
<1> QED
  BY <1>3, <1>4, <1>5, <1>6, <1>7, StepKeeps DEF MovesWell

-------------------------------------------------------------------------------
(* The theorems                                                            *)

LEMMA NextKeeps == IInv /\ [Next]_vars => IInv'
<1> SUFFICES ASSUME IInv, [Next]_vars PROVE IInv'
  OBVIOUS
<1>1. CASE UNCHANGED vars
  BY <1>1, RestKeeps
<1>2. ASSUME NEW d \in Device, Answer(d) \/ Reclaim(d) PROVE IInv'
  BY <1>2, DeviceKeeps
<1>3. ASSUME NEW r \in Reader, NoArray(r) PROVE IInv'
  BY <1>3, NoArrayKeeps
<1>4. ASSUME NEW r \in Reader, Lock(r) PROVE IInv'
  BY <1>4, LockKeeps
<1>5. ASSUME NEW r \in Reader, NEW x \in Block, Call(r, x) PROVE IInv'
  BY <1>5, CallKeeps
<1>6. ASSUME NEW r \in Reader, GetBlockLength(r) PROVE IInv'
  BY <1>6, LengthReadKeeps, LengthEdgeKeeps, MarkerKeeps, MarkerEdgeKeeps DEF GetBlockLength
<1>7. ASSUME NEW r \in Reader, ReadData(r) PROVE IInv'
  BY <1>6, <1>7, SizedKeeps, GetblkKeeps, SubmitKeeps, InflateKeeps, EndKeeps, UnlockKeeps, WaitKeeps,
     CopyKeeps, CopiedKeeps, ReleaseKeeps, ReturnKeeps, Zenon DEF ReadData
<1> QED
  BY <1>1, <1>2, <1>3, <1>4, <1>5, <1>7, Zenon DEF Next

LEMMA Invariant == Spec => []IInv
<1> QED
  BY InitInv, NextKeeps, PTL DEF Spec

\* Reads are well-typed for any image, device and number of readers: in particular no read
\* has more buffer heads than its array has room for, and no count goes below zero.
THEOREM TypeCorrect == Spec => []TypeOK
<1>1. IInv => TypeOK
  BY DEF IInv
<1> QED
  BY <1>1, Invariant, PTL

\* A block comes out as it lies on the device, wherever the device's blocks divide its
\* length, its marker or itself and whoever reads beside it; and only a bad block or a
\* device that failed gives an error.
THEOREM BlocksRight == Spec => []BlocksComeOut
<1>1. IInv => BlocksComeOut
  BY DEF IInv, ReadersInv, Proper, Ended, Refusal, BlocksComeOut, RightBlocks, SoundBlocksAreRead, Is
<1> QED
  BY <1>1, Invariant, PTL

\* The count of every buffer head is the number of places at which readers have it: on
\* every way out of a read, each buffer goes back once.
THEOREM BuffersReturned == Spec => []BuffersGoBack
<1>1. IInv => BuffersGoBack
  BY DEF IInv, Counted, BuffersGoBack
<1> QED
  BY <1>1, Invariant, PTL
===============================================================================
