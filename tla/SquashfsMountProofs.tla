-------------------------- MODULE SquashfsMountProofs --------------------------
(***************************************************************************)
(* Proofs about volumes and their names, for any images, names, threads    *)
(* and bounds: what mounting makes is there when it is used and goes again,*)
(* an inode is one thread's while it is read, a lookup that no read failed *)
(* in finds its name if there is one, and a listing has every name once.   *)
(*                                                                         *)
(* The argument has three parts.  Where fill_super is tells what there is  *)
(* (Pointers), and what there is is what was allocated and not freed       *)
(* (Heap).  A thread that looks for a name is before an item of its        *)
(* directory and has passed the name nowhere (AtHeader, AtEntry), wherever *)
(* the index let it start; and once it has the inode, the inode is the     *)
(* name's and stays it (Answered), as only its reader changes it (Readers).*)
(* A listing has the names that end by f_pos (Volume), and who lists is    *)
(* behind no name that is not listed (Lists).                              *)
(***************************************************************************)
EXTENDS SquashfsMount, FiniteSetTheorems, WellFoundedInduction, TLAPS

-------------------------------------------------------------------------------
(* The inductive invariant                                                 *)

\* Where a thread has an inode to itself, and where it is after it has found one.
Reading == {"base", "rest", "location", "unlock", "failed"}
Got     == {"iget", "await"} \cup Reading

\* Where fill_super is tells what there is.
Basic == {"info", "workspace", "block_cache", "read_page", "uid", "fragment_cache"}
IndexTable(d)  == IF Major[d] = 3 /\ d \notin Fragments THEN {} ELSE {IndexOf(d)}
LookupTable(d) == IF d \in Export THEN {"inode_lookup_table"} ELSE {}
Tables(d)      == Basic \cup IndexTable(d) \cup LookupTable(d)

Pointers ==
  /\ mount \in {"none", "info"} => ptr = {}
  /\ mount = "workspace" => ptr = {"info"}
  /\ mount \in {"super", "supported", "block_cache"} => ptr = {"info", "workspace"}
  /\ mount = "read_page" => ptr = {"info", "workspace", "block_cache"}
  /\ mount = "uid" => ptr = {"info", "workspace", "block_cache", "read_page"}
  /\ mount \in {"ids", "fragment_cache"} => ptr = Basic \ {"fragment_cache"}
  /\ mount = "index" => ptr = Basic
  /\ mount = "read_index" => ptr = Basic \cup IndexTable(disk)
  /\ mount = "lookup" => ptr = Basic \cup IndexTable(disk) /\ disk \in Export
  /\ mount = "read_lookup" => ptr = Tables(disk) /\ disk \in Export
  /\ mount = "root" => ptr = Tables(disk)
  /\ mount \in {"read_root", "dentry"} => ptr = Tables(disk) \cup {"root"}
  /\ mount = "mounted" => ptr \ {"meta_index"} = Tables(disk) \cup {"root"}

\* A mount is where it is with what it has so far.
MountState ==
  /\ mount \in Places /\ registered \in BOOLEAN
  /\ mount = "mounted" <=> img # None
  /\ mount = "mounted" => img = disk
  /\ mount \notin {"none", "info", "workspace", "super", "failed"} => disk \in Image
  /\ mount \notin {"none", "info", "workspace", "super", "supported", "failed"} =>
       Major[disk] \in {2, 3}
  /\ mount # "none" => registered /\ disk \in Image \cup Broken
  /\ ptr \subseteq Resource \ {"inode_cache"}
  /\ Pointers

\* What was allocated and not freed is what there are pointers to, and what the code let go of.
Held(x) == IF x \in ptr THEN 1 ELSE 0
Lost(x) == IF x \in Left THEN lapsed[x] ELSE 0
Heap ==
  /\ heap \in [Resource -> Nat] /\ lapsed \in [Left -> Nat]
  /\ \A x \in Resource \ {"inode_cache"} : heap[x] = Lost(x) + Held(x)
  /\ heap["inode_cache"] = IF registered THEN 1 ELSE 0

\* The locals of a thread, and the rest of the state of a directory.
Locals == [name : {0} \cup Name, ino : {0} \cup Inode, len : Nat, at : Nat, left : Nat,
           then : {"idle", "looked", "exported"}, answer : Answer, hit : BOOLEAN, full : BOOLEAN]

Types ==
  /\ img \in Image \cup {None} /\ fpos \in Nat /\ dirmutex \in Thread \cup {None}
  /\ dentry \in [Name -> Answer \cup {"unknown", "negative"}]
  /\ icache \in [Inode -> {"absent", "new", "read", "half"}]
  /\ pc \in [Thread -> Ops \cup {"idle", "failed"}]
  /\ t \in [Thread -> Locals]

\* Where a thread is, and what its locals are there.
Placed(p, l) ==
  /\ p # "idle" => img # None
  /\ p = "table" => img \in Export /\ l.then = "exported"
  /\ p \in Got \cup {"table"} => l.ino \in Reachable(img) /\ l.then \in {"looked", "exported"}
  /\ p = "location" => Kind[l.ino] = "fragment"

\* l is before item j + 1 and has passed the name nowhere.
AtItem(l, j) ==
  /\ l.at = Base + j * Item /\ l.len = j * Item + Ahead
  /\ \A i \in 1 .. j : Dir[img][i] # l.name
\* Item j is the last of a header's names.
EndsAt(j) == j = Len(Dir[img]) \/ (j < Len(Dir[img]) /\ Dir[img][j + 1] = 0)
\* l is before a header, or before a header's last l.left names.
AtHeader(l) == \E j \in 0 .. Len(Dir[img]) : AtItem(l, j) /\ EndsAt(j)
AtEntry(l)  == \E j \in 0 .. Len(Dir[img]) :
                 /\ AtItem(l, j) /\ EndsAt(j + l.left)
                 /\ \A i \in j + 1 .. j + l.left : Dir[img][i] # 0
\* What lookup found is what there is.
Answered(l) ==
  IF l.name \in Range(Dir[img])
  THEN /\ l.answer \in {"read"} \cup (IF V3 THEN {} ELSE {"half"})
       /\ icache[Ino[l.name]] = l.answer
  ELSE l.answer = "none"

\* A lookup that no read failed in has not gone astray.
Seeks(p, l) ==
  /\ p \in {"name", "lheader", "lentry", "looked"} => l.name \in Name
  /\ p \in {"name", "lheader", "lentry"} => l.answer = "none"
  /\ p = "lheader" /\ ~l.hit => AtHeader(l)
  /\ p = "lentry" /\ ~l.hit => AtEntry(l)
  /\ p \in Got /\ l.then = "looked" =>
       l.name \in Name /\ l.name \in Range(Dir[img]) /\ l.ino = Ino[l.name]
  /\ p = "looked" /\ ~l.hit => Answered(l)

Threads == \A h \in Thread : Placed(pc[h], t[h]) /\ Seeks(pc[h], t[h])

\* An inode is new while one thread reads it.
Readers ==
  /\ \A i \in Inode : icache[i] = "new" <=> \E h \in Thread : t[h].ino = i /\ pc[h] \in Reading
  /\ \A h, q \in Thread :
       pc[h] \in Reading /\ pc[q] \in Reading /\ t[h].ino = t[q].ino => h = q
  /\ \A i \in Inode : icache[i] = "half" => Major[img] = 2
  /\ img = None => \A i \in Inode : icache[i] = "absent"

IInv == Types /\ MountState /\ Heap /\ Threads /\ Readers
-------------------------------------------------------------------------------
(* Numbers                                                                 *)

\* A set of naturals has a least member.
LEMMA Least ==
  ASSUME NEW S, S \subseteq Nat, S # {}
  PROVE  \E x \in S : \A y \in S : x <= y
<1> DEFINE R == OpToRel(<, Nat)
<1>1. IsWellFoundedOn(R, Nat)
  BY NatLessThanWellFounded
<1> HIDE DEF R
<1>2. \E x \in S : \A y \in S : ~(<<y, x>> \in R)
  BY <1>1, WFMin, Zenon
<1>3. PICK x \in S : \A y \in S : ~(y < x)
  BY <1>2, Zenon DEF R, OpToRel
<1> QED BY <1>3

\* The run of members of F that begins at a + 1, and its length.
Run(a, b, F)    == {i \in a + 1 .. b : a + 1 .. i \subseteq F}
Length(a, b, F) == Cardinality(Run(a, b, F))
\* A run has members of F, and the next number is none or too large.
LEMMA RunLength ==
  ASSUME NEW a \in Nat, NEW b \in Nat, NEW F
  PROVE  /\ Length(a, b, F) \in Nat
         /\ \A i \in Nat : a < i /\ i <= a + Length(a, b, F) => i \in F
         /\ a <= b => /\ a + Length(a, b, F) <= b
                      /\ a + Length(a, b, F) = b \/ a + Length(a, b, F) + 1 \notin F
         /\ b < a => Length(a, b, F) = 0
<1> DEFINE S == Run(a, b, F)
<1>0. Length(a, b, F) = Cardinality(S)
  BY DEF Length
<1>1. CASE b < a
  <2>1. S = {}
    BY <1>1 DEF Run
  <2>2. Cardinality(S) = 0
    BY <2>1, FS_EmptySet
  <2> QED BY <1>0, <1>1, <2>2
<1>2. CASE a <= b
  <2> DEFINE Out == {i \in Nat : a + 1 <= i /\ (i \notin F \/ i = b + 1)}
  <2>1. b + 1 \in Out
    BY <1>2
  <2>2. PICK m \in Out : \A i \in Out : m <= i
    BY <2>1, Least, Zenon DEF Out
  <2>3. m \in Nat /\ a + 1 <= m /\ m <= b + 1 /\ (m \notin F \/ m = b + 1)
    BY <2>1, <2>2
  <2>4. \A i \in a + 1 .. m - 1 : i \in F
    BY <2>2, <2>3
  <2>5. S = a + 1 .. m - 1
    BY <2>3, <2>4 DEF Run
  <2>6. Cardinality(S) = m - 1 - a
    <3>1. a + 1 \in Int /\ m - 1 \in Int /\ ~(a + 1 > m - 1 /\ a + 1 # m)
      BY <2>3
    <3>2. Cardinality(a + 1 .. m - 1) = IF a + 1 > m - 1 THEN 0 ELSE (m - 1) - (a + 1) + 1
      BY <3>1, FS_Interval
    <3>3. Cardinality(S) = IF a + 1 > m - 1 THEN 0 ELSE (m - 1) - (a + 1) + 1
      BY <2>5, <3>2, Zenon
    <3>4. m - 1 - a = IF a + 1 > m - 1 THEN 0 ELSE (m - 1) - (a + 1) + 1
      BY <2>3
    <3> QED BY <3>3, <3>4, Zenon
  <2> HIDE DEF Out
  <2>7. a + Cardinality(S) = m - 1 /\ Cardinality(S) \in Nat
    BY <2>3, <2>6
  <2> DEFINE c == Cardinality(S)
  <2>8. c \in Nat /\ a + c = m - 1
    BY <2>7
  <2> HIDE DEF c
  <2>9. /\ c \in Nat /\ a + 1 .. a + c \subseteq F /\ a + c <= b
        /\ a + c = b \/ a + c + 1 \notin F
        /\ \A i \in Nat : a < i /\ i <= a + c => i \in F
    <3>1. a + c + 1 = m
      BY <2>3, <2>8
    <3> QED BY <2>3, <2>4, <2>8, <3>1
  <2>10. ~(b < a)
    BY <1>2
  <2> QED BY <1>0, <2>9, <2>10 DEF c
<1> QED BY <1>1, <1>2

\* Division of a multiple.
LEMMA Multiple ==
  ASSUME NEW j \in Nat, NEW d \in Nat \ {0}
  PROVE  (j * d) % d = 0 /\ (j * d) \div d = j /\ j * d \in Nat
OBVIOUS

\* A number is its blocks and the rest.
LEMMA BlocksAndRest ==
  ASSUME NEW n \in Nat, NEW d \in Nat \ {0}
  PROVE  (n \div d) * d + (n % d) = n /\ n \div d \in Nat /\ n % d \in Nat
OBVIOUS

-------------------------------------------------------------------------------
(* Directories                                                             *)

\* The types of the constants.
LEMMA Sizes == Block \in Nat \ {0} /\ Item \in Nat \ {0} /\ Base \in Nat /\ Name \subseteq Nat \ {0}
BY SDAssumption

\* What an image's directory and index are.
LEMMA ImageOf ==
  ASSUME img \in Image
  PROVE  /\ Dir[img] \in Seq({0} \cup DOMAIN Ino) /\ Len(Dir[img]) \in Nat
         /\ DOMAIN Dir[img] = 1 .. Len(Dir[img])
         /\ Index[img] \in Seq(Nat \ {0}) /\ Len(Index[img]) \in Nat
         /\ \A k \in Indexes : /\ Index[img][k] \in 1 .. Len(Dir[img]) - 1
                               /\ Dir[img][Index[img][k]] = 0 /\ Dir[img][Index[img][k] + 1] # 0
         /\ (Dir[img] # <<>> => Dir[img][1] = 0)
         /\ Ahead \in Nat
<1>1. /\ Dir[img] \in Seq({0} \cup DOMAIN Ino) /\ Index[img] \in Seq(Nat \ {0})
      /\ (Dir[img] # <<>> => Dir[img][1] = 0)
      /\ \A k \in 1 .. Len(Index[img]) :
            /\ Index[img][k] < Len(Dir[img])
            /\ Dir[img][Index[img][k]] = 0 /\ Dir[img][Index[img][k] + 1] # 0
  BY SDImages
<1> QED BY <1>1 DEF Indexes, Ahead

\* An item that is no header is a name of the directory, and there is an inode for it.
LEMMA NameOf ==
  ASSUME img \in Image, NEW k \in 1 .. Len(Dir[img]), Dir[img][k] # 0
  PROVE  /\ Dir[img][k] \in DOMAIN Ino /\ Ino[Dir[img][k]] \in Inode
         /\ Dir[img][k] \in Range(Dir[img]) /\ Ino[Dir[img][k]] \in Reachable(img)
<1>1. Dir[img][k] \in DOMAIN Ino /\ Dir[img][k] \in Range(Dir[img])
  BY ImageOf DEF Range
<1>2. Ino[Dir[img][k]] \in Inode
  BY <1>1 DEF Inode, Range
<1> QED BY <1>1, <1>2 DEF Reachable

\* Whatever can be reached is an inode.
LEMMA ReachableInode ==
  ASSUME img \in Image, NEW i \in Reachable(img)
  PROVE  i \in Inode
<1>1. CASE img \in Export
  BY <1>1 DEF Reachable
<1>2. CASE img \notin Export
  <2>1. PICK n \in Range(Dir[img]) \ {0} : i = Ino[n]
    BY <1>2 DEF Reachable
  <2>2. n \in DOMAIN Ino
    BY <2>1, ImageOf DEF Range
  <2> QED BY <2>1, <2>2 DEF Inode, Range
<1> QED BY <1>1, <1>2

\* ItemAt and Count, of a place in the table's units.
LEMMA ItemIs ==
  ASSUME NEW u, NEW d, d = u - Base, d % Item = 0, d \div Item \in 0 .. Len(Dir[img]) - 1
  PROVE  ItemAt(u) = Dir[img][d \div Item + 1]
BY DEF ItemAt
\* The same of the names behind a header.
LEMMA CountIs ==
  ASSUME NEW u, NEW k, k = (u - Base) \div Item + 1
  PROVE  Count(u) = Cardinality({j \in k + 1 .. Len(Dir[img]) : \A i \in k + 1 .. j : Dir[img][i] # 0})
BY DEF Count

\* The item a thread reads.
LEMMA ItemRead ==
  ASSUME img \in Image, NEW j \in Nat, j < Len(Dir[img])
  PROVE  ItemAt(Base + j * Item) = Dir[img][j + 1]
<1>1. j * Item \in Nat /\ (j * Item) % Item = 0 /\ (j * Item) \div Item = j
  BY Sizes, Multiple
<1>2. (Base + j * Item) - Base = j * Item
  BY <1>1, Sizes
<1>3. j \in 0 .. Len(Dir[img]) - 1
  BY ImageOf
<1> DEFINE d == j * Item
           u == Base + d
<1>4. d = u - Base /\ d % Item = 0 /\ d \div Item = j
  BY <1>1, <1>2, Zenon
<1> HIDE DEF d, u
<1>5. ItemAt(u) = Dir[img][d \div Item + 1]
  BY <1>3, <1>4, ItemIs
<1> QED BY <1>4, <1>5 DEF d, u

\* A name that is read is in the directory.
LEMMA ItemNamed ==
  ASSUME img \in Image, NEW u, ItemAt(u) # 0
  PROVE  ItemAt(u) \in Range(Dir[img]) \ {0} /\ ItemAt(u) \in DOMAIN Ino
<1> DEFINE k == (u - Base) \div Item + 1
<1>1. ItemAt(u) = Dir[img][k] /\ (u - Base) \div Item \in 0 .. Len(Dir[img]) - 1
  BY DEF ItemAt
<1>2. k \in 1 .. Len(Dir[img])
  BY <1>1, ImageOf
<1> HIDE DEF k
<1> QED BY <1>1, <1>2, NameOf

\* How many names follow a header.
LEMMA CountRead ==
  ASSUME img \in Image, NEW q \in Nat, q < Len(Dir[img])
  PROVE  /\ Count(Base + q * Item) \in Nat
         /\ EndsAt(q + 1 + Count(Base + q * Item))
         /\ \A i \in q + 2 .. q + 1 + Count(Base + q * Item) : Dir[img][i] # 0
         /\ q + 1 + Count(Base + q * Item) <= Len(Dir[img])
<1>1. q * Item \in Nat /\ (q * Item) \div Item = q
  BY Sizes, Multiple
<1>2. (Base + q * Item) - Base = q * Item
  BY <1>1, Sizes
<1> DEFINE n == Len(Dir[img])
           F == {i \in 1 .. n : Dir[img][i] # 0}
           c == Length(q + 1, n, F)
<1>3. n \in Nat /\ q + 1 \in Nat /\ q + 1 <= n
  BY ImageOf
<1>4. Count(Base + q * Item) = c
  <2>1. q + 1 = ((Base + q * Item) - Base) \div Item + 1
    BY <1>1, <1>2
  <2>2. Count(Base + q * Item) =
          Cardinality({j \in (q + 1) + 1 .. n : \A i \in (q + 1) + 1 .. j : Dir[img][i] # 0})
    <3> DEFINE k == q + 1
               u == Base + q * Item
    <3>1. k = (u - Base) \div Item + 1
      BY <2>1, Zenon
    <3> HIDE DEF k, u
    <3>2. Count(u) = Cardinality({j \in k + 1 .. Len(Dir[img]) : \A i \in k + 1 .. j : Dir[img][i] # 0})
      BY <3>1, CountIs, Zenon
    <3> QED BY <3>2 DEF k, u
  <2>3. {j \in (q + 1) + 1 .. n : \A i \in (q + 1) + 1 .. j : Dir[img][i] # 0} = Run(q + 1, n, F)
    BY <1>3 DEF Run
  <2> QED BY <2>2, <2>3 DEF Length
<1>5. /\ c \in Nat /\ \A i \in Nat : q + 1 < i /\ i <= q + 1 + c => i \in F
      /\ q + 1 + c <= n /\ (q + 1 + c = n \/ q + 1 + c + 1 \notin F)
  <2> HIDE DEF n, F
  <2> QED BY <1>3, RunLength
<1> HIDE DEF c
<1>6. EndsAt(q + 1 + c)
  BY <1>3, <1>5 DEF EndsAt
<1>7. \A i \in q + 2 .. q + 1 + c : Dir[img][i] # 0
  BY <1>5
<1> QED BY <1>4, <1>5, <1>6, <1>7

\* How many there are is a number wherever a header is read.
LEMMA CountNat ==
  ASSUME img \in Image, NEW u \in Nat
  PROVE  Count(u) \in Nat
<1> DEFINE k == (u - Base) \div Item + 1
<1>1. k \in Int
  BY Sizes
<1>2. Count(u) = Cardinality({j \in k + 1 .. Len(Dir[img]) : \A i \in k + 1 .. j : Dir[img][i] # 0})
  BY DEF Count
<1> HIDE DEF k
<1> DEFINE a == k + 1
           n == Len(Dir[img])
<1>3. a \in Int /\ n \in Int
  BY <1>1, ImageOf
<1> HIDE DEF a, n
<1>4. IsFiniteSet(a .. n)
  BY <1>3, FS_Interval
<1>5. IsFiniteSet(k + 1 .. Len(Dir[img]))
  BY <1>4 DEF a, n
<1> QED BY <1>2, <1>5, FS_Subset, FS_CardinalityType

\* A jump lands on what the index points to.
LEMMA JumpedTo ==
  ASSUME img \in Image, NEW l \in Locals, NEW k \in 0 .. Len(Index[img])
  PROVE  /\ Jumped(l, k) \in Locals
         /\ Jumped(l, k).name = l.name /\ Jumped(l, k).answer = l.answer
         /\ Jumped(l, k).hit = l.hit /\ Jumped(l, k).then = l.then /\ Jumped(l, k).ino = l.ino
         /\ LET j == IF k = 0 THEN 0 ELSE Index[img][k] - 1 IN
            /\ j \in Nat /\ EndsAt(j)
            /\ Jumped(l, k).at = Base + j * Item /\ Jumped(l, k).len = j * Item + Ahead
<1>0. Ahead \in Nat /\ Base \in Nat /\ Len(Index[img]) \in Nat /\ Len(Dir[img]) \in Nat
  BY Sizes, ImageOf
<1>1. CASE k = 0
  <2>1. Jumped(l, k) = [l EXCEPT !.len = Ahead, !.at = Base]
    BY <1>1 DEF Jumped
  <2>2. EndsAt(0)
    BY ImageOf DEF EndsAt
  <2>3. 0 * Item = 0
    BY Sizes
  <2>4. /\ Jumped(l, k) \in Locals
        /\ Jumped(l, k).name = l.name /\ Jumped(l, k).answer = l.answer
        /\ Jumped(l, k).hit = l.hit /\ Jumped(l, k).then = l.then /\ Jumped(l, k).ino = l.ino
        /\ Jumped(l, k).at = Base /\ Jumped(l, k).len = Ahead
    BY <1>0, <2>1 DEF Locals
  <2>5. Base = Base + 0 * Item /\ Ahead = 0 * Item + Ahead
    BY <1>0, <2>3
  <2> QED BY <1>1, <2>2, <2>4, <2>5
<1>2. CASE k # 0
  <2> DEFINE j == Index[img][k] - 1
  <2>1. k \in Indexes
    BY <1>0, <1>2 DEF Indexes
  <2>2. j \in Nat /\ EndsAt(j)
    <3>1. Index[img][k] \in 1 .. Len(Dir[img]) - 1 /\ Dir[img][Index[img][k]] = 0
      BY <2>1, ImageOf
    <3>2. j \in Nat /\ j + 1 = Index[img][k] /\ j < Len(Dir[img])
      BY <3>1, <1>0
    <3> HIDE DEF j
    <3> QED BY <3>1, <3>2 DEF EndsAt
  <2>3. j * Item \in Nat /\ Place(k) = j * Item
    BY <2>2, Sizes, Multiple DEF Place
  <2> HIDE DEF j
  <2>4. Landing(k) = Base + j * Item
    <3>1. j * Item + Base \in Nat /\ Block \in Nat \ {0}
      BY <2>3, Sizes
    <3>2. ((j * Item + Base) \div Block) * Block + ((j * Item + Base) % Block) = j * Item + Base
      BY <3>1, BlocksAndRest
    <3> QED BY <2>3, <3>2, Sizes DEF Landing, StartBlock
  <2>5. Jumped(l, k) = [l EXCEPT !.len = j * Item + Ahead, !.at = Base + j * Item]
    BY <1>2, <2>3, <2>4 DEF Jumped
  <2>6. Base + j * Item \in Nat /\ j * Item + Ahead \in Nat
    BY <1>0, <2>3
  <2>7. /\ Jumped(l, k) \in Locals
        /\ Jumped(l, k).name = l.name /\ Jumped(l, k).answer = l.answer
        /\ Jumped(l, k).hit = l.hit /\ Jumped(l, k).then = l.then /\ Jumped(l, k).ino = l.ino
        /\ Jumped(l, k).at = Base + j * Item /\ Jumped(l, k).len = j * Item + Ahead
    BY <2>5, <2>6 DEF Locals
  <2> QED BY <1>2, <2>2, <2>7 DEF j
<1> QED BY <1>1, <1>2
-------------------------------------------------------------------------------
(* Threads at work                                                         *)

Stages == Ops \cup {"idle", "failed"}

\* What an operation does to its own thread: the inodes stay as they are.
Arrives(h, p, l) ==
  /\ pc' = [pc EXCEPT ![h] = p] /\ t' = [t EXCEPT ![h] = l]
  /\ Placed(p, l) /\ Seeks(p, l)
  /\ p \in Reading <=> pc[h] \in Reading
  /\ p \in Reading => l.ino = t[h].ino
Advances(h) == \E p \in Stages : \E l \in Locals : Arrives(h, p, l)

\* What holds of a thread's place does not change with another's step.
LEMMA PlaceKept ==
  ASSUME NEW p, NEW l, UNCHANGED <<img, icache>>, Placed(p, l), Seeks(p, l)
  PROVE  Placed(p, l)' /\ Seeks(p, l)'
<1>1. Placed(p, l)'
  BY DEF Placed, Reachable
<1>2. AtHeader(l)' = AtHeader(l) /\ AtEntry(l)' = AtEntry(l) /\ Answered(l)' = Answered(l)
  BY DEF AtHeader, AtEntry, Answered, AtItem, EndsAt, Ahead, V3
<1>3. Seeks(p, l)'
  BY <1>2 DEF Seeks
<1> QED BY <1>1, <1>3

\* A thread that advances leaves the others and the inodes as they were.
LEMMA AdvanceKeeps ==
  ASSUME Types, Threads, Readers, NEW h \in Thread, UNCHANGED <<img, icache>>, Advances(h)
  PROVE  /\ pc' \in [Thread -> Stages] /\ t' \in [Thread -> Locals]
         /\ Threads' /\ Readers'
<1>1. PICK p \in Stages, l \in Locals : Arrives(h, p, l)
  BY DEF Advances
<1>2. /\ pc' = [pc EXCEPT ![h] = p] /\ t' = [t EXCEPT ![h] = l]
      /\ pc \in [Thread -> Stages] /\ t \in [Thread -> Locals]
  BY <1>1 DEF Arrives, Types, Stages
<1>3. /\ pc'[h] = p /\ t'[h] = l
      /\ \A q \in Thread \ {h} : pc'[q] = pc[q] /\ t'[q] = t[q]
      /\ pc' \in [Thread -> Stages] /\ t' \in [Thread -> Locals]
  BY <1>2
<1>4. Threads'
  <2> SUFFICES ASSUME NEW q \in Thread
               PROVE  (Placed(pc[q], t[q]) /\ Seeks(pc[q], t[q]))'
    BY DEF Threads
  <2>1. CASE q = h
    <3>1. Placed(p, l)' /\ Seeks(p, l)'
      BY <1>1, PlaceKept DEF Arrives
    <3> QED BY <1>3, <2>1, <3>1 DEF Placed, Seeks
  <2>2. CASE q # h
    <3>1. Placed(pc[q], t[q]) /\ Seeks(pc[q], t[q])
      BY DEF Threads
    <3> DEFINE pq == pc[q]
               lq == t[q]
    <3>2. pc'[q] = pq /\ t'[q] = lq
      BY <1>3, <2>2
    <3> QED BY <3>1, <3>2 DEF Placed, Seeks, Reachable, AtHeader, AtEntry, Answered, AtItem, EndsAt, Ahead, V3
  <2> QED BY <2>1, <2>2
<1>5. Readers'
  <2>1. \A q \in Thread : /\ pc'[q] \in Reading <=> pc[q] \in Reading
                          /\ pc[q] \in Reading => t'[q].ino = t[q].ino
    BY <1>1, <1>3 DEF Arrives
  <2> QED BY <2>1 DEF Readers
<1> QED BY <1>3, <1>4, <1>5

\* A read or an allocation that fails takes its thread out.
LEMMA FaultAdvances ==
  ASSUME Types, Threads, NEW h \in Thread, img \in Image,
         NEW s \in {"listed", "looked", "exported", "failed"}, FaultTo(h, s),
         s = "looked" => t[h].name \in Name,
         s = "failed" <=> pc[h] \in Reading
  PROVE  Advances(h)
<1> DEFINE l == [t[h] EXCEPT !.hit = TRUE]
<1>1. /\ l \in Locals /\ s \in Stages /\ t[h] \in Locals
      /\ pc' = [pc EXCEPT ![h] = s] /\ t' = [t EXCEPT ![h] = l]
      /\ l.name = t[h].name /\ l.ino = t[h].ino /\ l.then = t[h].then /\ l.hit = TRUE
  BY DEF Types, Locals, FaultTo, Goto, Set, Stages, Ops
<1>2. Placed(pc[h], t[h]) /\ Seeks(pc[h], t[h]) /\ None \notin Image
  BY SDAssumption DEF Threads
<1> HIDE DEF l
<1>3. Placed(s, l) /\ Seeks(s, l)
  BY <1>1, <1>2 DEF Placed, Seeks, Got, Reading
<1>4. Arrives(h, s, l)
  BY <1>1, <1>3 DEF Arrives, Reading
<1> QED BY <1>1, <1>4 DEF Advances

\* A thread that goes on with the same locals.
LEMMA GotoAdvances ==
  ASSUME Types, NEW h \in Thread, NEW s \in Stages, Goto(h, s), UNCHANGED t,
         Placed(s, t[h]), Seeks(s, t[h]), s \in Reading <=> pc[h] \in Reading
  PROVE  Advances(h)
<1>1. t[h] \in Locals /\ t' = [t EXCEPT ![h] = t[h]]
  BY DEF Types
<1>2. Arrives(h, s, t[h])
  BY <1>1 DEF Arrives, Goto
<1> QED BY <1>1, <1>2 DEF Advances

\* A thread that goes on to s with locals l.
LEMMA SetAdvances ==
  ASSUME Types, NEW h \in Thread, NEW s \in Stages, NEW l \in Locals,
         Goto(h, s) \/ (s = pc[h] /\ UNCHANGED pc), Set(h, l),
         Placed(s, l), Seeks(s, l), s \notin Reading, pc[h] \notin Reading
  PROVE  Advances(h)
<1>1. pc' = [pc EXCEPT ![h] = s]
  BY DEF Goto, Types
<1>2. Arrives(h, s, l)
  BY <1>1 DEF Arrives, Set
<1> QED BY <1>2 DEF Advances

\* A thread at rest, before or after an operation.
LEMMA Fresh ==
  NoLocals \in Locals
BY DEF NoLocals, Locals, Answer

\* The search in the index.
LEMMA SearchAdvances ==
  ASSUME Types, Threads, NEW h \in Thread, img \in Image, NEW fits,
         NEW next \in {"header", "lheader"}, Search(h, fits, next),
         pc[h] \notin Reading,
         next = "lheader" => /\ t[h].name \in Name /\ t[h].answer = "none"
                             /\ fits = {k \in Indexes : FirstName(k) <= t[h].name}
  PROVE  Advances(h)
<1> DEFINE n == Len(Index[img])
           most == Cardinality({k \in Indexes : 1 .. k \subseteq fits})
           seen == Cardinality({k \in Indexes : k <= most + 1})
<1>0. n \in Nat /\ t[h] \in Locals /\ None \notin Image
  BY ImageOf, SDAssumption DEF Types
<1>1. most \in 0 .. n /\ (most # 0 => most \in fits)
  <2> DEFINE F == fits
  <2>1. {k \in Indexes : 1 .. k \subseteq fits} = Run(0, n, F)
    BY <1>0 DEF Run, Indexes
  <2>2. most = Length(0, n, F)
    BY <2>1 DEF Length
  <2> HIDE DEF n, most, F
  <2>3. /\ Length(0, n, F) \in Nat /\ Length(0, n, F) <= n
        /\ \A i \in Nat : 0 < i /\ i <= 0 + Length(0, n, F) => i \in F
    BY <1>0, RunLength
  <2> QED BY <1>0, <2>2, <2>3 DEF F
<1>2. seen \in 0 .. n
  <2>1. IsFiniteSet(Indexes) /\ Cardinality(Indexes) = n
    BY <1>0, FS_Interval DEF Indexes
  <2>2. {k \in Indexes : k <= most + 1} \in SUBSET Indexes
    OBVIOUS
  <2> HIDE DEF most, n
  <2> QED BY <1>0, <2>1, <2>2, FS_Subset, FS_CardinalityType
<1>3. \/ Set(h, Jumped(t[h], most)) /\ Goto(h, next)
      \/ \E k \in 0 .. seen - 1 : Set(h, [Jumped(t[h], k) EXCEPT !.hit = TRUE]) /\ Goto(h, next)
      \/ /\ Set(h, [t[h] EXCEPT !.hit = TRUE, !.answer = "any"])
         /\ Goto(h, IF next = "header" THEN "listed" ELSE "looked")
  BY DEF Search
<1> HIDE DEF most, seen, n
<1>4. CASE Set(h, Jumped(t[h], most)) /\ Goto(h, next)
  <2> DEFINE l == Jumped(t[h], most)
             j == IF most = 0 THEN 0 ELSE Index[img][most] - 1
  <2>1. /\ l \in Locals /\ l.name = t[h].name /\ l.answer = t[h].answer
        /\ j \in Nat /\ EndsAt(j) /\ l.at = Base + j * Item /\ l.len = j * Item + Ahead
    BY <1>0, <1>1, JumpedTo DEF n
  <2>2. ASSUME next = "lheader"
        PROVE  \A i \in 1 .. j : Dir[img][i] # l.name
    <3>1. CASE most = 0
      BY <3>1
    <3>2. CASE most # 0
      <4> DEFINE k == Index[img][most]
      <4>1. most \in Indexes /\ FirstName(most) <= t[h].name
        BY <1>1, <2>2, <3>2
      <4>2. /\ k \in 1 .. Len(Dir[img]) - 1 /\ Dir[img][k + 1] # 0
            /\ Len(Dir[img]) \in Nat /\ DOMAIN Dir[img] = 1 .. Len(Dir[img])
        BY <4>1, ImageOf
      <4>3. Ascending(Dir[img])
        <5>1. Index[img] # <<>>
          BY <4>1, ImageOf DEF Indexes
        <5> QED BY <5>1, SDImages
      <4>4. Dir[img][k + 1] <= t[h].name /\ Dir[img][k + 1] \in Nat
        <5>1. Dir[img][k + 1] \in DOMAIN Ino
          BY <4>2, NameOf
        <5> QED BY <4>1, <5>1, SDAssumption DEF FirstName
      <4>5. j = k - 1
        BY <3>2
      <4> HIDE DEF k
      <4>6. ASSUME NEW i \in 1 .. j, Dir[img][i] = t[h].name PROVE FALSE
        <5>1. i \in DOMAIN Dir[img] /\ k + 1 \in DOMAIN Dir[img] /\ i < k + 1
          BY <4>2, <4>5
        <5>2. Dir[img][i] # 0 /\ Dir[img][i] \in Nat
          BY <4>6, <2>2, Sizes
        <5>3. Dir[img][i] < Dir[img][k + 1]
          BY <4>2, <4>3, <5>1, <5>2 DEF Ascending
        <5> QED BY <4>4, <4>6, <5>2, <5>3
      <4> QED BY <2>1, <4>6
    <3> QED BY <3>1, <3>2
  <2> HIDE DEF l, j
  <2>3. next = "lheader" => AtHeader(l)
    <3>1. j \in 0 .. Len(Dir[img])
      BY <2>1, ImageOf DEF EndsAt
    <3> QED BY <2>1, <2>2, <3>1 DEF AtHeader, AtItem
  <2>4. Placed(next, l) /\ Seeks(next, l) /\ next \in Stages /\ next \notin Reading
    BY <1>0, <2>1, <2>3 DEF Placed, Seeks, Got, Reading, Stages, Ops
  <2>5. Set(h, l) /\ Goto(h, next)
    BY <1>4 DEF l
  <2> QED BY <2>1, <2>4, <2>5, SetAdvances
<1>5. ASSUME NEW k \in 0 .. seen - 1, Set(h, [Jumped(t[h], k) EXCEPT !.hit = TRUE]), Goto(h, next)
      PROVE  Advances(h)
  <2> DEFINE m == Jumped(t[h], k)
             l == [m EXCEPT !.hit = TRUE]
  <2>1. m \in Locals /\ m.name = t[h].name /\ m.answer = t[h].answer
    <3>1. k \in 0 .. n
      BY <1>0, <1>2
    <3> QED BY <1>0, <3>1, JumpedTo DEF n
  <2>2. Set(h, l)
    BY <1>5
  <2> HIDE DEF m
  <2>3. l \in Locals /\ l.name = t[h].name /\ l.answer = t[h].answer /\ l.hit = TRUE
    BY <2>1 DEF Locals
  <2> HIDE DEF l
  <2>4. Placed(next, l) /\ Seeks(next, l) /\ next \in Stages /\ next \notin Reading
    BY <1>0, <2>3 DEF Placed, Seeks, Got, Reading, Stages, Ops
  <2> QED BY <1>5, <2>2, <2>3, <2>4, SetAdvances
<1>6. CASE /\ Set(h, [t[h] EXCEPT !.hit = TRUE, !.answer = "any"])
           /\ Goto(h, IF next = "header" THEN "listed" ELSE "looked")
  <2> DEFINE l == [t[h] EXCEPT !.hit = TRUE, !.answer = "any"]
             s == IF next = "header" THEN "listed" ELSE "looked"
  <2>1. l \in Locals /\ l.name = t[h].name /\ l.hit = TRUE
    BY <1>0 DEF Locals, Answer
  <2>2. Set(h, l) /\ Goto(h, s)
    BY <1>6
  <2> HIDE DEF l
  <2>3. Placed(s, l) /\ Seeks(s, l) /\ s \in Stages /\ s \notin Reading
    BY <1>0, <2>1 DEF Placed, Seeks, Got, Reading, Stages, Ops
  <2> HIDE DEF s
  <2> QED BY <2>1, <2>2, <2>3, SetAdvances
<1> QED BY <1>3, <1>4, <1>5, <1>6
-------------------------------------------------------------------------------
(* The operations                                                          *)

\* A thread that is in a call works on a mounted image.
LEMMA Working ==
  ASSUME Types, Threads, NEW h \in Thread, pc[h] # "idle" \/ img # None
  PROVE  /\ img \in Image /\ None \notin Image /\ t[h] \in Locals /\ Ahead \in Nat
         /\ Placed(pc[h], t[h]) /\ Seeks(pc[h], t[h])
<1>1. img # None
  BY DEF Threads, Placed
<1> QED BY <1>1, SDAssumption, ImageOf DEF Types, Threads

\* readdir, up to the first header.
LEMMA ReaddirAdvances ==
  ASSUME Types, Threads, NEW h \in Thread, Readdir(h)
  PROVE  Advances(h)
<1>0. img \in Image /\ None \notin Image /\ t[h] \in Locals /\ pc[h] = "idle"
  BY Working DEF Readdir
<1>1. ASSUME Set(h, NoLocals), NEW s \in {"dots", "offset"}, Goto(h, s)
      PROVE  Advances(h)
  <2>1. Placed(s, NoLocals) /\ Seeks(s, NoLocals) /\ s \in Stages /\ s \notin Reading
    BY <1>0 DEF Placed, Seeks, Got, Reading, Stages, Ops
  <2> QED BY <1>0, <1>1, <2>1, Fresh, SetAdvances DEF Reading
<1>2. CASE FaultTo(h, "listed")
  BY <1>0, <1>2, FaultAdvances DEF Reading
<1> QED BY <1>1, <1>2 DEF Readdir

\* What filldir says moves the thread on or ends the listing.
LEMMA FilldirAdvances ==
  ASSUME Types, Threads, NEW h \in Thread, NEW n, NEW pos \in Nat, NEW l \in Locals,
         pc[h] \in {"dots", "entry"}, Filldir(h, n, pos, l)
  PROVE  Advances(h) /\ fpos' \in Nat
<1>0. img \in Image /\ None \notin Image /\ t[h] \in Locals
  BY Working
<1>1. CASE fpos' = pos /\ Set(h, l) /\ UNCHANGED pc
  <2>1. Placed(pc[h], l) /\ Seeks(pc[h], l) /\ pc[h] \in Stages /\ pc[h] \notin Reading
    BY <1>0 DEF Placed, Seeks, Got, Reading, Stages, Ops
  <2> QED BY <1>1, <2>1, SetAdvances
<1>2. CASE Set(h, [t[h] EXCEPT !.full = TRUE]) /\ Goto(h, "listed") /\ UNCHANGED fpos
  <2> DEFINE m == [t[h] EXCEPT !.full = TRUE]
  <2>1. m \in Locals
    BY <1>0 DEF Locals
  <2>2. Set(h, m)
    BY <1>2
  <2> HIDE DEF m
  <2>3. Placed("listed", m) /\ Seeks("listed", m) /\ "listed" \in Stages /\ "listed" \notin Reading
    BY <1>0 DEF Placed, Seeks, Got, Reading, Stages, Ops
  <2>4. Advances(h)
    BY <1>2, <2>1, <2>2, <2>3, SetAdvances DEF Reading
  <2> QED BY <1>2, <2>4 DEF Types
<1> QED BY <1>1, <1>2 DEF Filldir

\* The two dots of a listing.
LEMMA DotsAdvances ==
  ASSUME Types, Threads, NEW h \in Thread, Dots(h)
  PROVE  Advances(h) /\ fpos' \in Nat
<1>1. fpos \in Nat /\ t[h] \in Locals
  BY DEF Types
<1>2. fpos + 2 \in Nat
  BY <1>1
<1>3. \/ Filldir(h, Dot, 1, t[h])
      \/ Filldir(h, Dotdot, fpos + 2, t[h])
  BY DEF Dots
<1> QED BY <1>1, <1>2, <1>3, FilldirAdvances DEF Dots

\* A jump to the start of the directory.
LEMMA StartAdvances ==
  ASSUME Types, Threads, NEW h \in Thread, pc[h] \in {"dots", "offset", "name"},
         Set(h, Jumped(t[h], 0)), NEW s \in {"header", "lheader"}, Goto(h, s),
         s = "lheader" => pc[h] = "name"
  PROVE  Advances(h)
<1>0. /\ img \in Image /\ None \notin Image /\ t[h] \in Locals /\ Seeks(pc[h], t[h])
      /\ Len(Dir[img]) \in Nat /\ 0 \in 0 .. Len(Index[img]) /\ Ahead \in Nat
  BY Working, ImageOf
<1> DEFINE l == Jumped(t[h], 0)
<1>1. /\ l \in Locals /\ l.name = t[h].name /\ l.answer = t[h].answer
      /\ EndsAt(0) /\ l.at = Base + 0 * Item /\ l.len = 0 * Item + Ahead
  BY <1>0, JumpedTo
<1>2. Set(h, l)
  OBVIOUS
<1> HIDE DEF l
<1>3. AtHeader(l)
  BY <1>0, <1>1 DEF AtHeader, AtItem
<1>4. Placed(s, l) /\ Seeks(s, l) /\ s \in Stages /\ s \notin Reading
  BY <1>0, <1>1, <1>3 DEF Placed, Seeks, Got, Reading, Stages, Ops
<1> QED BY <1>1, <1>2, <1>4, SetAdvances DEF Reading

\* The way to the first header of a listing.
LEMMA UsingOffsetAdvances ==
  ASSUME Types, Threads, NEW h \in Thread, UsingOffset(h)
  PROVE  Advances(h)
<1>0. pc[h] \in {"dots", "offset"} /\ img \in Image /\ pc[h] \notin Reading
  BY Working DEF UsingOffset, Reading
<1>1. CASE Set(h, Jumped(t[h], 0)) /\ Goto(h, "header")
  BY <1>0, <1>1, StartAdvances
<1>2. CASE Search(h, {k \in Indexes : Place(k) <= fpos - Ahead}, "header")
  BY <1>0, <1>2, SearchAdvances
<1> QED BY <1>1, <1>2 DEF UsingOffset

\* A thread that goes on by an item.
LEMMA Moved ==
  ASSUME NEW l \in Locals, NEW c \in Nat
  PROVE  LET m == [l EXCEPT !.left = c, !.len = @ + Item, !.at = @ + Item] IN
         /\ m \in Locals /\ m.name = l.name /\ m.answer = l.answer /\ m.hit = l.hit
         /\ m.left = c /\ m.len = l.len + Item /\ m.at = l.at + Item
<1>1. l.len + Item \in Nat /\ l.at + Item \in Nat
  BY Sizes DEF Locals
<1> DEFINE x == l.len + Item
           y == l.at + Item
<1> HIDE DEF x, y
<1>2. LET m == [l EXCEPT !.left = c, !.len = x, !.at = y] IN
      /\ m \in Locals /\ m.name = l.name /\ m.answer = l.answer /\ m.hit = l.hit
      /\ m.left = c /\ m.len = x /\ m.at = y
  BY <1>1 DEF Locals, x, y
<1> QED BY <1>2 DEF x, y

\* A header, of a listing or of a lookup.
LEMMA HeaderAdvances ==
  ASSUME Types, Threads, NEW h \in Thread,
         Header(h, "header", "entry", "listed") \/ Header(h, "lheader", "lentry", "looked")
  PROVE  Advances(h)
<1> DEFINE l == [t[h] EXCEPT !.left = Count(t[h].at), !.len = @ + Item, !.at = @ + Item]
<1>0. /\ img \in Image /\ None \notin Image /\ t[h] \in Locals /\ Ahead \in Nat
      /\ Placed(pc[h], t[h]) /\ Seeks(pc[h], t[h]) /\ pc[h] \in {"header", "lheader"}
      /\ Item \in Nat \ {0} /\ Base \in Nat
  BY Working, Sizes DEF Header
<1>1. PICK from \in {"header", "lheader"} :
        LET to == IF from = "header" THEN "entry" ELSE "lentry"
            done == IF from = "header" THEN "listed" ELSE "looked" IN
        /\ pc[h] = from
        /\ \/ t[h].len >= Size /\ Goto(h, done) /\ UNCHANGED t
           \/ t[h].len < Size /\ Set(h, l) /\ Goto(h, to)
           \/ FaultTo(h, done)
  <2>0. Size \in Int /\ t[h].len \in Int
    BY <1>0, ImageOf DEF Size, Locals
  <2>1. CASE Header(h, "header", "entry", "listed")
    BY <2>0, <2>1 DEF Header
  <2>2. CASE Header(h, "lheader", "lentry", "looked")
    BY <2>0, <2>2 DEF Header
  <2> QED BY <2>1, <2>2
<1> DEFINE to == IF from = "header" THEN "entry" ELSE "lentry"
           done == IF from = "header" THEN "listed" ELSE "looked"
<1>2. /\ to \in Stages /\ done \in {"listed", "looked"} /\ done \in Stages
      /\ to \notin Reading /\ done \notin Reading /\ from \notin Reading
  BY DEF Stages, Ops, Reading
<1>3. Len(Dir[img]) \in Nat
  BY <1>0, ImageOf
\* An unfaulted lookup's header is header q + 1 of the directory, or its end.
<1>4. ASSUME from = "lheader", ~t[h].hit
      PROVE  \E q \in 0 .. Len(Dir[img]) : AtItem(t[h], q) /\ EndsAt(q)
  BY <1>0, <1>1, <1>4 DEF Seeks, AtHeader
<1>5. CASE t[h].len >= Size /\ Goto(h, done) /\ UNCHANGED t
  <2>1. from = "lheader" /\ ~t[h].hit => Answered(t[h])
    <3> SUFFICES ASSUME from = "lheader", ~t[h].hit PROVE Answered(t[h])
      OBVIOUS
    <3>1. PICK q \in 0 .. Len(Dir[img]) : AtItem(t[h], q) /\ EndsAt(q)
      BY <1>4
    <3>2. q = Len(Dir[img])
      <4>1. q * Item + Ahead >= Len(Dir[img]) * Item + Ahead
        BY <1>5, <3>1 DEF AtItem, Size
      <4>2. q * Item \in Int /\ Len(Dir[img]) * Item \in Int /\ q \in Nat
        BY <1>0, <1>3
      <4>3. q * Item >= Len(Dir[img]) * Item
        BY <1>0, <4>1, <4>2
      <4>4. ~(q < Len(Dir[img]))
        BY <1>0, <1>3, <4>2, <4>3
      <4> QED BY <1>3, <4>4
    <3>3. t[h].name \notin Range(Dir[img])
      BY <1>0, <3>1, <3>2, ImageOf DEF AtItem, Range
    <3>4. t[h].answer = "none"
      BY <1>0, <1>1 DEF Seeks
    <3> QED BY <3>3, <3>4 DEF Answered
  <2>2. Placed(done, t[h]) /\ Seeks(done, t[h])
    BY <1>0, <1>1, <1>2, <2>1 DEF Placed, Seeks, Got, Reading
  <2> HIDE DEF done, to
  <2> QED BY <1>1, <1>2, <1>5, <2>2, GotoAdvances
<1>6. CASE t[h].len < Size /\ Set(h, l) /\ Goto(h, to)
  <2>0. Count(t[h].at) \in Nat
    BY <1>0, CountNat DEF Locals
  <2>1. /\ l \in Locals /\ l.name = t[h].name /\ l.answer = t[h].answer /\ l.hit = t[h].hit
        /\ l.left = Count(t[h].at) /\ l.len = t[h].len + Item /\ l.at = t[h].at + Item
    BY <1>0, <2>0, Moved
  <2>2. Set(h, l)
    BY <1>6
  <2> HIDE DEF l
  <2>3. from = "lheader" /\ ~l.hit => AtEntry(l)
    <3> SUFFICES ASSUME from = "lheader", ~l.hit PROVE AtEntry(l)
      OBVIOUS
    <3>1. PICK q \in 0 .. Len(Dir[img]) : AtItem(t[h], q) /\ EndsAt(q)
      BY <1>4, <2>1
    <3>2. q < Len(Dir[img]) /\ q \in Nat
      <4>1. q * Item + Ahead < Len(Dir[img]) * Item + Ahead
        BY <1>6, <3>1 DEF AtItem, Size
      <4>2. q * Item \in Int /\ Len(Dir[img]) * Item \in Int /\ q \in Nat
        BY <1>0, <1>3
      <4>3. q * Item < Len(Dir[img]) * Item
        BY <1>0, <4>1, <4>2
      <4>4. q # Len(Dir[img])
        BY <4>2, <4>3
      <4> QED BY <1>3, <4>2, <4>4
    <3>3. /\ EndsAt(q + 1 + l.left) /\ \A i \in q + 2 .. q + 1 + l.left : Dir[img][i] # 0
      BY <1>0, <2>1, <3>1, <3>2, CountRead DEF AtItem
    <3>4. Dir[img][q + 1] = 0
      BY <3>1, <3>2 DEF EndsAt
    <3>5. AtItem(l, q + 1)
      <4>1. (q + 1) * Item = q * Item + Item /\ q * Item \in Nat
        BY <1>0, <3>2
      <4>2. l.at = Base + (q + 1) * Item /\ l.len = (q + 1) * Item + Ahead
        <5> DEFINE x == q * Item
        <5>1. x \in Nat /\ t[h].at = Base + x /\ t[h].len = x + Ahead /\ (q + 1) * Item = x + Item
          BY <3>1, <4>1 DEF AtItem
        <5> HIDE DEF x
        <5> QED BY <1>0, <2>1, <5>1
      <4>3. l.name # 0
        BY <1>0, <1>1, <2>1, Sizes DEF Seeks
      <4>4. \A i \in 1 .. q + 1 : Dir[img][i] # l.name
        BY <2>1, <3>1, <3>2, <3>4, <4>3 DEF AtItem
      <4> QED BY <4>2, <4>4 DEF AtItem
    <3>6. \A i \in (q + 1) + 1 .. (q + 1) + l.left : Dir[img][i] # 0
      BY <3>2, <3>3
    <3>7. q + 1 \in 0 .. Len(Dir[img])
      BY <1>3, <3>2
    <3> QED BY <3>3, <3>5, <3>6, <3>7 DEF AtEntry
  <2>4. Placed(to, l) /\ Seeks(to, l)
    BY <1>0, <1>1, <2>1, <2>3 DEF Placed, Seeks, Got, Reading
  <2> HIDE DEF done, to
  <2> QED BY <1>1, <1>2, <1>6, <2>1, <2>2, <2>4, SetAdvances
<1>7. CASE FaultTo(h, done)
  <2>1. done = "looked" => t[h].name \in Name
    BY <1>0, <1>1 DEF Seeks
  <2> HIDE DEF done
  <2> QED BY <1>0, <1>1, <1>2, <1>7, <2>1, FaultAdvances
<1> HIDE DEF l
<1> QED BY <1>1, <1>5, <1>6, <1>7

\* A thread that passes a name.
LEMMA PassedOn ==
  ASSUME NEW h \in Thread, t[h] \in Locals, t[h].left > 0
  PROVE  /\ Passed(h) \in Locals /\ Passed(h).name = t[h].name
         /\ Passed(h).answer = t[h].answer /\ Passed(h).hit = t[h].hit
         /\ Passed(h).left = t[h].left - 1
         /\ Passed(h).len = t[h].len + Item /\ Passed(h).at = t[h].at + Item
<1> DEFINE l == t[h]
           x == l.len + Item
           y == l.at + Item
           z == l.left - 1
<1>1. x \in Nat /\ y \in Nat /\ z \in Nat
  BY Sizes DEF Locals
<1>2. Passed(h) = [l EXCEPT !.len = x, !.at = y, !.left = z] /\ l \in Locals
  BY DEF Passed
<1>3. /\ x = t[h].len + Item /\ y = t[h].at + Item /\ z = t[h].left - 1
      /\ l.name = t[h].name /\ l.answer = t[h].answer /\ l.hit = t[h].hit
  OBVIOUS
<1> HIDE DEF x, y, z, l
<1>4. LET m == [l EXCEPT !.len = x, !.at = y, !.left = z] IN
      /\ m \in Locals /\ m.name = l.name /\ m.answer = l.answer /\ m.hit = l.hit
      /\ m.left = z /\ m.len = x /\ m.at = y
  BY <1>1, <1>2 DEF Locals
<1> QED BY <1>2, <1>3, <1>4

\* The names of a header are done: the next header, or the end.
LEMMA EndOfHeaderAdvances ==
  ASSUME Types, Threads, NEW h \in Thread,
         EndOfHeader(h, "entry", "header") \/ EndOfHeader(h, "lentry", "lheader")
  PROVE  Advances(h)
<1>0. pc[h] \in {"entry", "lentry"} /\ t[h].left = 0 /\ UNCHANGED t
  BY DEF EndOfHeader
<1>1. /\ img \in Image /\ t[h] \in Locals /\ None \notin Image
      /\ Placed(pc[h], t[h]) /\ Seeks(pc[h], t[h])
  BY <1>0, Working
<1>2. PICK s \in {"header", "lheader"} :
        Goto(h, s) /\ pc[h] = IF s = "header" THEN "entry" ELSE "lentry"
  BY DEF EndOfHeader
<1>3. AtEntry(t[h]) => AtHeader(t[h])
  <2> SUFFICES ASSUME NEW j \in 0 .. Len(Dir[img]), AtItem(t[h], j), EndsAt(j + t[h].left)
               PROVE  AtHeader(t[h])
    BY DEF AtEntry
  <2>1. j + t[h].left = j
    BY <1>0, <1>1, ImageOf
  <2> QED BY <2>1 DEF AtHeader
<1>4. Placed(s, t[h]) /\ Seeks(s, t[h]) /\ s \in Stages /\ s \notin Reading /\ pc[h] \notin Reading
  BY <1>1, <1>2, <1>3 DEF Placed, Seeks, Got, Reading, Stages, Ops
<1> QED BY <1>0, <1>2, <1>4, GotoAdvances

\* An entry of a listing.
LEMMA EntryAdvances ==
  ASSUME Types, Threads, NEW h \in Thread, Entry(h)
  PROVE  Advances(h) /\ fpos' \in Nat
<1>0. pc[h] = "entry" /\ t[h].left > 0 /\ fpos \in Nat
  BY DEF Entry, Types
<1>1. img \in Image /\ t[h] \in Locals /\ None \notin Image
  BY <1>0, Working
<1>2. Passed(h) \in Locals
  BY <1>0, <1>1, PassedOn
<1>3. CASE FaultTo(h, "listed") /\ UNCHANGED fpos
  BY <1>0, <1>1, <1>3, FaultAdvances DEF Reading
<1>4. CASE Set(h, Passed(h)) /\ UNCHANGED fpos /\ UNCHANGED pc
  <2>1. /\ Placed("entry", Passed(h)) /\ Seeks("entry", Passed(h))
        /\ "entry" \in Stages /\ "entry" \notin Reading
    BY <1>1 DEF Placed, Seeks, Got, Reading, Stages, Ops
  <2> QED BY <1>0, <1>2, <1>4, <2>1, SetAdvances
<1>5. CASE Filldir(h, ItemAt(t[h].at), t[h].len + Item, Passed(h))
  <2>1. t[h].len + Item \in Nat
    BY <1>1, Sizes DEF Locals
  <2> QED BY <1>0, <1>2, <1>5, <2>1, FilldirAdvances
<1> QED BY <1>3, <1>4, <1>5 DEF Entry

\* lookup, up to the index.
LEMMA LookupAdvances ==
  ASSUME Types, Threads, NEW h \in Thread, Lookup(h)
  PROVE  Advances(h)
<1>0. img \in Image /\ None \notin Image /\ pc[h] = "idle"
  BY Working DEF Lookup
<1>1. PICK n \in Name, ok \in BOOLEAN :
        /\ Set(h, [NoLocals EXCEPT !.name = n, !.hit = ~ok])
        /\ IF ok THEN Goto(h, "name") ELSE Goto(h, "looked")
  BY DEF Lookup
<1> DEFINE l == [NoLocals EXCEPT !.name = n, !.hit = ~ok]
           s == IF ok THEN "name" ELSE "looked"
<1>2. l \in Locals /\ l.name = n /\ l.hit = ~ok /\ l.answer = "none"
  BY DEF NoLocals, Locals, Answer
<1>3. Set(h, l) /\ Goto(h, s)
  BY <1>1
<1> HIDE DEF l
<1>4. Placed(s, l) /\ Seeks(s, l) /\ s \in Stages /\ s \notin Reading /\ pc[h] \notin Reading
  BY <1>0, <1>2 DEF Placed, Seeks, Got, Reading, Stages, Ops
<1> HIDE DEF s
<1> QED BY <1>2, <1>3, <1>4, SetAdvances

\* The search for a name.
LEMMA UsingNameAdvances ==
  ASSUME Types, Threads, NEW h \in Thread, UsingName(h)
  PROVE  Advances(h)
<1>0. pc[h] = "name" /\ pc[h] \notin Reading
  BY DEF UsingName, Reading
<1>1. img \in Image /\ t[h].name \in Name /\ t[h].answer = "none"
  BY <1>0, Working DEF Seeks
<1>2. CASE Search(h, {k \in Indexes : FirstName(k) <= t[h].name}, "lheader")
  BY <1>0, <1>1, <1>2, SearchAdvances
<1>3. CASE Set(h, Jumped(t[h], 0)) /\ Goto(h, "lheader")
  BY <1>0, <1>3, StartAdvances
<1> QED BY <1>2, <1>3 DEF UsingName

\* A lookup that no read led astray is before a name of its directory.
LEMMA BeforeName ==
  ASSUME img \in Image, NEW l \in Locals, AtEntry(l), l.left > 0
  PROVE  \E j \in Nat :
           /\ j < Len(Dir[img]) /\ AtItem(l, j) /\ EndsAt(j + l.left)
           /\ \A i \in j + 1 .. j + l.left : Dir[img][i] # 0
           /\ ItemAt(l.at) = Dir[img][j + 1] /\ Dir[img][j + 1] # 0
<1>0. l.left \in Nat /\ Len(Dir[img]) \in Nat
  BY ImageOf DEF Locals
<1>1. PICK j \in 0 .. Len(Dir[img]) :
        /\ AtItem(l, j) /\ EndsAt(j + l.left)
        /\ \A i \in j + 1 .. j + l.left : Dir[img][i] # 0
  BY DEF AtEntry
<1>2. j + l.left <= Len(Dir[img]) /\ j \in Nat
  BY <1>0, <1>1 DEF EndsAt
<1>3. j < Len(Dir[img]) /\ Dir[img][j + 1] # 0
  BY <1>0, <1>1, <1>2
<1>4. ItemAt(Base + j * Item) = Dir[img][j + 1]
  BY <1>2, <1>3, ItemRead
<1>5. ItemAt(l.at) = Dir[img][j + 1]
  BY <1>1, <1>4 DEF AtItem
<1> QED BY <1>1, <1>2, <1>3, <1>5

\* A lookup that stops because a name is behind its own has not missed it: only sorted
\* directories are left early.
LEMMA BehindIsGone ==
  ASSUME Types, NEW h \in Thread, img \in Image, t[h] \in Locals, t[h].name \in Name,
         AtEntry(t[h]), t[h].left > 0, Behind(h, ItemAt(t[h].at))
  PROVE  t[h].name \notin Range(Dir[img])
<1> DEFINE l == t[h]
<1>1. PICK j \in Nat :
        /\ j < Len(Dir[img]) /\ AtItem(l, j)
        /\ ItemAt(l.at) = Dir[img][j + 1] /\ Dir[img][j + 1] # 0
  BY BeforeName
<1>2. Ascending(Dir[img])
  BY SDImages DEF Behind, Sorted
<1>3. /\ DOMAIN Dir[img] = 1 .. Len(Dir[img]) /\ Len(Dir[img]) \in Nat
      /\ j + 1 \in DOMAIN Dir[img]
  BY <1>1, ImageOf
<1>4. Dir[img][j + 1] \in 10 .. 99 /\ l.name \in 10 .. 99
  <2>1. Dir[img][j + 1] \in DOMAIN Ino
    BY <1>1, <1>3, NameOf
  <2> QED BY <2>1, SDAssumption
<1>5. l.name < Dir[img][j + 1]
  <2>1. l.name \div 10 < Dir[img][j + 1] \div 10
    BY <1>1 DEF Behind, First
  <2> DEFINE a == l.name
             b == Dir[img][j + 1]
  <2>2. a \in Nat /\ b \in Nat /\ a \div 10 < b \div 10
    BY <1>4, <2>1
  <2> HIDE DEF a, b
  <2>3. a < b
    BY <2>2
  <2> QED BY <2>3 DEF a, b
<1>6. ASSUME NEW i \in DOMAIN Dir[img], Dir[img][i] = l.name
      PROVE  FALSE
  <2>1. i > j
    BY <1>1, <1>3, <1>6 DEF AtItem
  <2>2. i # j + 1 /\ i \in Nat
    <3>1. l.name # Dir[img][j + 1]
      <4> DEFINE a == l.name
                 b == Dir[img][j + 1]
      <4>1. a \in 10 .. 99 /\ b \in 10 .. 99 /\ a < b
        BY <1>4, <1>5
      <4> HIDE DEF a, b
      <4>2. a # b
        BY <4>1
      <4> QED BY <4>2 DEF a, b
    <3> QED BY <1>3, <1>6, <3>1
  <2>3. j + 1 < i /\ Dir[img][i] # 0
    BY <1>4, <1>6, <2>1, <2>2
  <2>4. Dir[img][j + 1] < Dir[img][i]
    BY <1>1, <1>2, <1>3, <2>3 DEF Ascending
  <2> DEFINE a == l.name
             b == Dir[img][j + 1]
  <2>5. a \in 10 .. 99 /\ b \in 10 .. 99 /\ a < b /\ b < a
    BY <1>4, <1>5, <1>6, <2>4
  <2> HIDE DEF a, b
  <2> QED BY <2>5
<1> QED BY <1>6 DEF Range

\* An entry of a lookup.
LEMMA LookupEntryAdvances ==
  ASSUME Types, Threads, NEW h \in Thread, LookupEntry(h)
  PROVE  Advances(h)
<1> DEFINE n == ItemAt(t[h].at)
<1>0. pc[h] = "lentry" /\ t[h].left > 0 /\ pc[h] \notin Reading
  BY DEF LookupEntry, Reading
<1>1. /\ img \in Image /\ t[h] \in Locals /\ None \notin Image
      /\ t[h].name \in Name /\ t[h].answer = "none" /\ (~t[h].hit => AtEntry(t[h]))
  BY <1>0, Working DEF Seeks
<1>2. CASE FaultTo(h, "looked")
  BY <1>0, <1>1, <1>2, FaultAdvances
<1>3. CASE Behind(h, n) /\ Goto(h, "looked") /\ UNCHANGED t
  <2>1. ~t[h].hit => t[h].name \notin Range(Dir[img])
    BY <1>0, <1>1, <1>3, BehindIsGone
  <2>2. ~t[h].hit => Answered(t[h])
    BY <1>1, <2>1 DEF Answered
  <2>3. /\ Placed("looked", t[h]) /\ Seeks("looked", t[h])
        /\ "looked" \in Stages /\ "looked" \notin Reading
    BY <1>1, <2>2 DEF Placed, Seeks, Got, Reading, Stages, Ops
  <2> QED BY <1>0, <1>3, <2>3, GotoAdvances
<1>4. CASE n = t[h].name /\ Set(h, [t[h] EXCEPT !.ino = Ino[n], !.then = "looked"]) /\ Goto(h, "iget")
  <2> DEFINE l == [t[h] EXCEPT !.ino = Ino[n], !.then = "looked"]
  <2>1. n # 0
    BY <1>1, <1>4, Sizes
  <2>2. n \in Range(Dir[img]) \ {0} /\ n \in DOMAIN Ino
    BY <1>1, <2>1, ItemNamed
  <2>3. Ino[n] \in Reachable(img) /\ Ino[n] \in Inode
    BY <2>2 DEF Reachable, Inode, Range
  <2> HIDE DEF n
  <2>4. l \in Locals /\ l.name = t[h].name /\ l.ino = Ino[n] /\ l.then = "looked"
    BY <1>1, <2>3 DEF Locals
  <2>5. Set(h, l)
    BY <1>4
  <2> HIDE DEF l
  <2>6. Placed("iget", l) /\ Seeks("iget", l) /\ "iget" \in Stages /\ "iget" \notin Reading
    BY <1>1, <1>4, <2>2, <2>3, <2>4 DEF Placed, Seeks, Got, Reading, Stages, Ops
  <2> QED BY <1>0, <1>4, <2>4, <2>5, <2>6, SetAdvances
<1>5. CASE n # t[h].name /\ Set(h, Passed(h)) /\ UNCHANGED pc
  <2> DEFINE l == Passed(h)
  <2>1. /\ l \in Locals /\ l.name = t[h].name /\ l.answer = t[h].answer /\ l.hit = t[h].hit
        /\ l.left = t[h].left - 1 /\ l.len = t[h].len + Item /\ l.at = t[h].at + Item
    BY <1>0, <1>1, PassedOn
  <2>2. ASSUME ~t[h].hit PROVE AtEntry(l)
    <3>1. PICK j \in Nat :
            /\ j < Len(Dir[img]) /\ AtItem(t[h], j) /\ EndsAt(j + t[h].left)
            /\ \A i \in j + 1 .. j + t[h].left : Dir[img][i] # 0
            /\ n = Dir[img][j + 1] /\ Dir[img][j + 1] # 0
      BY <1>0, <1>1, <2>2, BeforeName
    <3>2. t[h].left \in Nat /\ Item \in Nat /\ Base \in Nat /\ Ahead \in Nat /\ Len(Dir[img]) \in Nat
      BY <1>1, Sizes, ImageOf DEF Locals
    <3> HIDE DEF l, n
    <3>3. AtItem(l, j + 1)
      <4>1. (j + 1) * Item = j * Item + Item /\ j * Item \in Nat
        BY <3>2
      <4>2. l.at = Base + (j + 1) * Item /\ l.len = (j + 1) * Item + Ahead
        <5> DEFINE x == j * Item
        <5>1. /\ x \in Nat /\ t[h].at = Base + x /\ t[h].len = x + Ahead
              /\ (j + 1) * Item = x + Item
          BY <3>1, <4>1 DEF AtItem
        <5> HIDE DEF x
        <5> QED BY <2>1, <3>2, <5>1
      <4>3. \A i \in 1 .. j + 1 : Dir[img][i] # l.name
        BY <1>5, <2>1, <3>1 DEF AtItem
      <4> QED BY <4>2, <4>3 DEF AtItem
    <3>4. (j + 1) + l.left = j + t[h].left /\ j + 1 \in 0 .. Len(Dir[img])
      BY <2>1, <3>1, <3>2
    <3>5. EndsAt((j + 1) + l.left)
      BY <3>1, <3>4
    <3>6. \A i \in (j + 1) + 1 .. (j + 1) + l.left : Dir[img][i] # 0
      BY <3>1, <3>4
    <3> QED BY <3>3, <3>4, <3>5, <3>6 DEF AtEntry
  <2> HIDE DEF l
  <2>3. Placed("lentry", l) /\ Seeks("lentry", l) /\ "lentry" \in Stages /\ "lentry" \notin Reading
    BY <1>1, <2>1, <2>2 DEF Placed, Seeks, Got, Reading, Stages, Ops
  <2>4. Set(h, l)
    BY <1>5 DEF l
  <2> QED BY <1>0, <1>5, <2>1, <2>3, <2>4, SetAdvances
<1> QED BY <1>2, <1>3, <1>4, <1>5 DEF LookupEntry

\* A call returns, and its thread rests.
LEMMA ReturnAdvances ==
  ASSUME Types, Threads, NEW h \in Thread, Return(h)
  PROVE  Advances(h) /\ dentry' \in [Name -> Answer \cup {"unknown", "negative"}]
<1>0. pc[h] \in {"listed", "looked", "exported"} /\ Set(h, NoLocals) /\ Goto(h, "idle")
  BY DEF Return
<1>1. /\ Placed("idle", NoLocals) /\ Seeks("idle", NoLocals)
      /\ "idle" \in Stages /\ "idle" \notin Reading /\ pc[h] \notin Reading
  BY <1>0 DEF Placed, Seeks, Got, Reading, Stages, Ops
<1>2. Advances(h)
  BY <1>0, <1>1, Fresh, SetAdvances
<1>3. dentry \in [Name -> Answer \cup {"unknown", "negative"}] /\ t[h].answer \in Answer
  BY DEF Types, Locals
<1>4. Added(t[h].answer) \in Answer \cup {"unknown", "negative"}
  BY <1>3 DEF Added
<1>5. dentry' = dentry \/ dentry' = [dentry EXCEPT ![t[h].name] = Added(t[h].answer)]
  BY DEF Return
<1> QED BY <1>2, <1>3, <1>4, <1>5

\* An inode by its number.
LEMMA ExportIgetAdvances ==
  ASSUME Types, Threads, NEW h \in Thread, ExportIget(h)
  PROVE  Advances(h)
<1>0. img \in Export /\ img \in Image /\ None \notin Image /\ pc[h] = "idle" /\ Goto(h, "table")
  BY SDAssumption DEF ExportIget, CanExport
<1>1. PICK i \in Inode : Set(h, [NoLocals EXCEPT !.ino = i, !.then = "exported"])
  BY DEF ExportIget
<1> DEFINE l == [NoLocals EXCEPT !.ino = i, !.then = "exported"]
<1>2. l \in Locals /\ l.ino = i /\ l.then = "exported"
  BY DEF NoLocals, Locals, Answer
<1>3. Set(h, l)
  BY <1>1
<1> HIDE DEF l
<1>4. /\ Placed("table", l) /\ Seeks("table", l)
      /\ "table" \in Stages /\ "table" \notin Reading /\ pc[h] \notin Reading
  BY <1>0, <1>2 DEF Placed, Seeks, Got, Reading, Stages, Ops, Reachable
<1> QED BY <1>0, <1>2, <1>3, <1>4, SetAdvances

\* The entry of the inode lookup table.
LEMMA InodeLookupAdvances ==
  ASSUME Types, Threads, NEW h \in Thread, InodeLookup(h)
  PROVE  Advances(h)
<1>0. pc[h] = "table" /\ pc[h] \notin Reading
  BY DEF InodeLookup, Reading
<1>1. /\ img \in Image /\ t[h] \in Locals /\ None \notin Image
      /\ Placed("table", t[h])
  BY <1>0, Working
<1>2. CASE Goto(h, "iget") /\ UNCHANGED t
  <2>1. /\ Placed("iget", t[h]) /\ Seeks("iget", t[h])
        /\ "iget" \in Stages /\ "iget" \notin Reading
    BY <1>1 DEF Placed, Seeks, Got, Reading, Stages, Ops
  <2> QED BY <1>0, <1>2, <2>1, GotoAdvances
<1>3. CASE FaultTo(h, "exported")
  BY <1>0, <1>1, <1>3, FaultAdvances
<1> QED BY <1>2, <1>3 DEF InodeLookup

\* squashfs_iget, but for a new inode.
LEMMA IgetAdvances ==
  ASSUME Types, Threads, Readers, NEW h \in Thread, Iget(h), UNCHANGED icache
  PROVE  Advances(h)
<1> DEFINE i == t[h].ino
<1>0. pc[h] = "iget" /\ pc[h] \notin Reading
  BY DEF Iget, Reading
<1>1. /\ img \in Image /\ t[h] \in Locals /\ None \notin Image
      /\ Placed("iget", t[h]) /\ Seeks("iget", t[h])
  BY <1>0, Working
<1>2. /\ i \in Reachable(img) /\ i \in Inode /\ t[h].then \in {"looked", "exported"}
      /\ t[h].then = "looked" =>
           t[h].name \in Name /\ t[h].name \in Range(Dir[img]) /\ i = Ino[t[h].name]
  BY <1>1, ReachableInode DEF Placed, Seeks, Got
<1>3. CASE FaultTo(h, t[h].then)
  BY <1>0, <1>1, <1>2, <1>3, FaultAdvances
<1>4. CASE Ready(i) /\ icache[i] # "absent" /\ Goto(h, t[h].then)
           /\ Set(h, [t[h] EXCEPT !.answer = icache[i]])
  <2> DEFINE l == [t[h] EXCEPT !.answer = icache[i]]
             s == t[h].then
  <2>1. icache[i] \in {"read", "half"} /\ (icache[i] = "half" => ~V3)
    BY <1>2, <1>4 DEF Types, Ready, Readers, V3
  <2>2. /\ l \in Locals /\ l.name = t[h].name /\ l.ino = i /\ l.then = s
        /\ l.answer = icache[i] /\ l.hit = t[h].hit
    BY <1>1, <2>1 DEF Locals, Answer
  <2>3. Set(h, l)
    BY <1>4
  <2> HIDE DEF l
  <2>4. s = "looked" => Answered(l)
    BY <1>2, <2>1, <2>2 DEF Answered
  <2>5. Placed(s, l) /\ Seeks(s, l) /\ s \in Stages /\ s \notin Reading
    BY <1>1, <1>2, <2>2, <2>4 DEF Placed, Seeks, Got, Reading, Stages, Ops
  <2> QED BY <1>0, <1>4, <2>2, <2>3, <2>5, SetAdvances
<1>5. CASE Goto(h, "await") /\ UNCHANGED t
  <2>1. /\ Placed("await", t[h]) /\ Seeks("await", t[h])
        /\ "await" \in Stages /\ "await" \notin Reading
    BY <1>1 DEF Placed, Seeks, Got, Reading, Stages, Ops
  <2> QED BY <1>0, <1>5, <2>1, GotoAdvances
<1>6. icache \in [Inode -> {"absent", "new", "read", "half"}]
  BY DEF Types
<1>7. ~(icache[i] = "absent" /\ icache' = [icache EXCEPT ![i] = "new"])
  BY <1>2, <1>6
<1> QED BY <1>3, <1>4, <1>5, <1>7 DEF Iget

\* Who reads an inode goes on reading it.
LEMMA ReadAdvances ==
  ASSUME Types, Threads, NEW h \in Thread, pc[h] \in Reading, NEW to \in Reading,
         to = "location" => Kind[t[h].ino] = "fragment",
         (Goto(h, to) /\ UNCHANGED t) \/ FaultTo(h, "failed")
  PROVE  Advances(h)
<1>1. /\ img \in Image /\ t[h] \in Locals /\ None \notin Image
      /\ Placed(pc[h], t[h]) /\ Seeks(pc[h], t[h])
  BY Working DEF Reading
<1>2. CASE Goto(h, to) /\ UNCHANGED t
  <2>1. Placed(to, t[h]) /\ Seeks(to, t[h]) /\ to \in Stages
    BY <1>1 DEF Placed, Seeks, Got, Reading, Stages, Ops
  <2> QED BY <1>2, <2>1, GotoAdvances
<1>3. CASE FaultTo(h, "failed")
  BY <1>1, <1>3, FaultAdvances
<1> QED BY <1>2, <1>3
\* The three reads of an inode.
LEMMA ReadsAdvance ==
  ASSUME Types, Threads, NEW h \in Thread, ReadBase(h) \/ ReadRest(h) \/ FragmentLocation(h)
  PROVE  Advances(h)
<1>1. CASE ReadBase(h)
  <2> DEFINE to == CASE Type(h) = "unknown" -> "failed"
                     [] Type(h) = "ipc" /\ ~V3 -> "unlock"
                     [] OTHER -> "rest"
  <2>1. to \in {"failed", "unlock", "rest"}
    OBVIOUS
  <2>2. pc[h] = "base" /\ ((Goto(h, to) /\ UNCHANGED t) \/ FaultTo(h, "failed"))
    BY <1>1 DEF ReadBase, ReadFrom
  <2> HIDE DEF to
  <2>3. pc[h] \in Reading /\ to \in Reading /\ to # "location"
    BY <2>1, <2>2 DEF Reading
  <2> QED BY <2>2, <2>3, ReadAdvances
<1>2. CASE ReadRest(h)
  <2> DEFINE to == IF Type(h) = "fragment" THEN "location" ELSE "unlock"
  <2>1. pc[h] = "rest" /\ ((Goto(h, to) /\ UNCHANGED t) \/ FaultTo(h, "failed"))
    BY <1>2 DEF ReadRest, ReadFrom
  <2>2. to \in Reading /\ (to = "location" => Kind[t[h].ino] = "fragment") /\ pc[h] \in Reading
    BY <2>1 DEF Type, Reading
  <2> HIDE DEF to
  <2> QED BY <2>1, <2>2, ReadAdvances
<1>3. CASE FragmentLocation(h)
  <2>1. pc[h] = "location" /\ ((Goto(h, "unlock") /\ UNCHANGED t) \/ FaultTo(h, "failed"))
    BY <1>3 DEF FragmentLocation, ReadFrom
  <2> QED BY <2>1, ReadAdvances DEF Reading
<1> QED BY <1>1, <1>2, <1>3

\* A new inode has one reader, and nobody was given the inode before.
LEMMA NewInode ==
  ASSUME Types, Threads, Readers, NEW h \in Thread, pc[h] = "iget",
         icache[t[h].ino] = "absent", icache' = [icache EXCEPT ![t[h].ino] = "new"],
         Goto(h, "base"), UNCHANGED <<t, img>>
  PROVE  /\ pc' \in [Thread -> Stages] /\ icache' \in [Inode -> {"absent", "new", "read", "half"}]
         /\ Threads' /\ Readers'
<1> DEFINE i == t[h].ino
<1>1. /\ img \in Image /\ t[h] \in Locals /\ None \notin Image
      /\ Placed("iget", t[h]) /\ Seeks("iget", t[h])
  BY Working
<1>2. i \in Inode
  BY <1>1, ReachableInode DEF Placed, Got
<1>3. /\ pc \in [Thread -> Stages] /\ icache \in [Inode -> {"absent", "new", "read", "half"}]
      /\ pc' = [pc EXCEPT ![h] = "base"] /\ t' = t /\ img' = img
  BY DEF Types, Stages, Goto
<1>4. /\ pc'[h] = "base" /\ pc' \in [Thread -> Stages]
      /\ \A q \in Thread \ {h} : pc'[q] = pc[q]
  BY <1>3 DEF Stages, Ops
<1>5. /\ icache'[i] = "new" /\ icache' \in [Inode -> {"absent", "new", "read", "half"}]
      /\ \A k \in Inode \ {i} : icache'[k] = icache[k]
  BY <1>2, <1>3
<1>6. Threads'
  <2> SUFFICES ASSUME NEW q \in Thread
               PROVE  (Placed(pc[q], t[q]) /\ Seeks(pc[q], t[q]))'
    BY DEF Threads
  <2>1. CASE q = h
    <3>1. Placed("base", t[h]) /\ Seeks("base", t[h])
      BY <1>1 DEF Placed, Seeks, Got, Reading
    <3>2. (Placed("base", t[h]) /\ Seeks("base", t[h]))'
      BY <1>3, <3>1 DEF Placed, Seeks, Reachable
    <3> QED BY <1>4, <2>1, <3>2 DEF Placed, Seeks
  <2>2. CASE q # h
    <3>1. Placed(pc[q], t[q]) /\ Seeks(pc[q], t[q]) /\ pc'[q] = pc[q] /\ t'[q] = t[q]
      BY <1>3, <1>4, <2>2 DEF Threads
    <3>2. Answered(t[q]) => Answered(t[q])'
      <4> SUFFICES ASSUME Answered(t[q]), t[q].name \in Range(Dir[img])
                   PROVE  icache'[Ino[t[q].name]] = t[q].answer
        BY <1>3 DEF Answered, V3
      <4>1. icache[Ino[t[q].name]] = t[q].answer /\ t[q].answer \in {"read", "half"}
        BY DEF Answered
      <4>2. Ino[t[q].name] # i
        BY <4>1
      <4> QED BY <1>3, <1>5, <4>1, <4>2
    <3>3. (AtHeader(t[q]) => AtHeader(t[q])') /\ (AtEntry(t[q]) => AtEntry(t[q])')
      BY <1>3 DEF AtHeader, AtEntry, AtItem, EndsAt, Ahead, V3
    <3> QED BY <1>3, <3>1, <3>2, <3>3 DEF Placed, Seeks, Reachable
  <2> QED BY <2>1, <2>2
<1>7. Readers'
  <2>1. \A q \in Thread : ~(t[q].ino = i /\ pc[q] \in Reading)
    BY <1>2 DEF Readers
  <2>2. \A q \in Thread : pc'[q] \in Reading <=> q = h \/ pc[q] \in Reading
    BY <1>4 DEF Reading
  <2>3. \A k \in Inode : icache'[k] = "new" <=> \E q \in Thread : t'[q].ino = k /\ pc'[q] \in Reading
    BY <1>3, <1>5, <2>1, <2>2 DEF Readers
  <2> QED BY <1>1, <1>3, <1>5, <2>1, <2>2, <2>3 DEF Readers
<1> QED BY <1>4, <1>5, <1>6, <1>7

\* Its reader is done: who waits has it, or has the failure of whom it waited for.
LEMMA Done ==
  ASSUME Types, Threads, Readers, NEW h \in Thread, pc[h] \in Reading,
         NEW state \in {"absent", "read", "half"}, NEW answer \in {"read", "bad", "half"},
         Unlocked(h, state, answer),
         answer = "read" => state = "read", state = "half" => Major[img] = 2
  PROVE  /\ pc' \in [Thread -> Stages] /\ t' \in [Thread -> Locals]
         /\ icache' \in [Inode -> {"absent", "new", "read", "half"}]
         /\ Threads' /\ Readers'
<1> DEFINE i == t[h].ino
           mine == Woken(h)
<1>0. img' = img
  BY DEF Unlocked
<1>1. /\ img \in Image /\ t[h] \in Locals /\ None \notin Image
      /\ Placed(pc[h], t[h]) /\ Seeks(pc[h], t[h])
  BY Working DEF Reading
<1>2. i \in Inode
  BY <1>1, ReachableInode DEF Placed, Got
<1>3. /\ pc \in [Thread -> Stages] /\ t \in [Thread -> Locals]
      /\ icache \in [Inode -> {"absent", "new", "read", "half"}]
      /\ icache' = [icache EXCEPT ![i] = state] /\ img' = img
      /\ t' = [q \in Thread |-> IF q \in mine THEN [t[q] EXCEPT !.answer = answer,
                                               !.hit = @ \/ answer # "read"] ELSE t[q]]
      /\ pc' = [q \in Thread |-> IF q \in mine THEN t[q].then ELSE pc[q]]
  BY DEF Types, Stages, Unlocked
<1>4. /\ icache'[i] = state /\ icache' \in [Inode -> {"absent", "new", "read", "half"}]
      /\ \A k \in Inode \ {i} : icache'[k] = icache[k]
  BY <1>2, <1>3
<1>5. h \in mine /\ \A q \in mine : q \in Thread /\ t[q].ino = i /\ pc[q] \in Got
  BY DEF Woken, Got
<1>6. \A q \in mine : t[q].then \in {"looked", "exported"}
  BY <1>5 DEF Threads, Placed
<1> HIDE DEF mine
<1>7. ASSUME NEW q \in mine
      PROVE  /\ t'[q] \in Locals /\ t'[q].name = t[q].name
             /\ t'[q].answer = answer /\ (~t'[q].hit => answer = "read")
             /\ pc'[q] = t[q].then
  <2>1. /\ q \in Thread /\ pc'[q] = t[q].then /\ t[q] \in Locals
        /\ t'[q] = [t[q] EXCEPT !.answer = answer, !.hit = t[q].hit \/ answer # "read"]
    BY <1>3, <1>5
  <2> DEFINE l == t[q]
             b == l.hit \/ answer # "read"
  <2>2. b \in BOOLEAN /\ (~b => answer = "read") /\ l \in Locals
    BY <2>1
  <2>3. t'[q] = [l EXCEPT !.answer = answer, !.hit = b]
    BY <2>1
  <2>4. l.name = t[q].name
    OBVIOUS
  <2> HIDE DEF l, b
  <2>5. t'[q] \in Locals /\ t'[q].name = l.name /\ t'[q].answer = answer /\ t'[q].hit = b
    BY <2>2, <2>3 DEF Locals, Answer
  <2> QED BY <2>1, <2>2, <2>4, <2>5
<1>8. \A q \in Thread \ mine : t'[q] = t[q] /\ pc'[q] = pc[q]
  BY <1>3
<1>9. pc' \in [Thread -> Stages] /\ t' \in [Thread -> Locals]
  <2>1. \A q \in Thread : pc'[q] \in Stages /\ t'[q] \in Locals
    BY <1>3, <1>6, <1>7, <1>8 DEF Stages, Ops
  <2> QED BY <1>3, <2>1
<1>10. Threads'
  <2> SUFFICES ASSUME NEW q \in Thread
               PROVE  (Placed(pc[q], t[q]) /\ Seeks(pc[q], t[q]))'
    BY DEF Threads
  <2>0. Placed(pc[q], t[q]) /\ Seeks(pc[q], t[q])
    BY DEF Threads
  <2>1. CASE q \in mine
    <3>1. /\ pc[q] \in Got /\ t[q].ino = i
          /\ pc'[q] \in {"looked", "exported"} /\ pc'[q] = t[q].then
          /\ t'[q].name = t[q].name /\ t'[q].answer = answer
          /\ ~t'[q].hit => answer = "read"
      BY <1>5, <1>6, <1>7, <2>1
    <3>2. pc'[q] = "looked" =>
            t'[q].name \in Name /\ t[q].name \in Range(Dir[img]) /\ i = Ino[t[q].name]
      BY <2>0, <3>1 DEF Seeks
    <3>3. pc'[q] = "looked" /\ ~t'[q].hit => Answered(t[q])'
      BY <1>0, <1>4, <3>1, <3>2 DEF Answered
    <3> QED BY <1>0, <1>1, <3>1, <3>2, <3>3 DEF Placed, Seeks, Got, Reading
  <2>2. CASE q \notin mine
    <3>1. pc'[q] = pc[q] /\ t'[q] = t[q]
      BY <1>8, <2>2
    <3>2. t[q].name \in Name /\ Answered(t[q]) => Answered(t[q])'
      <4> SUFFICES ASSUME t[q].name \in Name, Answered(t[q]), t[q].name \in Range(Dir[img])
                   PROVE  icache'[Ino[t[q].name]] = t[q].answer
        BY <1>0, <3>1 DEF Answered, V3
      <4>1. icache[Ino[t[q].name]] = t[q].answer /\ t[q].answer \in {"read", "half"}
        BY DEF Answered
      <4>2. icache[i] = "new"
        BY <1>2 DEF Readers
      <4>3. Ino[t[q].name] \in Inode
        <5>1. t[q].name \in DOMAIN Ino
          BY <1>1, ImageOf, Sizes DEF Range
        <5> QED BY <5>1 DEF Inode, Range
      <4> QED BY <1>4, <4>1, <4>2, <4>3
    <3>3. (AtHeader(t[q]) => AtHeader(t[q])') /\ (AtEntry(t[q]) => AtEntry(t[q])')
      BY <1>0, <3>1 DEF AtHeader, AtEntry, AtItem, EndsAt, Ahead, V3
    <3> QED BY <1>0, <2>0, <3>1, <3>2, <3>3 DEF Placed, Seeks, Reachable
  <2> QED BY <2>1, <2>2
<1>11. Readers'
  <2>1. \A q \in mine : pc'[q] \notin Reading
    BY <1>6, <1>7 DEF Reading
  <2>2. \A q \in Thread \ mine : pc[q] \in Reading => t[q].ino # i
    BY <1>5 DEF Readers
  <2>3. \A q \in mine : q = h \/ pc[q] \notin Reading
    BY DEF mine, Woken, Reading
  <2>4. \A k \in Inode : icache'[k] = "new" <=> \E q \in Thread : t'[q].ino = k /\ pc'[q] \in Reading
    <3> SUFFICES ASSUME NEW k \in Inode
                 PROVE  icache'[k] = "new" <=> \E q \in Thread : t'[q].ino = k /\ pc'[q] \in Reading
      OBVIOUS
    <3>1. \A q \in Thread : t'[q].ino = k /\ pc'[q] \in Reading <=>
                              q \notin mine /\ t[q].ino = k /\ pc[q] \in Reading
      BY <1>8, <2>1
    <3>2. CASE k = i
      BY <1>4, <2>2, <3>1, <3>2
    <3>3. CASE k # i
      <4>1. icache[k] = "new" <=> \E q \in Thread : t[q].ino = k /\ pc[q] \in Reading
        BY DEF Readers
      <4>2. \A q \in mine : t[q].ino # k
        BY <1>5, <3>3
      <4> QED BY <1>4, <3>1, <3>3, <4>1, <4>2
    <3> QED BY <3>2, <3>3
  <2>5. \A q, r \in Thread :
          pc'[q] \in Reading /\ pc'[r] \in Reading /\ t'[q].ino = t'[r].ino => q = r
    BY <1>8, <2>1 DEF Readers
  <2>6. \A k \in Inode : icache'[k] = "half" => Major[img'] = 2
    BY <1>3, <1>4 DEF Readers
  <2> QED BY <1>1, <1>3, <2>4, <2>5, <2>6 DEF Readers
<1> QED BY <1>4, <1>9, <1>10, <1>11

\* An operation of a thread that leaves the inodes alone.
LEMMA AdvanceTypes ==
  ASSUME Types, Threads, Readers, NEW h \in Thread, Advances(h), UNCHANGED <<img, icache>>,
         fpos' \in Nat, dirmutex' \in Thread \cup {None},
         dentry' \in [Name -> Answer \cup {"unknown", "negative"}]
  PROVE  Types' /\ Threads' /\ Readers' /\ img' = img
<1>1. pc' \in [Thread -> Stages] /\ t' \in [Thread -> Locals] /\ Threads' /\ Readers'
  BY AdvanceKeeps
<1> QED BY <1>1 DEF Types, Stages

\* What a directory's handlers do, one by one.
LEMMA OperationKeeps ==
  ASSUME Types, Threads, Readers, NEW h \in Thread, Enter(h) \/ Step(h),
         img # None => Major[img] \in {2, 3}
  PROVE  Types' /\ Threads' /\ Readers' /\ img' = img
<1>0. /\ fpos \in Nat /\ dirmutex \in Thread \cup {None}
      /\ dentry \in [Name -> Answer \cup {"unknown", "negative"}]
  BY DEF Types
<1>1. CASE Readdir(h)
  BY <1>0, <1>1, ReaddirAdvances, AdvanceTypes DEF Readdir, names, inodes
<1>2. CASE Lookup(h)
  BY <1>0, <1>2, LookupAdvances, AdvanceTypes DEF Lookup, names, inodes
<1>3. CASE ExportIget(h)
  BY <1>0, <1>3, ExportIgetAdvances, AdvanceTypes DEF ExportIget, names, inodes
<1>4. CASE Listing(h)
  <2>1. CASE Dots(h)
    BY <1>0, <2>1, DotsAdvances, AdvanceTypes DEF Dots, inodes
  <2>2. CASE UsingOffset(h)
    BY <1>0, <2>2, UsingOffsetAdvances, AdvanceTypes DEF UsingOffset, inodes
  <2>3. CASE Header(h, "header", "entry", "listed")
    BY <1>0, <2>3, HeaderAdvances, AdvanceTypes DEF Header, names, inodes
  <2>4. CASE EndOfHeader(h, "entry", "header")
    BY <1>0, <2>4, EndOfHeaderAdvances, AdvanceTypes DEF EndOfHeader, names, inodes
  <2>5. CASE Entry(h)
    BY <1>0, <2>5, EntryAdvances, AdvanceTypes DEF Entry, inodes
  <2> QED BY <1>4, <2>1, <2>2, <2>3, <2>4, <2>5 DEF Listing
<1>5. CASE Looking(h)
  <2>1. CASE UsingName(h)
    BY <1>0, <2>1, UsingNameAdvances, AdvanceTypes DEF UsingName, inodes
  <2>2. CASE Header(h, "lheader", "lentry", "looked")
    BY <1>0, <2>2, HeaderAdvances, AdvanceTypes DEF Header, names, inodes
  <2>3. CASE EndOfHeader(h, "lentry", "lheader")
    BY <1>0, <2>3, EndOfHeaderAdvances, AdvanceTypes DEF EndOfHeader, names, inodes
  <2>4. CASE LookupEntry(h)
    BY <1>0, <2>4, LookupEntryAdvances, AdvanceTypes DEF LookupEntry, names, inodes
  <2> QED BY <1>5, <2>1, <2>2, <2>3, <2>4 DEF Looking
<1>6. CASE InodeLookup(h)
  BY <1>0, <1>6, InodeLookupAdvances, AdvanceTypes DEF InodeLookup, names, inodes
<1>7. CASE Iget(h)
  <2>1. CASE UNCHANGED icache
    BY <1>0, <1>7, <2>1, IgetAdvances, AdvanceTypes DEF Iget, names
  <2>2. CASE /\ icache[t[h].ino] = "absent" /\ icache' = [icache EXCEPT ![t[h].ino] = "new"]
             /\ Goto(h, "base") /\ UNCHANGED t
    <3>1. pc[h] = "iget" /\ UNCHANGED <<img, fpos, dirmutex, dentry>>
      BY <1>7 DEF Iget, names
    <3>2. /\ pc' \in [Thread -> Stages] /\ icache' \in [Inode -> {"absent", "new", "read", "half"}]
          /\ Threads' /\ Readers'
      BY <2>2, <3>1, NewInode
    <3> QED BY <2>2, <3>1, <3>2 DEF Types, Stages
  <2> QED BY <1>7, <2>1, <2>2 DEF Iget
<1>8. CASE ReadBase(h) \/ ReadRest(h) \/ FragmentLocation(h)
  <2>1. UNCHANGED <<img, fpos, dirmutex, dentry, icache>>
    BY <1>8 DEF ReadBase, ReadRest, FragmentLocation, ReadFrom, names, inodes
  <2> QED BY <1>0, <1>8, <2>1, ReadsAdvance, AdvanceTypes
<1>9. CASE Unlock(h) \/ Failed(h)
  <2>1. pc[h] \in Reading
    BY <1>9 DEF Unlock, Failed, Reading
  <2>2. img \in Image /\ img # None
    BY <2>1, Working DEF Reading
  <2>3. PICK state \in {"absent", "read", "half"}, answer \in {"read", "bad", "half"} :
          /\ Unlocked(h, state, answer)
          /\ answer = "read" => state = "read"
          /\ state = "half" => Major[img] = 2
    BY <1>9, <2>2 DEF Unlock, Failed, V3
  <2>4. /\ pc' \in [Thread -> Stages] /\ t' \in [Thread -> Locals]
        /\ icache' \in [Inode -> {"absent", "new", "read", "half"}]
        /\ Threads' /\ Readers'
    BY <2>1, <2>3, Done
  <2>5. UNCHANGED <<img, fpos, dirmutex, dentry>>
    BY <2>3 DEF Unlocked, names
  <2> QED BY <2>4, <2>5 DEF Types, Stages
<1>10. CASE Return(h)
  <2>1. dirmutex' \in Thread \cup {None}
    BY <1>0, <1>10 DEF Return
  <2> QED BY <1>0, <1>10, <2>1, ReturnAdvances, AdvanceTypes DEF Return, names
<1> QED BY <1>1, <1>2, <1>3, <1>4, <1>5, <1>6, <1>7, <1>8, <1>9, <1>10 DEF Enter, Step, ReadInode
-------------------------------------------------------------------------------
(* The volume                                                              *)

\* What mounting does leaves a directory as it is: nothing is mounted yet.
LEMMA NotMounted ==
  ASSUME Types, Threads, Readers, UNCHANGED <<img, fpos, dentry, icache, dirmutex, pc, t>>
  PROVE  Types' /\ Threads' /\ Readers'
<1>1. Types'
  BY DEF Types
<1>2. Readers'
  BY DEF Readers
<1>3. Threads'
  <2> SUFFICES ASSUME NEW h \in Thread
               PROVE  (Placed(pc[h], t[h]) /\ Seeks(pc[h], t[h]))'
    BY DEF Threads
  <2>1. Placed(pc[h], t[h]) /\ Seeks(pc[h], t[h]) /\ pc'[h] = pc[h] /\ t'[h] = t[h]
    BY DEF Threads
  <2>2. /\ AtHeader(t[h])' = AtHeader(t[h]) /\ AtEntry(t[h])' = AtEntry(t[h])
        /\ Answered(t[h])' = Answered(t[h])
    BY DEF AtHeader, AtEntry, Answered, AtItem, EndsAt, Ahead, V3
  <2> QED BY <2>1, <2>2 DEF Placed, Seeks, Reachable
<1> QED BY <1>1, <1>2, <1>3

\* Nothing is mounted, or nobody uses what is: no thread has anything to keep.
LEMMA NobodyIn ==
  ASSUME Types, \A h \in Thread : pc[h] = "idle", UNCHANGED <<pc, t, dirmutex>>,
         img' \in Image \cup {None}, fpos' \in Nat,
         dentry' \in [Name -> Answer \cup {"unknown", "negative"}],
         icache' = icache \/ icache' = [i \in Inode |-> "absent"],
         \/ Readers /\ icache' = icache /\ (img' = img \/ img = None)
         \/ icache' = [i \in Inode |-> "absent"]
  PROVE  Types' /\ Threads' /\ Readers'
<1>1. icache' \in [Inode -> {"absent", "new", "read", "half"}]
  BY DEF Types
<1>2. Types'
  BY <1>1 DEF Types
<1>3. \A h \in Thread : pc'[h] = "idle"
  OBVIOUS
<1>4. Threads'
  BY <1>3 DEF Threads, Placed, Seeks, Got, Reading
<1>5. Readers'
  <2>1. CASE icache' = [i \in Inode |-> "absent"]
    BY <1>3, <2>1 DEF Readers, Reading
  <2>2. CASE Readers /\ icache' = icache /\ (img' = img \/ img = None)
    BY <1>3, <2>2 DEF Readers, Reading
  <2> QED BY <2>1, <2>2
<1> QED BY <1>2, <1>4, <1>5

\* No thread works where nothing is mounted.
LEMMA AllIdle ==
  ASSUME Types, Threads, img = None \/ ~Used
  PROVE  \A h \in Thread : pc[h] = "idle"
BY DEF Threads, Placed, Used

\* An allocation that succeeds, of something that is not there.
LEMMA AllocHeap ==
  ASSUME Heap, NEW x \in Resource \ {"inode_cache"}, x \notin ptr, Alloc(x), UNCHANGED registered
  PROVE  Heap'
<1>1. /\ heap \in [Resource -> Nat] /\ heap' = [heap EXCEPT ![x] = heap[x] + 1]
      /\ ptr' = ptr \cup {x} /\ lapsed' = lapsed
  BY DEF Heap, Alloc
<1>2. /\ heap' \in [Resource -> Nat] /\ heap'[x] = heap[x] + 1
      /\ \A y \in Resource \ {x} : heap'[y] = heap[y]
  BY <1>1
<1>3. ASSUME NEW y \in Resource \ {"inode_cache"}
      PROVE  heap'[y] = Lost(y)' + Held(y)'
  <2>1. heap[y] = Lost(y) + Held(y) /\ Lost(y)' = Lost(y) /\ Lost(y) \in Nat
    BY <1>1 DEF Heap, Lost
  <2>2. Held(y)' = (IF y = x THEN 1 ELSE Held(y)) /\ (y = x => Held(y) = 0)
    BY <1>1 DEF Held
  <2> QED BY <1>2, <2>1, <2>2
<1>4. heap'["inode_cache"] = IF registered' THEN 1 ELSE 0
  BY <1>2 DEF Heap, Resource
<1> QED BY <1>1, <1>2, <1>3, <1>4 DEF Heap

\* Of what is there, S is freed and L is let go of.
LEMMA ReleaseHeap ==
  ASSUME Heap, ptr \subseteq Resource \ {"inode_cache"}, UNCHANGED registered,
         NEW S, NEW L, S \subseteq ptr, L \subseteq ptr \cap Left, S \cap L = {},
         ptr' = ptr \ (S \cup L), Free(S),
         lapsed' = [x \in Left |-> IF x \in L THEN lapsed[x] + 1 ELSE lapsed[x]]
  PROVE  Heap'
<1>1. /\ heap \in [Resource -> Nat] /\ lapsed \in [Left -> Nat]
      /\ \A x \in Resource : heap'[x] = IF x \in S THEN heap[x] - 1 ELSE heap[x]
      /\ heap' = [x \in Resource |-> IF x \in S THEN heap[x] - 1 ELSE heap[x]]
  BY DEF Heap, Free
<1>2. \A x \in Left : lapsed'[x] = IF x \in L THEN lapsed[x] + 1 ELSE lapsed[x]
  OBVIOUS
<1>3. ASSUME NEW y \in Resource \ {"inode_cache"}
      PROVE  heap'[y] = Lost(y)' + Held(y)'
  <2>1. heap[y] = Lost(y) + Held(y) /\ Lost(y) \in Nat
    BY DEF Heap, Lost
  <2>2. Lost(y)' = IF y \in L THEN Lost(y) + 1 ELSE Lost(y)
    BY <1>2 DEF Lost
  <2>3. /\ y \in S \cup L => Held(y) = 1 /\ Held(y)' = 0
        /\ y \notin S \cup L => Held(y)' = Held(y)
    BY DEF Held
  <2>4. Held(y) \in {0, 1}
    BY DEF Held
  <2>5. heap'[y] = IF y \in S THEN heap[y] - 1 ELSE heap[y]
    BY <1>1
  <2> QED BY <2>1, <2>2, <2>3, <2>4, <2>5
<1>4. \A x \in S : heap[x] > 0
  BY <1>1 DEF Heap, Lost, Held
<1>5. heap' \in [Resource -> Nat] /\ lapsed' \in [Left -> Nat]
  <2>1. \A x \in Resource : (IF x \in S THEN heap[x] - 1 ELSE heap[x]) \in Nat
    BY <1>1, <1>4
  <2>2. \A x \in Left : (IF x \in L THEN lapsed[x] + 1 ELSE lapsed[x]) \in Nat
    BY <1>1
  <2> QED BY <1>1, <2>1, <2>2
<1>6. heap'["inode_cache"] = IF registered' THEN 1 ELSE 0
  BY <1>1 DEF Heap, Resource
<1> QED BY <1>3, <1>5, <1>6 DEF Heap

\* A step of fill_super allocates something that is not there, or fails.
LEMMA AllocateKeeps ==
  ASSUME MountState, Heap, NEW s, NEW x \in Resource \ {"inode_cache"}, NEW next, NEW out,
         Allocate(s, x, next, out), x \notin ptr
  PROVE  /\ Heap' /\ UNCHANGED <<img, disk, registered>> /\ mount = s
         /\ \/ mount' = next /\ ptr' = ptr \cup {x}
            \/ mount' = out /\ ptr' = ptr
<1>1. mount = s /\ UNCHANGED <<img, disk, registered>>
  BY DEF Allocate, At, Still
<1>2. CASE Alloc(x) /\ To(next)
  <2>1. Heap'
    BY <1>1, <1>2, AllocHeap
  <2> QED BY <1>1, <1>2, <2>1 DEF Alloc, To
<1>3. CASE To(out) /\ Kept
  BY <1>1, <1>3 DEF To, Kept, Heap, Held, Lost
<1> QED BY <1>2, <1>3 DEF Allocate

\* A table that is read, or not.
LEMMA ReadKeeps ==
  ASSUME Heap, NEW s, NEW next, Read(s, next)
  PROVE  /\ Heap' /\ UNCHANGED <<img, disk, registered, ptr>> /\ mount = s
         /\ mount' = next \/ mount' = "failed"
BY DEF Read, At, Still, Kept, To, Heap, Held, Lost

\* Each step of fill_super leaves behind what the next one builds on.
LEMMA FillSuperKeeps ==
  ASSUME Types, MountState, Heap, FillSuper
  PROVE  MountState' /\ Heap'
<1> USE DEF MountState, Pointers, Resource, Places
<1>0. None \notin Image
  BY SDAssumption
<1>1. CASE SbInfo
  <2>1. "info" \notin ptr
    BY <1>1 DEF SbInfo, Allocate, At
  <2>2. /\ Heap' /\ UNCHANGED <<img, disk, registered>> /\ mount = "info"
        /\ \/ mount' = "workspace" /\ ptr' = ptr \cup {"info"}
           \/ mount' = "none" /\ ptr' = ptr
    BY <1>1, <2>1, AllocateKeeps DEF SbInfo
  <2> QED BY <2>2
<1>2. CASE Workspace
  <2>1. /\ mount = "workspace" /\ UNCHANGED <<img, disk, registered>> /\ ptr = {"info"}
        /\ "workspace" \notin ptr
    BY <1>2 DEF Workspace, At, Still
  <2>2. CASE Alloc("workspace") /\ To("super")
    <3>1. Heap'
      BY <2>1, <2>2, AllocHeap
    <3>2. mount' = "super" /\ ptr' = {"info", "workspace"}
      BY <2>1, <2>2 DEF Alloc, To
    <3> QED BY <2>1, <3>1, <3>2
  <2>3. CASE To("none") /\ ptr' = {} /\ Lapse("info") /\ UNCHANGED heap
    <3>1. /\ "info" \in Left /\ ptr' = ptr \ ({} \cup {"info"}) /\ Free({})
          /\ lapsed' = [x \in Left |-> IF x \in {"info"} THEN lapsed[x] + 1 ELSE lapsed[x]]
      BY <2>1, <2>3 DEF Left, Lapse, Free, Heap
    <3>2. Heap'
      BY <2>1, <3>1, ReleaseHeap
    <3> QED BY <2>1, <2>3, <3>2 DEF To
  <2> QED BY <1>2, <2>2, <2>3 DEF Workspace
<1>3. CASE SuperBlock
  <2>1. /\ Heap' /\ UNCHANGED <<img, disk, registered, ptr>> /\ mount = "super"
        /\ mount' = "failed" \/ (mount' = "supported" /\ disk \notin Broken)
    <3> DEFINE next == IF disk \in Broken THEN "failed" ELSE "supported"
    <3>1. Read("super", next)
      BY <1>3 DEF SuperBlock
    <3>2. next = "failed" \/ (next = "supported" /\ disk \notin Broken)
      OBVIOUS
    <3> HIDE DEF next
    <3>3. /\ Heap' /\ UNCHANGED <<img, disk, registered, ptr>> /\ mount = "super"
          /\ mount' = next \/ mount' = "failed"
      BY <3>1, ReadKeeps
    <3> QED BY <3>2, <3>3
  <2> QED BY <2>1
<1>4. CASE Supported
  <2>1. /\ UNCHANGED <<img, disk, registered, ptr, heap, lapsed>> /\ mount = "supported"
        /\ mount' = "failed" \/ (mount' = "block_cache" /\ Major[disk] \in {2, 3})
    BY <1>4 DEF Supported, At, To, Still, Kept
  <2>2. Heap'
    BY <2>1 DEF Heap, Held, Lost
  <2> QED BY <2>1, <2>2
<1>5. CASE BlockCache
  <2>1. "block_cache" \notin ptr
    BY <1>5 DEF BlockCache, Allocate, At
  <2>2. /\ Heap' /\ UNCHANGED <<img, disk, registered>> /\ mount = "block_cache"
        /\ \/ mount' = "read_page" /\ ptr' = ptr \cup {"block_cache"}
           \/ mount' = "failed" /\ ptr' = ptr
    BY <1>5, <2>1, AllocateKeeps DEF BlockCache
  <2> QED BY <2>2
<1>6. CASE ReadPage
  <2>1. "read_page" \notin ptr
    BY <1>6 DEF ReadPage, Allocate, At
  <2>2. /\ Heap' /\ UNCHANGED <<img, disk, registered>> /\ mount = "read_page"
        /\ \/ mount' = "uid" /\ ptr' = ptr \cup {"read_page"}
           \/ mount' = "failed" /\ ptr' = ptr
    BY <1>6, <2>1, AllocateKeeps DEF ReadPage
  <2> QED BY <2>2
<1>7. CASE Uid
  <2>1. "uid" \notin ptr
    BY <1>7 DEF Uid, Allocate, At
  <2>2. /\ Heap' /\ UNCHANGED <<img, disk, registered>> /\ mount = "uid"
        /\ \/ mount' = "ids" /\ ptr' = ptr \cup {"uid"}
           \/ mount' = "failed" /\ ptr' = ptr
    BY <1>7, <2>1, AllocateKeeps DEF Uid
  <2> QED BY <2>2 DEF Basic
<1>8. CASE Ids
  <2>1. /\ Heap' /\ UNCHANGED <<img, disk, registered, ptr>> /\ mount = "ids"
        /\ mount' = "fragment_cache" \/ mount' = "failed"
    BY <1>8, ReadKeeps DEF Ids
  <2> QED BY <2>1
<1>9. CASE FragmentCache
  <2>1. "fragment_cache" \notin ptr
    BY <1>9 DEF FragmentCache, Allocate, At
  <2>2. /\ Heap' /\ UNCHANGED <<img, disk, registered>> /\ mount = "fragment_cache"
        /\ \/ mount' = "index" /\ ptr' = ptr \cup {"fragment_cache"}
           \/ mount' = "failed" /\ ptr' = ptr
    BY <1>9, <2>1, AllocateKeeps DEF FragmentCache
  <2> QED BY <2>2 DEF Basic
<1>10. CASE NoFragmentIndex
  <2>1. /\ UNCHANGED <<img, disk, registered, ptr, heap, lapsed>> /\ mount = "index"
        /\ Major[disk] = 3 /\ disk \notin Fragments
        /\ mount' = IF disk \in Export THEN "lookup" ELSE "root"
    BY <1>10 DEF NoFragmentIndex, At, To, Still, Kept, AfterIndex
  <2>2. Heap'
    BY <2>1 DEF Heap, Held, Lost
  <2>3. ptr' = Basic \cup IndexTable(disk) /\ (disk \notin Export => ptr' = Tables(disk))
    BY <2>1 DEF IndexTable, Tables, LookupTable
  <2> QED BY <2>1, <2>2, <2>3
<1>11. CASE FragmentIndex
  <2> DEFINE after == IF disk \in Export THEN "lookup" ELSE "root"
             next == IF disk \in Fragments THEN "read_index" ELSE after
  <2>1. /\ mount = "index" /\ ptr = Basic /\ IndexTable(disk) = {IndexOf(disk)}
        /\ Allocate("index", IndexOf(disk), next, "failed")
    BY <1>11 DEF FragmentIndex, At, AfterIndex, IndexTable
  <2>2. IndexOf(disk) \in Resource \ {"inode_cache"} /\ IndexOf(disk) \notin ptr
    BY <2>1 DEF IndexOf, Basic
  <2> HIDE DEF next
  <2>3. /\ Heap' /\ UNCHANGED <<img, disk, registered>>
        /\ \/ mount' = next /\ ptr' = ptr \cup {IndexOf(disk)}
           \/ mount' = "failed" /\ ptr' = ptr
    BY <2>1, <2>2, AllocateKeeps
  <2>4. /\ ptr' = ptr \cup {IndexOf(disk)} => ptr' = Basic \cup IndexTable(disk)
        /\ disk \notin Export => Basic \cup IndexTable(disk) = Tables(disk)
    BY <2>1 DEF Tables, LookupTable
  <2> QED BY <2>1, <2>2, <2>3, <2>4 DEF next
<1>12. CASE ReadIndex
  <2>1. /\ Heap' /\ UNCHANGED <<img, disk, registered, ptr>> /\ mount = "read_index"
        /\ mount' = AfterIndex \/ mount' = "failed"
    BY <1>12, ReadKeeps DEF ReadIndex
  <2>2. disk \notin Export => ptr = Tables(disk)
    BY <2>1 DEF Tables, LookupTable
  <2> QED BY <2>1, <2>2 DEF AfterIndex
<1>13. CASE Lookups
  <2>1. /\ mount = "lookup" /\ disk \in Export /\ ptr = Basic \cup IndexTable(disk)
        /\ "inode_lookup_table" \notin ptr
    BY <1>13 DEF Lookups, Allocate, At, Basic, IndexTable, IndexOf
  <2>2. /\ Heap' /\ UNCHANGED <<img, disk, registered>>
        /\ \/ mount' = "read_lookup" /\ ptr' = ptr \cup {"inode_lookup_table"}
           \/ mount' = "failed" /\ ptr' = ptr
    BY <1>13, <2>1, AllocateKeeps DEF Lookups
  <2>3. ptr \cup {"inode_lookup_table"} = Tables(disk)
    BY <2>1 DEF Tables, LookupTable
  <2> QED BY <2>1, <2>2, <2>3
<1>14. CASE ReadLookups
  <2>1. /\ Heap' /\ UNCHANGED <<img, disk, registered, ptr>> /\ mount = "read_lookup"
        /\ mount' = "root" \/ mount' = "failed"
    BY <1>14, ReadKeeps DEF ReadLookups
  <2> QED BY <2>1
<1>15. CASE NewRoot
  <2>1. /\ mount = "root" /\ mount' = "read_root" /\ ptr = Tables(disk)
        /\ UNCHANGED <<img, disk, registered>> /\ Alloc("root")
    BY <1>15 DEF NewRoot, At, To, Still
  <2>2. "root" \notin ptr
    BY <2>1 DEF Tables, Basic, IndexTable, IndexOf, LookupTable
  <2>3. Heap' /\ ptr' = Tables(disk) \cup {"root"}
    BY <2>1, <2>2, AllocHeap DEF Alloc
  <2> QED BY <2>1, <2>3
<1>16. CASE ReadRoot
  <2>1. mount = "read_root" /\ UNCHANGED <<img, disk, registered>> /\ "root" \in ptr
    BY <1>16 DEF ReadRoot, At, Still
  <2>2. CASE To("dentry") /\ Kept
    <3>1. Heap'
      BY <2>1, <2>2 DEF Kept, Heap, Held, Lost
    <3> QED BY <2>1, <2>2, <3>1 DEF Kept, To
  <2>3. CASE To("failed") /\ ptr' = ptr \ {"root"} /\ Lapse("root") /\ UNCHANGED heap
    <3> DEFINE S == {}
               L == {"root"}
    <3>1. /\ S \subseteq ptr /\ L \subseteq ptr \cap Left /\ S \cap L = {}
          /\ ptr' = ptr \ (S \cup L) /\ Free(S) /\ ptr \subseteq Resource \ {"inode_cache"}
          /\ lapsed' = [x \in Left |-> IF x \in L THEN lapsed[x] + 1 ELSE lapsed[x]]
      BY <2>1, <2>3 DEF Left, Lapse, Free, Heap
    <3> HIDE DEF S, L
    <3>2. Heap'
      BY <2>1, <3>1, ReleaseHeap, Zenon
    <3>3. mount' = "failed" /\ ptr' \subseteq ptr /\ UNCHANGED <<img, disk, registered>>
      BY <2>1, <2>3 DEF To
    <3>4. MountState'
      BY <2>1, <3>3
    <3> QED BY <3>2, <3>4
  <2> QED BY <1>16, <2>2, <2>3 DEF ReadRoot
<1>17. CASE AllocRoot
  <2>1. mount = "dentry" /\ UNCHANGED <<disk, registered>> /\ img = None /\ "root" \in ptr
    BY <1>17 DEF AllocRoot, At
  <2>2. CASE Kept /\ To("mounted") /\ img' = disk
    <3>1. Heap'
      BY <2>1, <2>2 DEF Kept, Heap, Held, Lost
    <3>2. ptr \ {"meta_index"} = ptr
      BY <2>1 DEF Tables, Basic, IndexTable, IndexOf, LookupTable
    <3> QED BY <1>0, <2>1, <2>2, <3>1, <3>2 DEF Kept, To
  <2>3. CASE /\ To("failed") /\ UNCHANGED img
             /\ ptr' = ptr \ {"root"} /\ Free({"root"}) /\ UNCHANGED lapsed
    <3> DEFINE S == {"root"}
               L == {}
    <3>1. /\ S \subseteq ptr /\ L \subseteq ptr \cap Left /\ S \cap L = {}
          /\ ptr' = ptr \ (S \cup L) /\ Free(S) /\ ptr \subseteq Resource \ {"inode_cache"}
          /\ lapsed' = [x \in Left |-> IF x \in L THEN lapsed[x] + 1 ELSE lapsed[x]]
      BY <2>1, <2>3 DEF Heap
    <3> HIDE DEF S, L
    <3>2. Heap'
      BY <2>1, <3>1, ReleaseHeap, Zenon
    <3>3. mount' = "failed" /\ ptr' \subseteq ptr /\ UNCHANGED <<img, disk, registered>>
      BY <2>1, <2>3 DEF To
    <3>4. MountState'
      BY <2>1, <3>3
    <3> QED BY <3>2, <3>4
  <2> QED BY <1>17, <2>2, <2>3 DEF AllocRoot
<1>18. CASE FailedMount
  <2>1. /\ mount = "failed" /\ mount' = "none" /\ ptr' = {} /\ UNCHANGED <<img, disk, registered>>
        /\ Free(ptr) /\ UNCHANGED lapsed
    BY <1>18 DEF FailedMount, At, To, Still, Cleaned
  <2>2. /\ ptr' = ptr \ (ptr \cup {})
        /\ lapsed' = [x \in Left |-> IF x \in {} THEN lapsed[x] + 1 ELSE lapsed[x]]
    BY <2>1 DEF Heap
  <2>3. Heap'
    BY <2>1, <2>2, ReleaseHeap
  <2> QED BY <2>1, <2>3
<1> QED BY <1>1, <1>2, <1>3, <1>4, <1>5, <1>6, <1>7, <1>8, <1>9, <1>10, <1>11, <1>12, <1>13,
           <1>14, <1>15, <1>16, <1>17, <1>18 DEF FillSuper

\* The initial state.
LEMMA InitIInv ==
  Init => IInv
<1> SUFFICES ASSUME Init PROVE IInv
  OBVIOUS
<1>1. Types
  BY Fresh DEF Init, DirInit, Types
<1>2. Threads /\ Readers
  BY DEF Init, DirInit, Threads, Readers, Placed, Seeks, Got, Reading
<1>3. MountState
  BY SDAssumption DEF Init, DirInit, MountState, Pointers, Places
<1>4. Heap
  BY DEF Init, Heap, Resource, Held, Lost
<1> QED BY <1>1, <1>2, <1>3, <1>4 DEF IInv

\* Loading and unloading the module, and the start of a mount.
LEMMA ModuleKeeps ==
  ASSUME IInv, InitModule \/ ExitModule \/ GetSb
  PROVE  IInv'
<1>1. /\ UNCHANGED <<img, fpos, dentry, icache, dirmutex, pc, t, ptr, lapsed>>
      /\ mount = "none" /\ ptr = {}
  BY DEF IInv, MountState, Pointers, InitModule, ExitModule, GetSb, At, dirvars, names, inodes
<1>2. Types' /\ Threads' /\ Readers'
  BY <1>1, NotMounted DEF IInv
<1>3. heap \in [Resource -> Nat] /\ heap["inode_cache"] = IF registered THEN 1 ELSE 0
  BY DEF IInv, Heap
<1>4. CASE InitModule
  <2>1. ~registered /\ UNCHANGED <<mount, disk>>
    BY <1>4 DEF InitModule
  <2>2. CASE registered' = TRUE /\ heap' = [heap EXCEPT !["inode_cache"] = @ + 1]
    <3>1. /\ heap' \in [Resource -> Nat] /\ heap'["inode_cache"] = 1
          /\ \A y \in Resource \ {"inode_cache"} : heap'[y] = heap[y]
      BY <1>3, <2>1, <2>2 DEF Resource
    <3>2. Heap'
      BY <1>1, <2>2, <3>1 DEF IInv, Heap, Held, Lost
    <3> QED BY <1>1, <1>2, <2>1, <2>2, <3>2 DEF IInv, MountState, Pointers
  <2>3. CASE UNCHANGED <<registered, heap>>
    BY <1>1, <1>2, <2>1, <2>3 DEF IInv, MountState, Pointers, Heap, Held, Lost
  <2> QED BY <1>4, <2>2, <2>3 DEF InitModule
<1>5. CASE ExitModule
  <2>1. /\ registered /\ registered' = FALSE /\ UNCHANGED <<mount, disk>>
        /\ heap' = [heap EXCEPT !["inode_cache"] = @ - 1]
    BY <1>5 DEF ExitModule
  <2>2. /\ heap' \in [Resource -> Nat] /\ heap'["inode_cache"] = 0
        /\ \A y \in Resource \ {"inode_cache"} : heap'[y] = heap[y]
    BY <1>3, <2>1 DEF Resource
  <2>3. Heap'
    BY <1>1, <2>1, <2>2 DEF IInv, Heap, Held, Lost
  <2> QED BY <1>1, <1>2, <2>1, <2>3 DEF IInv, MountState, Pointers
<1>6. CASE GetSb
  <2>1. /\ registered /\ mount' = "info" /\ disk' \in Image \cup Broken
        /\ UNCHANGED <<registered, heap>>
    BY <1>6 DEF GetSb, To
  <2>2. Heap'
    BY <1>1, <2>1 DEF IInv, Heap, Held, Lost
  <2> QED BY <1>1, <1>2, <2>1, <2>2 DEF IInv, MountState, Pointers, Places
<1> QED BY <1>4, <1>5, <1>6

\* A mount is all the system does, until it is mounted.
LEMMA MountKeeps ==
  ASSUME IInv, FillSuper
  PROVE  IInv'
<1>1. MountState' /\ Heap'
  BY FillSuperKeeps DEF IInv
<1>2. CASE AllocRoot
  <2>1. /\ mount = "dentry" /\ UNCHANGED <<names, inodes, dirmutex, pc, t>>
        /\ img' = disk \/ img' = img
    BY <1>2 DEF AllocRoot, At
  <2>2. img = None /\ disk \in Image
    BY <2>1 DEF IInv, MountState
  <2>3. \A h \in Thread : pc[h] = "idle"
    BY <2>2, AllIdle DEF IInv
  <2>4. /\ img' \in Image \cup {None} /\ UNCHANGED <<fpos, dentry, icache>>
        /\ fpos \in Nat /\ dentry \in [Name -> Answer \cup {"unknown", "negative"}]
    BY <2>1, <2>2 DEF names, inodes, IInv, Types
  <2>5. Types' /\ Threads' /\ Readers'
    BY <2>1, <2>2, <2>3, <2>4, NobodyIn DEF IInv
  <2> QED BY <1>1, <2>5 DEF IInv
<1>3. CASE ~AllocRoot
  <2>1. Still
    BY <1>3 DEF FillSuper, SbInfo, Workspace, SuperBlock, Supported, BlockCache, ReadPage, Uid, Ids,
      FragmentCache, NoFragmentIndex, FragmentIndex, ReadIndex, Lookups, ReadLookups, NewRoot, ReadRoot,
      FailedMount, Allocate, Read
  <2>2. UNCHANGED <<img, fpos, dentry, icache, dirmutex, pc, t>>
    BY <2>1 DEF Still, names, inodes
  <2> QED BY <1>1, <2>2, NotMounted DEF IInv
<1> QED BY <1>2, <1>3

\* The mounted volume: its end, and what the kernel does on its own.
LEMMA VolumeKeeps ==
  ASSUME IInv, Unmount \/ Rewind \/ Prune \/ MetaIndex
  PROVE  IInv'
<1>1. CASE Unmount
  <2>1. \A h \in Thread : pc[h] = "idle"
    BY <1>1, AllIdle DEF IInv, Unmount
  <2>2. /\ img' = None /\ fpos' = 0 /\ dentry' = [n \in Name |-> "unknown"]
        /\ icache' = [i \in Inode |-> "absent"] /\ UNCHANGED <<pc, t, dirmutex, registered>>
        /\ mount = "mounted" /\ mount' = "none" /\ ptr' = {}
        /\ Free(Freed(ptr))
        /\ IF "inode_lookup_table" \in ptr THEN Lapse("inode_lookup_table") ELSE UNCHANGED lapsed
    BY <1>1 DEF Unmount, At, To
  <2>3. Types' /\ Threads' /\ Readers'
    <3>1. dentry' \in [Name -> Answer \cup {"unknown", "negative"}] /\ fpos' \in Nat
      BY <2>2
    <3> QED BY <2>1, <2>2, <3>1, NobodyIn DEF IInv
  <2>4. Heap'
    <3> DEFINE S == Freed(ptr)
               L == ptr \cap {"inode_lookup_table"}
    <3>1. /\ S \subseteq ptr /\ L \subseteq ptr \cap Left /\ S \cap L = {}
          /\ ptr' = ptr \ (S \cup L) /\ Free(S)
      BY <2>2 DEF Freed, Left
    <3>2. lapsed' = [x \in Left |-> IF x \in L THEN lapsed[x] + 1 ELSE lapsed[x]]
      BY <2>2 DEF Lapse, IInv, Heap
    <3>3. Heap /\ ptr \subseteq Resource \ {"inode_cache"} /\ UNCHANGED registered
      BY <2>2 DEF IInv, MountState
    <3> HIDE DEF S, L
    <3> QED BY <3>1, <3>2, <3>3, ReleaseHeap
  <2>5. MountState'
    BY <2>2 DEF IInv, MountState, Pointers, Places
  <2> QED BY <2>3, <2>4, <2>5 DEF IInv
<1>2. CASE Rewind
  <2>1. /\ fpos' = 0 /\ UNCHANGED <<img, dentry, icache, dirmutex, pc, t, mountvars>>
    BY <1>2 DEF Rewind, inodes
  <2>2. Types' /\ (Threads' /\ Readers')
    <3>1. Types'
      BY <2>1 DEF IInv, Types
    <3>2. Readers'
      BY <2>1 DEF IInv, Readers
    <3>3. Threads'
      <4> SUFFICES ASSUME NEW h \in Thread
                   PROVE  (Placed(pc[h], t[h]) /\ Seeks(pc[h], t[h]))'
        BY DEF Threads
      <4>1. Placed(pc[h], t[h]) /\ Seeks(pc[h], t[h]) /\ pc'[h] = pc[h] /\ t'[h] = t[h]
        BY <2>1 DEF IInv, Threads
      <4>2. /\ AtHeader(t[h])' = AtHeader(t[h]) /\ AtEntry(t[h])' = AtEntry(t[h])
            /\ Answered(t[h])' = Answered(t[h])
        BY <2>1 DEF AtHeader, AtEntry, Answered, AtItem, EndsAt, Ahead, V3
      <4> QED BY <2>1, <4>1, <4>2 DEF Placed, Seeks, Reachable
    <3> QED BY <3>1, <3>2, <3>3
  <2> QED BY <2>1, <2>2 DEF IInv, MountState, Pointers, Heap, Held, Lost, mountvars
<1>3. CASE Prune
  <2>1. \A h \in Thread : pc[h] = "idle"
    BY <1>3, AllIdle DEF IInv, Prune
  <2>2. /\ dentry' = [n \in Name |-> "unknown"] /\ icache' = [i \in Inode |-> "absent"]
        /\ UNCHANGED <<img, fpos, pc, t, dirmutex, mountvars>>
    BY <1>3 DEF Prune, names
  <2>3. Types' /\ Threads' /\ Readers'
    <3>1. /\ dentry' \in [Name -> Answer \cup {"unknown", "negative"}] /\ fpos' \in Nat
          /\ img' \in Image \cup {None}
      BY <2>2 DEF IInv, Types
    <3> QED BY <2>1, <2>2, <3>1, NobodyIn DEF IInv
  <2> QED BY <2>2, <2>3 DEF IInv, MountState, Pointers, Heap, Held, Lost, mountvars
<1>4. CASE MetaIndex
  <2>1. /\ UNCHANGED <<img, fpos, dentry, icache, dirmutex, pc, t, registered, mount, disk>>
        /\ mount = "mounted" /\ "meta_index" \notin ptr /\ Alloc("meta_index")
    BY <1>4 DEF MetaIndex, At, dirvars, names, inodes
  <2>2. Types' /\ Threads' /\ Readers'
    BY <2>1, NotMounted DEF IInv
  <2>3. "meta_index" \in Resource \ {"inode_cache"}
    BY DEF Resource
  <2>4. Heap'
    BY <2>1, <2>3, AllocHeap DEF IInv
  <2>5. ptr' \subseteq Resource \ {"inode_cache"} /\ ptr' \ {"meta_index"} = ptr \ {"meta_index"}
    BY <2>1, <2>3 DEF Alloc, IInv, MountState
  <2>6. MountState'
    BY <2>1, <2>5 DEF IInv, MountState, Pointers
  <2> QED BY <2>2, <2>4, <2>6 DEF IInv
<1> QED BY <1>1, <1>2, <1>3, <1>4

\* Every step keeps the invariant.
LEMMA NextIInv ==
  IInv /\ [Next]_vars => IInv'
<1> SUFFICES ASSUME IInv, [Next]_vars PROVE IInv'
  OBVIOUS
<1>1. CASE InitModule \/ ExitModule \/ GetSb
  BY <1>1, ModuleKeeps
<1>2. CASE FillSuper
  BY <1>2, MountKeeps
<1>3. CASE Unmount \/ Rewind \/ Prune \/ MetaIndex
  BY <1>3, VolumeKeeps
<1>4. CASE (Call \/ Work) /\ UNCHANGED mountvars
  <2>1. PICK h \in Thread : Enter(h) \/ Step(h)
    BY <1>4 DEF Call, Work
  <2>2. img # None => Major[img] \in {2, 3}
    BY DEF IInv, MountState
  <2>3. Types' /\ Threads' /\ Readers' /\ img' = img
    BY <2>1, <2>2, OperationKeeps DEF IInv
  <2> QED BY <1>4, <2>3 DEF IInv, MountState, Pointers, Heap, Held, Lost, mountvars
<1>5. CASE UNCHANGED vars
  <2>1. UNCHANGED <<img, fpos, dentry, icache, dirmutex, pc, t, mountvars>>
    BY <1>5 DEF vars, dirvars, names, inodes
  <2>2. Types' /\ Threads' /\ Readers'
    BY <2>1, NotMounted DEF IInv
  <2> QED BY <2>1, <2>2 DEF IInv, MountState, Pointers, Heap, Held, Lost, mountvars
<1> QED BY <1>1, <1>2, <1>3, <1>4, <1>5 DEF Next

\* The invariant holds in every state of every behaviour.
THEOREM Invariant == Spec => []IInv
BY InitIInv, NextIInv, PTL DEF Spec
-------------------------------------------------------------------------------
(* What follows                                                            *)

\* Whatever works on a volume's names finds the tables its version reads: no path through
\* squashfs_fill_super mounts an image without one (inode.c, lines 1047-1266), and none is
\* freed while it is used.
THEOREM TypeCorrect == Spec => []TypeOK
<1>1. IInv => TypeOK
  <2> SUFFICES ASSUME IInv PROVE TypeOK
    OBVIOUS
  <2>0. None \notin Image
    BY SDAssumption
  <2>1. ASSUME NEW h \in Thread, NEW x \in Needs(h)
        PROVE  x \in ptr
    <3>1. pc[h] # "idle" /\ Placed(pc[h], t[h])
      BY <2>1 DEF Needs, IInv, Threads
    <3>2. img \in Image /\ Tables(img) \subseteq ptr /\ Major[img] \in {2, 3}
      BY <2>0, <3>1 DEF Placed, IInv, Types, MountState, Pointers
    <3>3. CASE pc[h] = "location"
      <4>1. t[h].ino \in Reachable(img) /\ Kind[t[h].ino] = "fragment"
        BY <3>1, <3>3 DEF Placed, Got, Reading
      <4>2. img \in Fragments
        BY <3>2, <4>1, SMAssumption
      <4>3. IndexTable(img) = {IndexOf(img)}
        BY <4>2 DEF IndexTable
      <4>4. x \in {"fragment_cache", IndexOf(img), "info", "workspace", "block_cache"}
        BY <2>1, <3>3 DEF Needs
      <4> QED BY <3>2, <4>3, <4>4 DEF Tables, Basic
    <3>4. CASE pc[h] = "table"
      <4>1. img \in Export
        BY <3>1, <3>4 DEF Placed
      <4>2. x \in {"inode_lookup_table", "info", "workspace", "block_cache"}
        BY <2>1, <3>4 DEF Needs
      <4> QED BY <3>2, <4>1, <4>2 DEF Tables, Basic, LookupTable
    <3>5. CASE pc[h] \notin {"location", "table"}
      <4>1. x \in {"uid", "info", "workspace", "block_cache"}
        BY <2>1, <3>1, <3>5 DEF Needs
      <4> QED BY <3>2, <4>1 DEF Tables, Basic
    <3> QED BY <3>3, <3>4, <3>5
  <2>2. \A x \in ptr : heap[x] > 0
    BY DEF IInv, MountState, Heap, Held, Lost
  <2>3. TablesAreThere
    BY <2>1, <2>2 DEF TablesAreThere, IInv, MountState, Pointers, Tables, Basic, At
  <2> QED BY <2>3 DEF TypeOK, IInv, Types, MountState, Heap
<1> QED BY <1>1, Invariant, PTL

\* Every allocation of a mount is freed, once, on every way out of squashfs_fill_super and when
\* the volume is unmounted (inode.c, lines 1245, 1252-1263 and 2060-2075), and the three of Left
\* stay as often as the one way was taken on which the code lets go of each, and on no other.
THEOREM NothingElseLeaks == Spec => []AllGoesBack
<1>1. IInv => AllGoesBack
  <2> SUFFICES ASSUME IInv, mount = "none" PROVE AllGoesBack
    BY DEF AllGoesBack, At
  <2>1. ptr = {} /\ img = None
    BY DEF IInv, MountState, Pointers
  <2> QED BY <2>1 DEF AllGoesBack, IInv, Heap, Held, Lost
<1> QED BY <1>1, Invariant, PTL

\* Nobody gets an inode that is still being read, and version 3 keeps none that could not be
\* (squashfs_iget and its failed_read, lines 692-695 and 958-959).
THEOREM InodesSound == Spec => []InodesAreRead
<1>1. IInv => InodesAreRead
  <2> SUFFICES ASSUME IInv PROVE InodesAreRead
    OBVIOUS
  <2>1. \A h \in Thread : t[h].answer # "new"
    BY DEF IInv, Types, Locals, Answer
  <2> QED BY <2>1 DEF InodesAreRead, IInv, Readers, Reading
<1> QED BY <1>1, Invariant, PTL

\* A lookup that no read failed in finds the inode of its name, or that there is none, by the
\* index and from the start, in a sorted directory and in one that is not (lines 1974-2044).
THEOREM LookupsAnswer == Spec => []LookupAnswers
<1>1. IInv => LookupAnswers
  <2> SUFFICES ASSUME IInv, NEW h \in Thread, pc[h] = "looked", ~t[h].hit
               PROVE  Answered(t[h])
    BY DEF LookupAnswers, Answered
  <2>1. Seeks(pc[h], t[h])
    BY DEF IInv, Threads
  <2> QED BY <2>1 DEF Seeks
<1> QED BY <1>1, Invariant, PTL

-------------------------------------------------------------------------------
(* Listings                                                                *)

\* Where a thread lists, and where it holds the directory's mutex.
Lister      == {"dots", "offset", "header", "entry", "listed"}
Holds(p, l) == p \in Lister \cup {"name", "lheader", "lentry", "looked"}
               \/ (p \in Got /\ l.then = "looked")

\* The dots are behind f_pos, and so are the names of the first j items.
Begun        == V3 => fpos >= 3
AllListed(j) == \A i \in Named(j) : i * Item + Ahead <= fpos
Stands(l, j) == l.at = Base + j * Item /\ l.len = j * Item + Ahead

\* A thread that lists is behind no name that is not listed.
Lists(p, l) ==
  /\ p = "dots" => V3
  /\ p = "offset" => ~V3
  /\ p \in {"dots", "offset", "header", "entry"} => ~strayed
  /\ p \in {"header", "entry"} => Begun
  /\ p = "header" => \E j \in 0 .. Len(Dir[img]) : Stands(l, j) /\ EndsAt(j) /\ AllListed(j)
  /\ p = "entry" => \E j \in 0 .. Len(Dir[img]) :
                      /\ Stands(l, j) /\ EndsAt(j + l.left) /\ AllListed(j)
                      /\ \A i \in j + 1 .. j + l.left : Dir[img][i] # 0
  /\ p = "listed" /\ ~l.hit /\ ~l.full => ~strayed /\ Begun /\ AllListed(Len(Dir[img]))

\* What was listed has its numbers without a gap.
Heard ==
  /\ V3 => fpos \in {0, 1} \/ fpos >= 3
  /\ V3 /\ fpos = 0 => listed = <<>>
  /\ V3 /\ fpos = 1 => listed = <<Dot>>
  /\ Begun => Len(listed) = Len(TwoDots) + Cardinality(Ended(fpos))
Volume ==
  /\ listed \in Seq(Nat) /\ strayed \in BOOLEAN
  /\ img = None => fpos = 0 /\ listed = <<>> /\ ~strayed
  /\ img # None /\ ~strayed => Given = Due(fpos) /\ Heard

ListInv ==
  /\ Volume
  /\ \A h \in Thread : Lists(pc[h], t[h]) /\ (Holds(pc[h], t[h]) => dirmutex = h)

\* The listing as a whole depends on these alone.
LEMMA VolumeKept ==
  ASSUME Volume, UNCHANGED <<img, fpos, listed, strayed>>
  PROVE  Volume'
<1>1. Given' = Given /\ TwoDots' = TwoDots /\ Begun' = Begun /\ V3' = V3
  BY DEF Given, TwoDots, Begun, V3
<1>2. Due(fpos)' = Due(fpos) /\ Ended(fpos)' = Ended(fpos)
  BY DEF Due, Ended, Named, Rank, TwoDots, Ahead, V3
<1>3. Heard' = Heard
  BY <1>1, <1>2 DEF Heard
<1> QED BY <1>1, <1>2, <1>3 DEF Volume

\* A thread that does not list is of no account.
LEMMA NotLister ==
  ASSUME NEW p, NEW l, p \notin Lister
  PROVE  Lists(p, l)
BY DEF Lists, Lister

\* The locals of a listing thread mean the same while f_pos stays.
LEMMA ListsKept ==
  ASSUME NEW p, NEW l, UNCHANGED <<img, fpos, strayed>>, Lists(p, l)
  PROVE  Lists(p, l)'
<1>1. /\ \A j : AllListed(j)' = AllListed(j)
      /\ \A j : EndsAt(j)' = EndsAt(j) /\ Stands(l, j)' = Stands(l, j)
      /\ Begun' = Begun /\ V3' = V3
  BY DEF AllListed, Named, EndsAt, Stands, Begun, Ahead, V3
<1> QED BY <1>1 DEF Lists

\* Threads that do not list go their ways.
LEMMA Elsewhere ==
  ASSUME ListInv, UNCHANGED <<img, fpos, listed, strayed>>,
         \A q \in Thread : \/ pc'[q] = pc[q] /\ t'[q] = t[q]
                           \/ pc'[q] \notin Lister
                           \/ Lists(pc'[q], t'[q]),
         \A q \in Thread : Holds(pc'[q], t'[q]) => dirmutex' = q
  PROVE  ListInv'
<1>1. Volume'
  BY VolumeKept DEF ListInv
<1>2. ASSUME NEW q \in Thread
      PROVE  Lists(pc[q], t[q])'
  <2>1. PICK p, l : p = pc'[q] /\ l = t'[q]
    OBVIOUS
  <2>2. Lists(p, l)
    BY <2>1, NotLister DEF ListInv
  <2>3. Lists(p, l)'
    BY <2>2, ListsKept
  <2> QED BY <2>1, <2>3 DEF Lists
<1>3. ASSUME NEW q \in Thread, Holds(pc[q], t[q])'
      PROVE  dirmutex' = q
  BY <1>3 DEF Holds
<1> QED BY <1>1, <1>2, <1>3 DEF ListInv

\* One thread goes on, and the names are left as they are.
LEMMA Aside ==
  ASSUME Types, ListInv, NEW h \in Thread, NEW p, NEW l,
         pc' = [pc EXCEPT ![h] = p], t' = [t EXCEPT ![h] = l],
         UNCHANGED <<img, fpos, listed, strayed>>,
         p \notin Lister \/ Lists(p, l),
         Holds(p, l) => dirmutex' = h,
         \/ dirmutex' = dirmutex
         \/ dirmutex = None
         \/ Holds(pc[h], t[h])
  PROVE  ListInv'
<1>1. /\ pc'[h] = p /\ t'[h] = l
      /\ \A q \in Thread \ {h} : pc'[q] = pc[q] /\ t'[q] = t[q]
  BY DEF Types
<1>2. ASSUME NEW q \in Thread PROVE Holds(pc'[q], t'[q]) => dirmutex' = q
  <2>1. CASE q = h
    BY <1>1, <2>1
  <2>2. CASE q # h
    <3> SUFFICES ASSUME Holds(pc[q], t[q]) PROVE dirmutex' = q
      BY <1>1, <2>2
    <3>1. dirmutex = q
      BY DEF ListInv
    <3>2. ~Holds(pc[h], t[h]) /\ dirmutex # None
      BY <2>2, <3>1, SDAssumption DEF ListInv
    <3> QED BY <3>1, <3>2
  <2> QED BY <2>1, <2>2
<1>3. \A q \in Thread : \/ pc'[q] = pc[q] /\ t'[q] = t[q]
                        \/ pc'[q] \notin Lister
                        \/ Lists(pc'[q], t'[q])
  BY <1>1
<1> QED BY <1>2, <1>3, Elsewhere

\* Who lists is alone at it, and may move f_pos.
LEMMA Listed ==
  ASSUME Types, ListInv, NEW h \in Thread, NEW p, NEW l, pc[h] \in Lister,
         pc' = [pc EXCEPT ![h] = p], t' = [t EXCEPT ![h] = l],
         UNCHANGED dirmutex, Volume', Lists(p, l)'
  PROVE  ListInv'
<1>1. /\ pc'[h] = p /\ t'[h] = l
      /\ \A q \in Thread \ {h} : pc'[q] = pc[q] /\ t'[q] = t[q]
  BY DEF Types
<1>2. dirmutex = h
  BY DEF ListInv, Holds
<1>3. ASSUME NEW q \in Thread PROVE (Lists(pc[q], t[q]) /\ (Holds(pc[q], t[q]) => dirmutex = q))'
  <2>1. CASE q = h
    <3>1. Lists(pc[q], t[q])'
      BY <1>1, <2>1 DEF Lists
    <3> QED BY <1>2, <2>1, <3>1
  <2>2. CASE q # h
    <3>1. ~Holds(pc[q], t[q])
      BY <1>2, <2>2 DEF ListInv
    <3>2. pc'[q] = pc[q] /\ t'[q] = t[q]
      BY <1>1, <2>2
    <3>3. ~Holds(pc[q], t[q])' /\ pc'[q] \notin Lister
      BY <3>1, <3>2 DEF Holds
    <3>4. Lists(pc[q], t[q])'
      BY <3>3 DEF Lists, Lister
    <3> QED BY <3>3, <3>4
  <2> QED BY <2>1, <2>2
<1> QED BY <1>3 DEF ListInv

\* Items stand one behind another.
LEMMA Order ==
  ASSUME img \in Image, NEW i \in Nat, NEW k \in Nat
  PROVE  /\ i * Item + Ahead \in Nat
         /\ i * Item + Ahead <= k * Item + Ahead <=> i <= k
         /\ (i + 1) * Item + Ahead = (i * Item + Ahead) + Item
<1>1. Item \in Nat /\ Item > 0 /\ Ahead \in Nat
  BY Sizes, ImageOf
<1> DEFINE s == Item
<1>2. \A a, b \in Nat : a < b => a * s < b * s
  <2> SUFFICES ASSUME NEW a \in Nat, NEW b \in Nat, a < b PROVE a * s < b * s
    OBVIOUS
  <2>1. PICK d \in Nat : b = a + d + 1
    <3>1. b - a - 1 \in Nat /\ b = a + (b - a - 1) + 1
      OBVIOUS
    <3> QED BY <3>1
  <2>2. b * s = a * s + d * s + s
    BY <1>1, <2>1
  <2>3. a * s \in Nat /\ d * s \in Nat
    BY <1>1
  <2> QED BY <1>1, <2>2, <2>3
<1>3. i * s \in Nat /\ k * s \in Nat /\ (i + 1) * s = i * s + s
  BY <1>1
<1>4. i < k => i * s < k * s
  BY <1>2
<1>5. k < i => k * s < i * s
  BY <1>2
<1>6. i = k => i * s = k * s
  OBVIOUS
<1>7. s \in Nat
  BY <1>1
<1> DEFINE x == i * s
           y == k * s
           z == (i + 1) * s
<1>8. /\ x \in Nat /\ y \in Nat /\ z = x + s
      /\ (i < k => x < y) /\ (k < i => y < x) /\ (i = k => x = y)
  BY <1>3, <1>4, <1>5, <1>6
<1> HIDE DEF x, y, z, s
<1>9. /\ x + Ahead \in Nat /\ (x + Ahead <= y + Ahead <=> i <= k)
      /\ z + Ahead = (x + Ahead) + s
  BY <1>1, <1>7, <1>8
<1> QED BY <1>9 DEF x, y, z, s

\* The names of the first items are counted one by one.
LEMMA NamedStep ==
  ASSUME img \in Image, NEW j \in Nat, j < Len(Dir[img])
  PROVE  /\ Cardinality(Named(j)) \in Nat
         /\ Dir[img][j + 1] # 0 => /\ Named(j + 1) = Named(j) \cup {j + 1}
                                   /\ Cardinality(Named(j + 1)) = Cardinality(Named(j)) + 1
         /\ Dir[img][j + 1] = 0 => Named(j + 1) = Named(j)
<1>1. IsFiniteSet(Named(j)) /\ Cardinality(Named(j)) \in Nat
  <2>1. IsFiniteSet(1 .. j)
    BY FS_Interval
  <2>2. Named(j) \in SUBSET (1 .. j)
    BY DEF Named
  <2> QED BY <2>1, <2>2, FS_Subset, FS_CardinalityType
<1>2. Dir[img][j + 1] # 0 => Named(j + 1) = Named(j) \cup {j + 1}
  BY DEF Named
<1>3. Dir[img][j + 1] = 0 => Named(j + 1) = Named(j)
  BY DEF Named
<1>4. j + 1 \notin Named(j)
  BY DEF Named
<1>5. Cardinality(Named(j) \cup {j + 1}) = Cardinality(Named(j)) + 1
  BY <1>1, <1>4, FS_AddElement
<1> QED BY <1>1, <1>2, <1>3, <1>5

\* Where the first j items are listed and no more, their names have ended.
LEMMA EndedIs ==
  ASSUME img \in Image, NEW j \in 0 .. Len(Dir[img]), NEW pos \in Nat,
         \A i \in Named(j) : i * Item + Ahead <= pos,
         j = Len(Dir[img]) \/ pos < (j + 1) * Item + Ahead
  PROVE  Ended(pos) = Named(j)
<1>0. Len(Dir[img]) \in Nat /\ j \in Nat
  BY ImageOf
<1>1. Named(j) \subseteq Named(Len(Dir[img]))
  BY <1>0 DEF Named
<1>2. Named(j) \subseteq Ended(pos)
  BY <1>1 DEF Ended
<1>3. ASSUME NEW i \in Ended(pos) PROVE i \in Named(j)
  <2>1. i \in 1 .. Len(Dir[img]) /\ Dir[img][i] # 0 /\ i * Item + Ahead <= pos
    BY <1>3 DEF Ended, Named
  <2>2. i \in Nat /\ j + 1 \in Nat
    BY <1>0, <2>1
  <2>3. i * Item + Ahead \in Nat /\ (j + 1) * Item + Ahead \in Nat
    BY <2>2, Order
  <2>4. i <= j
    <3>1. CASE j = Len(Dir[img])
      BY <2>1, <3>1
    <3>2. CASE pos < (j + 1) * Item + Ahead
      <4>1. ~((j + 1) * Item + Ahead <= i * Item + Ahead)
        <5> DEFINE x == i * Item + Ahead
                   y == (j + 1) * Item + Ahead
        <5>1. x \in Nat /\ y \in Nat /\ x <= pos /\ pos < y
          BY <2>1, <2>3, <3>2
        <5> HIDE DEF x, y
        <5>2. ~(y <= x)
          BY <5>1
        <5> QED BY <5>2 DEF x, y
      <4>2. ~(j + 1 <= i)
        BY <2>2, <4>1, Order
      <4> QED BY <1>0, <2>2, <4>2
    <3> QED BY <3>1, <3>2
  <2> QED BY <1>0, <2>1, <2>4 DEF Named
<1> QED BY <1>2, <1>3

\* One name more at the end of what was listed.
LEMMA Another ==
  ASSUME listed \in Seq(Nat), NEW n \in Nat, listed' = Append(listed, n)
  PROVE  /\ listed' \in Seq(Nat) /\ Len(listed) \in Nat /\ Len(listed') = Len(listed) + 1
         /\ Given' = Given \cup {<<Len(listed) + 1, n>>}
<1>1. /\ listed' \in Seq(Nat) /\ Len(listed) \in Nat /\ Len(listed') = Len(listed) + 1
      /\ DOMAIN listed' = DOMAIN listed \cup {Len(listed) + 1}
      /\ \A k \in DOMAIN listed : listed'[k] = listed[k]
      /\ listed'[Len(listed) + 1] = n
  OBVIOUS
<1>2. Given' = {<<k, listed'[k]>> : k \in DOMAIN listed'}
  BY DEF Given
<1>3. {<<k, listed'[k]>> : k \in DOMAIN listed'} =
        {<<k, listed[k]>> : k \in DOMAIN listed} \cup {<<Len(listed) + 1, n>>}
  BY <1>1, Zenon
<1> QED BY <1>1, <1>2, <1>3 DEF Given

\* Where what was listed is as it should be, so it is with the next name.
LEMMA NextName ==
  ASSUME img \in Image, Volume, ~strayed, Begun, fpos \in Nat, NEW j \in Nat, j < Len(Dir[img]),
         AllListed(j), Dir[img][j + 1] # 0, Dir[img][j + 1] \in Nat,
         fpos < (j + 1) * Item + Ahead,
         listed' = Append(listed, Dir[img][j + 1]), fpos' = (j + 1) * Item + Ahead,
         UNCHANGED <<img, strayed>>
  PROVE  Volume' /\ Begun' /\ AllListed(j + 1)'
<1>a. /\ None \notin Image /\ Len(Dir[img]) \in Nat /\ Ahead \in Nat /\ j + 1 \in Nat
      /\ j \in 0 .. Len(Dir[img]) /\ j + 1 \in 0 .. Len(Dir[img])
  <2>1. None \notin Image /\ Ahead \in Nat /\ Len(Dir[img]) \in Nat
    BY ImageOf, SDAssumption
  <2>2. \A n \in Nat : j < n => j \in 0 .. n /\ j + 1 \in 0 .. n
    OBVIOUS
  <2> QED BY <2>1, <2>2
<1> DEFINE n   == Dir[img][j + 1]
           pos == (j + 1) * Item + Ahead
<1>0. /\ None \notin Image /\ Len(Dir[img]) \in Nat /\ pos \in Nat /\ Ahead \in Nat
      /\ j \in 0 .. Len(Dir[img]) /\ j + 1 \in 0 .. Len(Dir[img]) /\ j + 1 \in Nat
  <2>1. pos \in Nat
    BY <1>a, Order
  <2> QED BY <1>a, <2>1
<1>1. /\ Ahead' = Ahead /\ V3' = V3 /\ TwoDots' = TwoDots /\ \A i : Named(i)' = Named(i)
      /\ \A i : Rank(i)' = Rank(i)
  BY DEF Ahead, V3, TwoDots, Named, Rank
<1>2. \A i \in Named(j + 1) : i * Item + Ahead <= pos
  <2> SUFFICES ASSUME NEW i \in Named(j + 1) PROVE i * Item + Ahead <= pos
    OBVIOUS
  <2>1. i \in Nat /\ i <= j + 1
    BY <1>0 DEF Named
  <2> QED BY <1>0, <2>1, Order
<1>3. Ended(fpos) = Named(j)
  BY <1>0, EndedIs DEF AllListed
<1>4. Ended(pos) = Named(j + 1)
  <2>1. j + 1 = Len(Dir[img]) \/ pos < ((j + 1) + 1) * Item + Ahead
    <3>1. ((j + 1) + 1) * Item + Ahead = pos + Item
      BY <1>0, Order
    <3> HIDE DEF pos
    <3>2. pos < pos + Item
      BY <1>0, Sizes
    <3> QED BY <3>1, <3>2
  <2> HIDE DEF pos
  <2> QED BY <1>0, <1>2, <2>1, EndedIs
<1>5. Named(j + 1) = Named(j) \cup {j + 1} /\ Cardinality(Named(j + 1)) = Cardinality(Named(j)) + 1
      /\ Cardinality(Named(j)) \in Nat
  BY NamedStep
<1>6. /\ listed' \in Seq(Nat) /\ Len(listed) \in Nat /\ Len(listed') = Len(listed) + 1
      /\ Given' = Given \cup {<<Len(listed) + 1, n>>}
  BY Another DEF Volume
<1>7. /\ Given = Due(fpos) /\ Len(TwoDots) \in Nat
      /\ Len(listed) = Len(TwoDots) + Cardinality(Named(j))
  BY <1>0, <1>3 DEF Volume, Heard, TwoDots
<1>8. Rank(j + 1) = Len(listed) + 1
  BY <1>5, <1>6, <1>7 DEF Rank
<1>9. V3 => pos >= 3
  BY <1>0 DEF Begun
<1>10. {k \in DOMAIN TwoDots : (2 * k) - 1 <= fpos} = {k \in DOMAIN TwoDots : (2 * k) - 1 <= pos}
  <2>1. CASE V3
    <3>1. fpos >= 3 /\ pos >= 3 /\ DOMAIN TwoDots = 1 .. 2
      BY <1>9, <2>1 DEF Begun, TwoDots
    <3> HIDE DEF pos
    <3> QED BY <1>0, <3>1
  <2>2. CASE ~V3
    <3>1. DOMAIN TwoDots = {}
      BY <2>2 DEF TwoDots
    <3> QED BY <3>1
  <2> QED BY <2>1, <2>2
<1>11. Due(pos) = Due(fpos) \cup {<<Len(listed) + 1, n>>}
  <2>1. {<<Rank(i), Dir[img][i]>> : i \in Named(j + 1)} =
          {<<Rank(i), Dir[img][i]>> : i \in Named(j)} \cup {<<Rank(j + 1), Dir[img][j + 1]>>}
    BY <1>5
  <2> HIDE DEF pos
  <2> QED BY <1>3, <1>4, <1>8, <1>10, <2>1 DEF Due
<1> HIDE DEF pos
<1>12. Due(fpos)' = Due(pos) /\ Ended(fpos)' = Ended(pos)
  BY <1>1 DEF Due, Ended, pos
<1>13. Given' = Due(fpos)'
  BY <1>6, <1>7, <1>11, <1>12
<1>14. fpos' = pos
  BY DEF pos
<1>15. Begun' /\ Heard'
  <2>1. Begun'
    BY <1>1, <1>9, <1>14 DEF Begun
  <2>2. Len(listed') = Len(TwoDots)' + Cardinality(Ended(fpos)')
    BY <1>1, <1>4, <1>5, <1>6, <1>7, <1>12
  <2>3. V3' => fpos' >= 3 /\ fpos' # 0 /\ fpos' # 1
    BY <1>0, <1>1, <1>9, <1>14
  <2> QED BY <2>1, <2>2, <2>3 DEF Heard
<1>16. AllListed(j + 1)'
  BY <1>1, <1>2, <1>14 DEF AllListed
<1> QED BY <1>0, <1>6, <1>13, <1>15, <1>16 DEF Volume

\* Before the first name nothing is listed.
LEMMA Nothing ==
  ASSUME img' \in Image \cup {None}, fpos' = 0, listed' = <<>>, strayed' \in BOOLEAN,
         img' = None => ~strayed'
  PROVE  Volume'
<1>1. ASSUME img' \in Image
      PROVE  (Given = Due(fpos) /\ Heard)'
  <2>1. Len(Dir[img']) \in Nat
    BY <1>1, SDImages
  <2>2. Ahead' \in Nat /\ Item \in Nat /\ Item > 0
    BY Sizes DEF Ahead
  <2>3. Ended(fpos)' = {}
    <3> SUFFICES ASSUME NEW i \in Ended(fpos)' PROVE FALSE
      OBVIOUS
    <3>1. i \in 1 .. Len(Dir[img']) /\ i * Item + Ahead' <= 0
      BY DEF Ended, Named
    <3>2. i * Item > 0 /\ i * Item \in Nat
      BY <2>1, <2>2, <3>1
    <3>3. PICK x \in Nat, y \in Nat : x = i * Item /\ y = Ahead'
      BY <2>2, <3>2
    <3>4. x > 0 /\ x + y <= 0
      BY <3>1, <3>2, <3>3
    <3> QED BY <3>4
  <2>4. {k \in DOMAIN TwoDots' : (2 * k) - 1 <= fpos'} = {}
    BY DEF TwoDots
  <2>5. Due(fpos)' = {}
    BY <2>3, <2>4 DEF Due
  <2>6. Given' = {}
    BY DEF Given
  <2>7. Begun' => TwoDots' = <<>> /\ Cardinality(Ended(fpos)') = 0
    BY <2>3, FS_EmptySet DEF Begun, TwoDots
  <2>8. Heard'
    BY <2>7 DEF Heard
  <2> QED BY <2>5, <2>6, <2>8
<1>2. listed' \in Seq(Nat)
  OBVIOUS
<1> QED BY <1>1, <1>2 DEF Volume

\* The two dots.
LEMMA DotsList ==
  ASSUME Types, Threads, ListInv, NEW h \in Thread, Dots(h)
  PROVE  ListInv'
<1>0. /\ img \in Image /\ None \notin Image /\ t[h] \in Locals /\ pc[h] = "dots" /\ fpos \in Nat
      /\ pc[h] \in Lister /\ fpos < 3 /\ V3 /\ ~strayed /\ fpos \in {0, 1}
      /\ UNCHANGED <<img, strayed, dirmutex>>
      /\ Volume /\ Heard
  <2>1. pc[h] = "dots" /\ fpos < 3 /\ UNCHANGED <<img, strayed, dirmutex>>
    BY DEF Dots
  <2>2. img \in Image /\ None \notin Image /\ t[h] \in Locals /\ fpos \in Nat
    BY <2>1, Working DEF Types
  <2>3. Lists(pc[h], t[h]) /\ Volume
    BY DEF ListInv
  <2>4. V3 /\ ~strayed
    BY <2>1, <2>3 DEF Lists
  <2>5. Heard
    BY <2>2, <2>3, <2>4 DEF Volume
  <2>6. pc[h] \in Lister
    BY <2>1 DEF Lister
  <2> QED BY <2>1, <2>2, <2>3, <2>4, <2>5, <2>6 DEF Heard
<1>1. pc \in [Thread -> Stages] /\ pc' = [pc EXCEPT ![h] = pc[h]] <=> UNCHANGED pc
  BY DEF Types, Stages
<1>2. ASSUME Set(h, [t[h] EXCEPT !.full = TRUE]), Goto(h, "listed"), UNCHANGED <<listed, fpos>>
      PROVE  ListInv'
  <2>0. PICK l : l = [t[h] EXCEPT !.full = TRUE]
    OBVIOUS
  <2>1. l.full = TRUE
    BY <1>0, <2>0 DEF Locals
  <2>2. t' = [t EXCEPT ![h] = l] /\ pc' = [pc EXCEPT ![h] = "listed"]
    BY <1>2, <2>0 DEF Set, Goto
  <2>3. Volume'
    BY <1>0, <1>2, VolumeKept
  <2>4. Lists("listed", l)'
    BY <2>1 DEF Lists
  <2> QED BY <1>0, <2>2, <2>3, <2>4, Listed
<1>3. ASSUME fpos' \in {1, 3}, fpos' = 1 => fpos = 0, fpos' = 3 => fpos = 1,
             listed' = Append(listed, IF fpos = 0 THEN Dot ELSE Dotdot), Set(h, t[h]), UNCHANGED pc
      PROVE  ListInv'
  <2>1. listed' = IF fpos' = 1 THEN <<Dot>> ELSE <<Dot, Dotdot>>
    BY <1>0, <1>3 DEF Heard
  <2>2. V3' /\ Ahead' = 3 /\ TwoDots' = <<Dot, Dotdot>> /\ Len(Dir[img]) \in Nat
    BY <1>0, ImageOf DEF V3, Ahead, TwoDots
  <2>3. Ended(fpos)' = {}
    <3> SUFFICES ASSUME NEW i \in Ended(fpos)' PROVE FALSE
      OBVIOUS
    <3>0. i \in 1 .. Len(Dir[img']) /\ i * Item + Ahead' <= fpos'
      BY DEF Ended, Named
    <3>1. i \in 1 .. Len(Dir[img]) /\ i * Item + 3 <= fpos' /\ fpos' \in {1, 3}
      BY <1>0, <1>3, <2>2, <3>0
    <3>2. i * Item > 0 /\ i * Item \in Nat
      BY <2>2, <3>1, Sizes
    <3>3. PICK x \in Nat : x = i * Item
      BY <3>2
    <3>4. x > 0 /\ x + 3 <= fpos'
      BY <3>1, <3>2, <3>3
    <3> QED BY <3>1, <3>4
  <2>4. Cardinality(Ended(fpos)') = 0
    BY <2>3, FS_EmptySet
  <2>5. Due(fpos)' = {<<k, TwoDots'[k]>> : k \in {k \in 1 .. 2 : (2 * k) - 1 <= fpos'}}
    BY <2>2, <2>3 DEF Due
  <2>6. Given' = Due(fpos)'
    <3>1. CASE fpos' = 1
      <4>1. {k \in 1 .. 2 : (2 * k) - 1 <= fpos'} = {1}
        BY <3>1
      <4>2. DOMAIN listed' = {1} /\ listed'[1] = Dot
        BY <2>1, <3>1
      <4>3. TwoDots'[1] = Dot
        BY <2>2
      <4> QED BY <2>5, <4>1, <4>2, <4>3 DEF Given
    <3>2. CASE fpos' = 3
      <4>1. {k \in 1 .. 2 : (2 * k) - 1 <= fpos'} = {1, 2}
        BY <3>2
      <4>2. DOMAIN listed' = {1, 2} /\ listed' = TwoDots'
        BY <2>1, <2>2, <3>2
      <4> QED BY <2>5, <4>1, <4>2 DEF Given
    <3> QED BY <1>3, <3>1, <3>2
  <2>7. Heard'
    <3>1. Begun' => fpos' = 3
      BY <1>3, <2>2 DEF Begun
    <3>2. Begun' => Len(listed') = Len(TwoDots)' + Cardinality(Ended(fpos)')
      BY <2>1, <2>2, <2>4, <3>1
    <3>3. fpos' = 1 => listed' = <<Dot>>
      BY <2>1
    <3> QED BY <1>3, <3>2, <3>3 DEF Heard
  <2>8. listed' \in Seq(Nat)
    BY <2>1 DEF Dot, Dotdot
  <2>9. Volume'
    BY <1>0, <2>6, <2>7, <2>8 DEF Volume
  <2>10. PICK l : l = t[h]
    OBVIOUS
  <2>11. pc' = [pc EXCEPT ![h] = "dots"] /\ t' = [t EXCEPT ![h] = l]
    BY <1>0, <1>1, <1>3, <2>10 DEF Set
  <2>12. Lists("dots", l)'
    BY <1>0, <2>2 DEF Lists
  <2> QED BY <1>0, <2>9, <2>11, <2>12, Listed
<1>4. /\ fpos = 0 => Filldir(h, Dot, 1, t[h])
      /\ fpos = 1 => Filldir(h, Dotdot, 3, t[h])
  BY <1>0 DEF Dots
<1> QED BY <1>0, <1>2, <1>3, <1>4 DEF Filldir

\* A thread that lists, while the names stay as they are.
LEMMA Onward ==
  ASSUME Types, ListInv, NEW h \in Thread, NEW p, NEW l,
         pc' = [pc EXCEPT ![h] = p], t' = [t EXCEPT ![h] = l],
         UNCHANGED <<img, fpos, listed, strayed, dirmutex>>,
         p \notin Lister \/ Lists(p, l),
         Holds(p, l) => Holds(pc[h], t[h])
  PROVE  ListInv'
<1>1. Holds(p, l) => dirmutex' = h
  BY DEF ListInv
<1>2. dirmutex' = dirmutex
  OBVIOUS
<1> QED BY <1>1, <1>2, Aside

\* A thread that is out of a call, or lists no more, is of no account.
LEMMA FaultStays ==
  ASSUME Types, ListInv, NEW h \in Thread, NEW s, FaultTo(h, s),
         UNCHANGED <<img, fpos, listed, strayed, dirmutex>>,
         s \in {"listed", "looked", "exported", "failed"},
         s \in {"listed", "looked"} => Holds(pc[h], t[h]),
         s = "failed" => (t[h].then = "looked" => Holds(pc[h], t[h])),
         t[h] \in Locals
  PROVE  ListInv'
<1>1. PICK l : l = [t[h] EXCEPT !.hit = TRUE]
  OBVIOUS
<1>2. l.hit = TRUE /\ l.then = t[h].then
  BY <1>1 DEF Locals
<1>3. pc' = [pc EXCEPT ![h] = s] /\ t' = [t EXCEPT ![h] = l]
  BY <1>1 DEF FaultTo, Goto, Set
<1>4. s \notin Lister \/ Lists(s, l)
  BY <1>2 DEF Lister, Lists
<1>5. Holds(s, l) => Holds(pc[h], t[h])
  <2>1. s = "exported" => ~Holds(s, l)
    BY DEF Holds, Lister, Got, Reading
  <2>2. s = "failed" => (Holds(s, l) => t[h].then = "looked")
    BY <1>2 DEF Holds, Lister
  <2> QED BY <2>1, <2>2
<1> QED BY <1>3, <1>4, <1>5, Onward

\* Where a jump by the offset lands, every name before it is listed.
LEMMA JumpLists ==
  ASSUME img \in Image, fpos \in Nat, NEW l \in Locals, NEW k \in 0 .. Len(Index[img]),
         ~strayed, Begun, k # 0 => Place(k) <= fpos - Ahead
  PROVE  Lists("header", Jumped(l, k))
<1> DEFINE j == IF k = 0 THEN 0 ELSE Index[img][k] - 1
<1>0. Ahead \in Nat /\ Len(Dir[img]) \in Nat /\ Len(Index[img]) \in Nat
  BY ImageOf
<1>1. /\ j \in Nat /\ EndsAt(j)
      /\ Jumped(l, k).at = Base + j * Item /\ Jumped(l, k).len = j * Item + Ahead
  BY JumpedTo
<1>2. j \in 0 .. Len(Dir[img])
  BY <1>0, <1>1 DEF EndsAt
<1>3. AllListed(j)
  <2>1. CASE k = 0
    BY <2>1 DEF AllListed, Named
  <2>2. CASE k # 0
    <3>1. Place(k) = j * Item
      BY <2>2 DEF Place
    <3> HIDE DEF j
    <3>2. j * Item <= fpos - Ahead /\ j * Item + Ahead \in Nat
      BY <1>1, <2>2, <3>1, Order
    <3>3. PICK x : x = j * Item
      OBVIOUS
    <3>4. x \in Int /\ x <= fpos - Ahead
      BY <1>1, <3>2, <3>3, Sizes
    <3>5. x + Ahead <= fpos
      BY <1>0, <3>4
    <3>6. ASSUME NEW i \in Named(j) PROVE i * Item + Ahead <= fpos
      <4>1. i \in Nat /\ i <= j
        BY <1>1 DEF Named
      <4>2. i * Item + Ahead <= x + Ahead /\ i * Item + Ahead \in Nat
        BY <1>1, <3>3, <4>1, Order
      <4>3. PICK y : y = i * Item + Ahead
        OBVIOUS
      <4>4. y \in Nat /\ y <= x + Ahead
        BY <4>2, <4>3
      <4>5. y <= fpos
        BY <1>0, <3>4, <3>5, <4>4
      <4> QED BY <4>3, <4>5
    <3> QED BY <3>6 DEF AllListed
  <2> QED BY <2>1, <2>2
<1> HIDE DEF j
<1>4. Stands(Jumped(l, k), j)
  BY <1>1 DEF Stands
<1> QED BY <1>1, <1>2, <1>3, <1>4 DEF Lists

\* The index, or the start.
LEMMA UsingOffsetLists ==
  ASSUME Types, Threads, ListInv, NEW h \in Thread, UsingOffset(h)
  PROVE  ListInv'
<1>0. /\ img \in Image /\ None \notin Image /\ t[h] \in Locals /\ fpos \in Nat
      /\ pc[h] \in {"dots", "offset"} /\ pc[h] \in Lister /\ Holds(pc[h], t[h])
      /\ UNCHANGED <<img, fpos, listed, dirmutex>>
  <2>1. pc[h] \in {"dots", "offset"} /\ UNCHANGED <<img, fpos, listed, dirmutex>>
    BY DEF UsingOffset
  <2> QED BY <2>1, Working DEF Lister, Holds, Types
<1>1. ~strayed /\ Begun
  <2>1. Lists(pc[h], t[h])
    BY DEF ListInv
  <2> QED BY <1>0, <2>1 DEF Lists, Begun, UsingOffset
<1>2. ASSUME NEW k \in 0 .. Len(Index[img]), k # 0 => Place(k) <= fpos - Ahead,
             NEW l, l = Jumped(t[h], k) \/ l = [Jumped(t[h], k) EXCEPT !.hit = TRUE],
             Set(h, l), Goto(h, "header"), UNCHANGED strayed
      PROVE  ListInv'
  <2>1. Lists("header", Jumped(t[h], k)) /\ Jumped(t[h], k) \in Locals
    BY <1>0, <1>1, <1>2, JumpLists, JumpedTo
  <2>2. l.at = Jumped(t[h], k).at /\ l.len = Jumped(t[h], k).len
    BY <1>2, <2>1 DEF Locals
  <2>3. Lists("header", l)
    BY <2>1, <2>2 DEF Lists, Stands
  <2>4. pc' = [pc EXCEPT ![h] = "header"] /\ t' = [t EXCEPT ![h] = l]
    BY <1>2 DEF Set, Goto
  <2> QED BY <1>0, <1>2, <2>3, <2>4, Onward
<1> DEFINE fits == {k \in Indexes : Place(k) <= fpos - Ahead}
           n == Len(Index[img])
           most == Cardinality({k \in Indexes : 1 .. k \subseteq fits})
           seen == Cardinality({k \in Indexes : k <= most + 1})
<1>3. CASE Set(h, Jumped(t[h], 0)) /\ Goto(h, "header") /\ UNCHANGED strayed
  <2>1. 0 \in 0 .. Len(Index[img])
    BY <1>0, ImageOf
  <2>2. PICK l : l = Jumped(t[h], 0)
    OBVIOUS
  <2> QED BY <1>2, <1>3, <2>1, <2>2
<1>4. n \in Nat /\ most \in 0 .. n /\ \A k \in 1 .. most : k \in fits
  <2>1. n \in Nat
    BY <1>0, ImageOf
  <2>2. {k \in Indexes : 1 .. k \subseteq fits} = Run(0, n, fits)
    BY <2>1 DEF Run, Indexes
  <2>3. most = Length(0, n, fits)
    BY <2>2 DEF Length
  <2> HIDE DEF n, most, fits
  <2>4. /\ Length(0, n, fits) \in Nat /\ 0 + Length(0, n, fits) <= n
        /\ \A i \in Nat : 0 < i /\ i <= 0 + Length(0, n, fits) => i \in fits
    BY <2>1, RunLength
  <2> QED BY <2>1, <2>3, <2>4
<1>5. seen \in Nat /\ seen <= most + 1
  <2> HIDE DEF n, most, fits
  <2>1. most + 1 \in Nat /\ most + 1 \in Int /\ 1 \in Int
    BY <1>4
  <2> DEFINE m == most + 1
  <2>2. m \in Nat /\ {k \in Indexes : k <= m} \in SUBSET (1 .. m)
    BY <1>4, <2>1 DEF Indexes
  <2> HIDE DEF m
  <2>3. IsFiniteSet(1 .. m) /\ Cardinality(1 .. m) = m
    BY <2>2, FS_Interval
  <2>4. Cardinality({k \in Indexes : k <= m}) \in Nat /\ Cardinality({k \in Indexes : k <= m}) <= m
    BY <2>2, <2>3, FS_Subset, FS_CardinalityType
  <2> QED BY <2>4 DEF m
<1> HIDE DEF most, seen
<1>6. \A k \in 0 .. most : /\ k \in 0 .. Len(Index[img])
                           /\ k # 0 => Place(k) <= fpos - Ahead
  BY <1>4
<1>7. CASE Search(h, fits, "header")
  <2>1. \/ Set(h, Jumped(t[h], most)) /\ Goto(h, "header") /\ UNCHANGED strayed
        \/ /\ \E k \in 0 .. seen - 1 : Set(h, [Jumped(t[h], k) EXCEPT !.hit = TRUE])
           /\ Goto(h, "header") /\ UNCHANGED strayed
        \/ /\ Set(h, [t[h] EXCEPT !.hit = TRUE, !.answer = "any"])
           /\ Goto(h, "listed") /\ strayed' = TRUE
    BY <1>7 DEF Search, most, seen
  <2>2. CASE Set(h, Jumped(t[h], most)) /\ Goto(h, "header") /\ UNCHANGED strayed
    <3>1. most \in 0 .. most
      BY <1>4
    <3>2. PICK l : l = Jumped(t[h], most)
      OBVIOUS
    <3>3. PICK k : k = most
      OBVIOUS
    <3> QED BY <1>2, <1>6, <2>2, <3>1, <3>2, <3>3
  <2>3. CASE /\ \E k \in 0 .. seen - 1 : Set(h, [Jumped(t[h], k) EXCEPT !.hit = TRUE])
             /\ Goto(h, "header") /\ UNCHANGED strayed
    <3>1. PICK k \in 0 .. seen - 1 : Set(h, [Jumped(t[h], k) EXCEPT !.hit = TRUE])
      BY <2>3
    <3>2. k \in 0 .. most
      BY <1>4, <1>5
    <3>3. PICK l : l = [Jumped(t[h], k) EXCEPT !.hit = TRUE]
      OBVIOUS
    <3> QED BY <1>2, <1>6, <2>3, <3>1, <3>2, <3>3
  <2>4. CASE /\ Set(h, [t[h] EXCEPT !.hit = TRUE, !.answer = "any"])
             /\ Goto(h, "listed") /\ strayed' = TRUE
    <3>1. PICK l : l = [t[h] EXCEPT !.hit = TRUE, !.answer = "any"]
      OBVIOUS
    <3>2. l.hit = TRUE
      BY <1>0, <3>1 DEF Locals
    <3>3. Lists("listed", l)'
      BY <3>2 DEF Lists
    <3>4. pc' = [pc EXCEPT ![h] = "listed"] /\ t' = [t EXCEPT ![h] = l]
      BY <2>4, <3>1 DEF Set, Goto
    <3>5. Volume'
      BY <1>0, <2>4 DEF Volume, ListInv
    <3> QED BY <1>0, <3>3, <3>4, <3>5, Listed
  <2> QED BY <2>1, <2>2, <2>3, <2>4
<1> QED BY <1>3, <1>7 DEF UsingOffset

\* A header of a listing.
LEMMA HeaderLists ==
  ASSUME Types, Threads, ListInv, NEW h \in Thread, Header(h, "header", "entry", "listed")
  PROVE  ListInv'
<1>0. /\ img \in Image /\ t[h] \in Locals /\ fpos \in Nat
      /\ pc[h] = "header" /\ Holds(pc[h], t[h])
      /\ UNCHANGED <<img, fpos, listed, strayed, dirmutex>>
  <2>1. pc[h] = "header" /\ UNCHANGED <<img, fpos, listed, strayed, dirmutex>>
    BY DEF Header, names
  <2> QED BY <2>1, Working DEF Lister, Holds, Types
<1>1. ~strayed /\ Begun
  <2>1. Lists(pc[h], t[h])
    BY DEF ListInv
  <2> QED BY <1>0, <2>1 DEF Lists
<1>2. PICK j \in 0 .. Len(Dir[img]) : Stands(t[h], j) /\ EndsAt(j) /\ AllListed(j)
  <2>1. Lists(pc[h], t[h])
    BY DEF ListInv
  <2> QED BY <1>0, <2>1 DEF Lists
<1>3. Len(Dir[img]) \in Nat /\ j \in Nat /\ j <= Len(Dir[img])
  BY <1>0, ImageOf
<1>4. t[h].len >= Size <=> Len(Dir[img]) <= j
  <2>1. Len(Dir[img]) * Item + Ahead <= j * Item + Ahead <=> Len(Dir[img]) <= j
    BY <1>0, <1>3, Order
  <2>2. Len(Dir[img]) * Item + Ahead \in Nat /\ j * Item + Ahead \in Nat
    BY <1>0, <1>3, Order
  <2> QED BY <1>2, <2>1, <2>2 DEF Stands, Size
<1>5. CASE Len(Dir[img]) <= j /\ Goto(h, "listed") /\ UNCHANGED t
  <2>1. j = Len(Dir[img])
    BY <1>3, <1>5
  <2>2. PICK l : l = t[h]
    OBVIOUS
  <2>3. Lists("listed", l)
    BY <1>1, <1>2, <2>1 DEF Lists
  <2>4. pc' = [pc EXCEPT ![h] = "listed"] /\ t' = [t EXCEPT ![h] = l]
    BY <1>5, <2>2 DEF Goto, Types
  <2> QED BY <1>0, <2>3, <2>4, Onward
<1>6. CASE /\ j < Len(Dir[img]) /\ Goto(h, "entry")
           /\ Set(h, [t[h] EXCEPT !.left = Count(t[h].at), !.len = @ + Item, !.at = @ + Item])
  <2> DEFINE c == Count(t[h].at)
  <2>0. t[h].at = Base + j * Item /\ t[h].len = j * Item + Ahead
    BY <1>2 DEF Stands
  <2>1. /\ c \in Nat /\ EndsAt(j + 1 + c) /\ \A i \in j + 2 .. j + 1 + c : Dir[img][i] # 0
    BY <1>0, <1>3, <1>6, <2>0, CountRead
  <2>2. PICK l : l = [t[h] EXCEPT !.left = c, !.len = @ + Item, !.at = @ + Item]
    OBVIOUS
  <2> HIDE DEF c
  <2>3. l.left = c /\ l.len = t[h].len + Item /\ l.at = t[h].at + Item
    BY <1>0, <2>1, <2>2, Moved
  <2>4. Dir[img][j + 1] = 0
    BY <1>2, <1>6 DEF EndsAt
  <2>5. AllListed(j + 1)
    BY <1>0, <1>2, <1>3, <1>6, <2>4, NamedStep DEF AllListed
  <2>6. Stands(l, j + 1)
    <3>1. (j + 1) * Item + Ahead = (j * Item + Ahead) + Item
      BY <1>0, <1>3, Order
    <3>2. Base + (j + 1) * Item = (Base + j * Item) + Item
      BY <1>3, Sizes
    <3> QED BY <2>0, <2>3, <3>1, <3>2 DEF Stands
  <2>7. j + 1 \in 0 .. Len(Dir[img])
    BY <1>3, <1>6
  <2>8. EndsAt((j + 1) + l.left) /\ \A i \in (j + 1) + 1 .. (j + 1) + l.left : Dir[img][i] # 0
    <3>1. (j + 1) + 1 = j + 2
      BY <1>3
    <3> QED BY <2>1, <2>3, <3>1
  <2>9. Lists("entry", l)
    BY <1>1, <2>5, <2>6, <2>7, <2>8 DEF Lists
  <2>10. pc' = [pc EXCEPT ![h] = "entry"] /\ t' = [t EXCEPT ![h] = l]
    BY <1>6, <2>2 DEF Goto, Set, c
  <2> QED BY <1>0, <2>9, <2>10, Onward
<1>7. CASE FaultTo(h, "listed")
  BY <1>0, <1>7, FaultStays
<1>8. Len(Dir[img]) <= j \/ j < Len(Dir[img])
  BY <1>3
<1> QED BY <1>4, <1>5, <1>6, <1>7, <1>8 DEF Header

\* The names of a header are done.
LEMMA EndOfHeaderLists ==
  ASSUME Types, Threads, ListInv, NEW h \in Thread, EndOfHeader(h, "entry", "header")
  PROVE  ListInv'
<1>0. /\ pc[h] = "entry" /\ Holds(pc[h], t[h]) /\ t[h].left = 0
      /\ UNCHANGED <<img, fpos, listed, strayed, dirmutex, t>> /\ Goto(h, "header")
  BY DEF EndOfHeader, names, Holds, Lister
<1>1. Lists("header", t[h])
  <2>1. Lists("entry", t[h])
    BY <1>0 DEF ListInv
  <2>2. img \in Image
    BY <1>0, Working
  <2>3. PICK j \in 0 .. Len(Dir[img]) : Stands(t[h], j) /\ EndsAt(j + t[h].left) /\ AllListed(j)
    BY <2>1 DEF Lists
  <2>4. j + t[h].left = j
    BY <1>0, <2>2, ImageOf
  <2> QED BY <2>1, <2>3, <2>4 DEF Lists
<1>2. PICK l : l = t[h]
  OBVIOUS
<1>3. Lists("header", l)
  BY <1>1, <1>2
<1>4. pc' = [pc EXCEPT ![h] = "header"] /\ t' = [t EXCEPT ![h] = l]
  BY <1>0, <1>2 DEF Goto, Types
<1> QED BY <1>0, <1>3, <1>4, Onward

\* An entry of a listing: the reader gets it unless it was listed before.
LEMMA EntryLists ==
  ASSUME Types, Threads, ListInv, NEW h \in Thread, Entry(h)
  PROVE  ListInv'
<1>0. /\ img \in Image /\ t[h] \in Locals /\ fpos \in Nat /\ Volume /\ pc[h] \in Lister
      /\ pc[h] = "entry" /\ Holds(pc[h], t[h]) /\ t[h].left \in Nat /\ t[h].left > 0
      /\ UNCHANGED <<img, strayed, dirmutex>>
  <2>1. pc[h] = "entry" /\ UNCHANGED <<img, strayed, dirmutex>> /\ t[h].left > 0
    BY DEF Entry
  <2>2. img \in Image /\ t[h] \in Locals /\ fpos \in Nat
    BY <2>1, Working DEF Types
  <2> QED BY <2>1, <2>2 DEF Lister, Holds, Locals, ListInv
<1>1. Lists("entry", t[h])
  BY <1>0 DEF ListInv
<1>2. ~strayed /\ Begun
  BY <1>1 DEF Lists
<1>3. PICK j \in 0 .. Len(Dir[img]) :
        /\ Stands(t[h], j) /\ EndsAt(j + t[h].left) /\ AllListed(j)
        /\ \A i \in j + 1 .. j + t[h].left : Dir[img][i] # 0
  BY <1>1 DEF Lists
<1>4. /\ Len(Dir[img]) \in Nat /\ j \in Nat /\ j < Len(Dir[img]) /\ Dir[img][j + 1] # 0
      /\ j + 1 \in 0 .. Len(Dir[img])
  <2>1. Len(Dir[img]) \in Nat /\ j \in Nat
    BY <1>0, ImageOf
  <2>2. j + t[h].left <= Len(Dir[img])
    <3>1. PICK x \in Nat : x = j + t[h].left
      BY <1>0, <2>1
    <3>2. EndsAt(x)
      BY <1>3, <3>1
    <3>3. x <= Len(Dir[img])
      BY <2>1, <3>2 DEF EndsAt
    <3> QED BY <3>1, <3>3
  <2> QED BY <1>0, <1>3, <2>1, <2>2
<1>5. /\ Passed(h).left = t[h].left - 1 /\ Passed(h) \in Locals
      /\ Passed(h).len = t[h].len + Item /\ Passed(h).at = t[h].at + Item
  BY <1>0, PassedOn
<1>6. Stands(Passed(h), j + 1) /\ t[h].len + Item = (j + 1) * Item + Ahead
  <2>1. (j + 1) * Item + Ahead = (j * Item + Ahead) + Item
    BY <1>0, <1>4, Order
  <2>2. Base + (j + 1) * Item = (Base + j * Item) + Item
    BY <1>4, Sizes
  <2> QED BY <1>3, <1>5, <2>1, <2>2 DEF Stands
<1>7. /\ EndsAt((j + 1) + Passed(h).left)
      /\ \A i \in (j + 1) + 1 .. (j + 1) + Passed(h).left : Dir[img][i] # 0
  <2>1. (j + 1) + Passed(h).left = j + t[h].left
    <3>1. \A x, y \in Nat : (x + 1) + (y - 1) = x + y
      OBVIOUS
    <3> QED BY <1>0, <1>4, <1>5, <3>1
  <2> QED BY <1>3, <1>4, <2>1
<1>8. CASE FaultTo(h, "listed") /\ UNCHANGED <<listed, fpos>>
  BY <1>0, <1>8, FaultStays
<1>9. CASE Known(t[h]) /\ Set(h, Passed(h)) /\ UNCHANGED <<listed, fpos, pc>>
  <2>1. (j + 1) * Item + Ahead <= fpos
    <3>1. fpos >= t[h].len + Item /\ t[h].len + Item \in Nat
      BY <1>0, <1>9, Sizes DEF Known, Locals
    <3> QED BY <1>0, <1>6, <3>1
  <2>2. AllListed(j + 1)
    <3>1. Named(j + 1) = Named(j) \cup {j + 1}
      BY <1>0, <1>4, NamedStep
    <3> QED BY <1>3, <2>1, <3>1 DEF AllListed
  <2>3. PICK l : l = Passed(h)
    OBVIOUS
  <2>4. Lists("entry", l)
    BY <1>2, <1>4, <1>6, <1>7, <2>2, <2>3 DEF Lists
  <2>5. pc' = [pc EXCEPT ![h] = "entry"] /\ t' = [t EXCEPT ![h] = l]
    BY <1>0, <1>9, <2>3 DEF Set, Types
  <2>6. UNCHANGED <<img, fpos, listed, strayed, dirmutex>>
    BY <1>0, <1>9
  <2>7. Holds("entry", l) => Holds(pc[h], t[h])
    BY <1>0
  <2> QED BY <2>4, <2>5, <2>6, <2>7, Onward
<1>10. CASE ~Known(t[h]) /\ Filldir(h, ItemAt(t[h].at), t[h].len + Item, Passed(h))
  <2>1. ItemAt(t[h].at) = Dir[img][j + 1]
    BY <1>0, <1>3, <1>4, ItemRead DEF Stands
  <2>2. CASE /\ listed' = Append(listed, ItemAt(t[h].at)) /\ fpos' = t[h].len + Item
             /\ Set(h, Passed(h)) /\ UNCHANGED pc
    <3>1. fpos < (j + 1) * Item + Ahead
      <4>1. t[h].len + Item \in Nat /\ ~(fpos >= t[h].len + Item)
        BY <1>0, <1>10, Sizes DEF Known, Locals
      <4> QED BY <1>0, <1>6, <4>1
    <3>2. Dir[img][j + 1] \in Nat
      <4>1. j + 1 \in 1 .. Len(Dir[img])
        BY <1>4
      <4>2. Dir[img][j + 1] \in DOMAIN Ino
        BY <1>0, <1>4, <4>1, NameOf
      <4>3. DOMAIN Ino \subseteq 10 .. 99 /\ 10 .. 99 \subseteq Nat
        BY SDAssumption
      <4> QED BY <4>2, <4>3, Zenon
    <3>3. listed' = Append(listed, Dir[img][j + 1]) /\ fpos' = (j + 1) * Item + Ahead
      BY <1>6, <2>1, <2>2
    <3>4. Volume' /\ Begun' /\ AllListed(j + 1)'
      BY <1>0, <1>2, <1>3, <1>4, <3>1, <3>2, <3>3, NextName
    <3>5. PICK l : l = Passed(h)
      OBVIOUS
    <3>6. Stands(l, j + 1)' /\ EndsAt((j + 1) + l.left)'
      BY <1>0, <1>6, <1>7, <3>5 DEF Stands, EndsAt, Ahead, V3
    <3>7. Lists("entry", l)'
      BY <1>0, <1>2, <1>4, <1>7, <3>4, <3>5, <3>6 DEF Lists
    <3>8. pc' = [pc EXCEPT ![h] = "entry"] /\ t' = [t EXCEPT ![h] = l]
      BY <1>0, <2>2, <3>5 DEF Set, Types
    <3> QED BY <1>0, <3>4, <3>7, <3>8, Listed
  <2>3. CASE /\ Set(h, [t[h] EXCEPT !.full = TRUE]) /\ Goto(h, "listed")
             /\ UNCHANGED <<listed, fpos>>
    <3>1. PICK l : l = [t[h] EXCEPT !.full = TRUE]
      OBVIOUS
    <3>2. l.full = TRUE
      BY <1>0, <3>1 DEF Locals
    <3>3. Lists("listed", l)
      BY <3>2 DEF Lists
    <3>4. pc' = [pc EXCEPT ![h] = "listed"] /\ t' = [t EXCEPT ![h] = l]
      BY <2>3, <3>1 DEF Set, Goto
    <3>5. UNCHANGED <<img, fpos, listed, strayed, dirmutex>>
      BY <1>0, <2>3
    <3> QED BY <1>0, <3>3, <3>4, <3>5, Onward
  <2> QED BY <1>10, <2>2, <2>3 DEF Filldir
<1> QED BY <1>8, <1>9, <1>10 DEF Entry

\* A thread that goes on with the same locals and lists nothing.
LEMMA GoneOn ==
  ASSUME Types, ListInv, NEW h \in Thread, NEW s, Goto(h, s), UNCHANGED t,
         UNCHANGED <<img, fpos, listed, strayed, dirmutex>>,
         s \notin Lister, Holds(s, t[h]) => Holds(pc[h], t[h])
  PROVE  ListInv'
<1>1. PICK l : l = t[h]
  OBVIOUS
<1>2. pc' = [pc EXCEPT ![h] = s] /\ t' = [t EXCEPT ![h] = l]
  BY <1>1 DEF Goto, Types
<1> QED BY <1>1, <1>2, Onward

\* The call of readdir, and of lookup.
LEMMA EnterLists ==
  ASSUME Types, Threads, ListInv, NEW h \in Thread, Enter(h)
  PROVE  ListInv'
<1>1. CASE Readdir(h)
  <2>1. /\ dirmutex = None /\ dirmutex' = h /\ ~strayed /\ pc[h] = "idle"
        /\ UNCHANGED <<img, fpos, listed, strayed>>
    BY <1>1 DEF Readdir, names
  <2>2. t[h] \in Locals
    BY DEF Types
  <2>3. PICK p, l : /\ pc' = [pc EXCEPT ![h] = p] /\ t' = [t EXCEPT ![h] = l]
                    /\ \/ p = IF V3 THEN "dots" ELSE "offset"
                       \/ p = "listed" /\ l.hit = TRUE
    <3>1. CASE Set(h, NoLocals) /\ Goto(h, IF V3 THEN "dots" ELSE "offset")
      BY <3>1 DEF Set, Goto
    <3>2. CASE FaultTo(h, "listed")
      <4>1. [t[h] EXCEPT !.hit = TRUE].hit = TRUE
        BY <2>2 DEF Locals
      <4> QED BY <3>2, <4>1 DEF FaultTo, Goto, Set
    <3> QED BY <1>1, <3>1, <3>2 DEF Readdir
  <2>4. Lists(p, l)
    BY <2>1, <2>3 DEF Lists
  <2> QED BY <2>1, <2>3, <2>4, Aside
<1>2. CASE Lookup(h)
  <2>1. /\ dirmutex = None /\ dirmutex' = h
        /\ UNCHANGED <<img, fpos, listed, strayed>>
    BY <1>2 DEF Lookup, names
  <2>2. PICK p \in {"name", "looked"} : \E l : Set(h, l) /\ Goto(h, p)
    BY <1>2 DEF Lookup
  <2>3. PICK l : pc' = [pc EXCEPT ![h] = p] /\ t' = [t EXCEPT ![h] = l]
    BY <2>2 DEF Set, Goto
  <2>4. p \notin Lister
    BY DEF Lister
  <2> QED BY <2>1, <2>3, <2>4, Aside
<1>3. CASE ExportIget(h)
  <2>1. /\ UNCHANGED <<img, fpos, listed, strayed, dirmutex>>
        /\ \E l : pc' = [pc EXCEPT ![h] = "table"] /\ t' = [t EXCEPT ![h] = l]
    BY <1>3 DEF ExportIget, names, Goto, Set
  <2>2. \A l : "table" \notin Lister /\ ~Holds("table", l)
    BY DEF Holds, Lister, Got, Reading
  <2> QED BY <2>1, <2>2, Onward
<1> QED BY <1>1, <1>2, <1>3 DEF Enter

\* A lookup moves no listing.
LEMMA LookingLists ==
  ASSUME Types, Threads, ListInv, NEW h \in Thread, Looking(h)
  PROVE  ListInv'
<1>0. pc[h] \in {"name", "lheader", "lentry"} /\ Holds(pc[h], t[h]) /\ t[h] \in Locals
  <2>1. pc[h] \in {"name", "lheader", "lentry"}
    BY DEF Looking, UsingName, Header, EndOfHeader, LookupEntry
  <2> QED BY <2>1 DEF Holds, Types
<1>1. CASE UsingName(h)
  <2>1. /\ UNCHANGED <<img, fpos, listed, strayed, dirmutex>>
        /\ \E p \in {"lheader", "looked"} : \E l :
             pc' = [pc EXCEPT ![h] = p] /\ t' = [t EXCEPT ![h] = l]
    <3>1. strayed \in BOOLEAN
      BY DEF ListInv, Volume
    <3>2. \/ \E l : Set(h, l) /\ Goto(h, "lheader") /\ UNCHANGED strayed
          \/ \E l : Set(h, l) /\ Goto(h, "looked") /\ UNCHANGED strayed
      BY <1>1, <3>1 DEF UsingName, Search
    <3> QED BY <1>1, <3>2 DEF UsingName, Set, Goto
  <2>2. \A p \in {"lheader", "looked"} : p \notin Lister
    BY DEF Lister
  <2> QED BY <1>0, <2>1, <2>2, Onward
<1>2. CASE Header(h, "lheader", "lentry", "looked")
  <2>1. UNCHANGED <<img, fpos, listed, strayed, dirmutex>>
    BY <1>2 DEF Header, names
  <2>2. CASE Goto(h, "looked") /\ UNCHANGED t
    BY <1>0, <2>1, <2>2, GoneOn DEF Lister
  <2>3. CASE \E l : Set(h, l) /\ Goto(h, "lentry")
    <3>1. "lentry" \notin Lister
      BY DEF Lister
    <3> QED BY <1>0, <2>1, <2>3, <3>1, Onward DEF Set, Goto
  <2>4. CASE FaultTo(h, "looked")
    BY <1>0, <2>1, <2>4, FaultStays
  <2> QED BY <1>2, <2>2, <2>3, <2>4 DEF Header
<1>3. CASE EndOfHeader(h, "lentry", "lheader")
  <2>1. /\ UNCHANGED <<img, fpos, listed, strayed, dirmutex>>
        /\ Goto(h, "lheader") /\ UNCHANGED t
    BY <1>3 DEF EndOfHeader, names
  <2> QED BY <1>0, <2>1, GoneOn DEF Lister
<1>4. CASE LookupEntry(h)
  <2>1. UNCHANGED <<img, fpos, listed, strayed, dirmutex>>
    BY <1>4 DEF LookupEntry, names
  <2>2. \/ FaultTo(h, "looked")
        \/ Goto(h, "looked") /\ UNCHANGED t
        \/ \E l : Set(h, l) /\ Goto(h, "iget")
        \/ Set(h, Passed(h)) /\ UNCHANGED pc
    BY <1>4 DEF LookupEntry
  <2>3. CASE FaultTo(h, "looked")
    BY <1>0, <2>1, <2>3, FaultStays
  <2>4. CASE Goto(h, "looked") /\ UNCHANGED t
    BY <1>0, <2>1, <2>4, GoneOn DEF Lister
  <2>5. CASE \E l : Set(h, l) /\ Goto(h, "iget")
    <3>1. "iget" \notin Lister
      BY DEF Lister
    <3> QED BY <1>0, <2>1, <2>5, <3>1, Onward DEF Set, Goto
  <2>6. CASE Set(h, Passed(h)) /\ UNCHANGED pc
    <3>1. PICK p, l : p = pc[h] /\ l = Passed(h)
      OBVIOUS
    <3>2. pc' = [pc EXCEPT ![h] = p] /\ t' = [t EXCEPT ![h] = l]
      BY <2>6, <3>1 DEF Set, Types
    <3>3. p \notin Lister
      BY <1>0, <3>1 DEF Lister
    <3> QED BY <1>0, <2>1, <3>2, <3>3, Onward
  <2> QED BY <2>2, <2>3, <2>4, <2>5, <2>6
<1> QED BY <1>1, <1>2, <1>3, <1>4 DEF Looking

\* Nor does the way to an inode.
LEMMA InodeLists ==
  ASSUME Types, Threads, ListInv, NEW h \in Thread, InodeLookup(h) \/ Iget(h)
  PROVE  ListInv'
<1>0. pc[h] \in {"table", "iget"} /\ t[h] \in Locals /\ Placed(pc[h], t[h])
  <2>1. pc[h] \in {"table", "iget"}
    BY DEF InodeLookup, Iget
  <2> QED BY <2>1, Working
<1>1. UNCHANGED <<img, fpos, listed, strayed, dirmutex>>
  BY DEF InodeLookup, Iget, names
<1>2. CASE InodeLookup(h)
  <2>1. pc[h] = "table" /\ t[h].then = "exported"
    BY <1>0, <1>2 DEF InodeLookup, Placed
  <2>2. CASE Goto(h, "iget") /\ UNCHANGED t
    <3>1. "iget" \notin Lister /\ ~Holds("iget", t[h])
      BY <2>1 DEF Holds, Lister
    <3> QED BY <1>1, <2>2, <3>1, GoneOn
  <2>3. CASE FaultTo(h, "exported")
    BY <1>0, <1>1, <2>3, FaultStays
  <2> QED BY <1>2, <2>2, <2>3 DEF InodeLookup
<1>3. CASE Iget(h)
  <2>1. /\ pc[h] = "iget" /\ t[h].then \in {"looked", "exported"}
        /\ t[h].then = "looked" => Holds(pc[h], t[h])
    BY <1>0, <1>3 DEF Iget, Placed, Got, Holds
  <2>2. \/ \E s \in {"base", "await"} : Goto(h, s) /\ UNCHANGED t
        \/ FaultTo(h, t[h].then)
        \/ \E a : Set(h, [t[h] EXCEPT !.answer = a]) /\ Goto(h, t[h].then)
    BY <1>3 DEF Iget
  <2>3. CASE \E s \in {"base", "await"} : Goto(h, s) /\ UNCHANGED t
    <3>1. \A s \in {"base", "await"} : s \notin Lister /\ (Holds(s, t[h]) => t[h].then = "looked")
      BY DEF Holds, Lister
    <3> QED BY <1>1, <2>1, <2>3, <3>1, GoneOn
  <2>4. CASE FaultTo(h, t[h].then)
    <3>1. PICK s \in {"looked", "exported"} : s = t[h].then
      BY <2>1
    <3> QED BY <1>0, <1>1, <2>1, <2>4, <3>1, FaultStays
  <2>5. CASE \E a : Set(h, [t[h] EXCEPT !.answer = a]) /\ Goto(h, t[h].then)
    <3>1. PICK p, l : p = t[h].then /\ Set(h, l) /\ Goto(h, p)
      BY <2>5
    <3>2. p \notin Lister /\ (Holds(p, l) => p = "looked")
      BY <2>1, <3>1 DEF Holds, Lister, Got, Reading
    <3>3. Holds(p, l) => Holds(pc[h], t[h])
      BY <2>1, <3>1, <3>2
    <3> QED BY <1>1, <3>1, <3>2, <3>3, Onward DEF Set, Goto
  <2> QED BY <2>2, <2>3, <2>4, <2>5
<1> QED BY <1>2, <1>3

\* Nor does who reads it, and wakes the others.
LEMMA ReadInodeLists ==
  ASSUME Types, Threads, ListInv, NEW h \in Thread, ReadInode(h)
  PROVE  ListInv'
<1>0. pc[h] \in Reading /\ t[h] \in Locals /\ Placed(pc[h], t[h])
  <2>1. pc[h] \in Reading
    BY DEF ReadInode, ReadBase, ReadRest, FragmentLocation, ReadFrom, Unlock, Failed, Reading
  <2>2. pc[h] # "idle"
    BY <2>1 DEF Reading
  <2> QED BY <2>1, <2>2, Working
<1>1. UNCHANGED <<img, fpos, listed, strayed, dirmutex>>
  BY DEF ReadInode, ReadBase, ReadRest, FragmentLocation, ReadFrom, Unlock, Failed, Unlocked, names
<1>2. t[h].then = "looked" => Holds(pc[h], t[h])
  BY <1>0 DEF Holds, Got
<1>3. CASE ReadBase(h) \/ ReadRest(h) \/ FragmentLocation(h)
  <2>1. PICK s \in Reading : (Goto(h, s) /\ UNCHANGED t) \/ FaultTo(h, "failed")
    BY <1>3 DEF ReadBase, ReadRest, FragmentLocation, ReadFrom, Reading
  <2>2. CASE Goto(h, s) /\ UNCHANGED t
    <3>1. s \notin Lister /\ (Holds(s, t[h]) => t[h].then = "looked")
      BY DEF Holds, Lister, Reading
    <3> QED BY <1>1, <1>2, <2>2, <3>1, GoneOn
  <2>3. CASE FaultTo(h, "failed")
    BY <1>0, <1>1, <1>2, <2>3, FaultStays
  <2> QED BY <2>1, <2>2, <2>3
<1>4. CASE Unlock(h) \/ Failed(h)
  <2>1. PICK state, answer : Unlocked(h, state, answer)
    BY <1>4 DEF Unlock, Failed
  <2>2. \A q \in Thread : /\ pc'[q] = IF q \in Woken(h) THEN t[q].then ELSE pc[q]
                          /\ q \notin Woken(h) => t'[q] = t[q]
                          /\ t'[q].then = t[q].then
    BY <2>1 DEF Unlocked, Types, Locals
  <2>3. \A q \in Woken(h) : /\ q \in Thread /\ t[q].then \in {"looked", "exported"}
                            /\ t[q].then = "looked" => dirmutex = q
    <3> SUFFICES ASSUME NEW q \in Woken(h)
                 PROVE  /\ q \in Thread /\ t[q].then \in {"looked", "exported"}
                        /\ t[q].then = "looked" => dirmutex = q
      OBVIOUS
    <3>1. q \in Thread /\ pc[q] \in Got
      BY <1>0 DEF Woken, Got
    <3>2. Placed(pc[q], t[q]) /\ (Holds(pc[q], t[q]) => dirmutex = q)
      BY <3>1 DEF Threads, ListInv
    <3> QED BY <3>1, <3>2 DEF Placed, Holds
  <2>4. ASSUME NEW q \in Thread
        PROVE  \/ pc'[q] = pc[q] /\ t'[q] = t[q]
               \/ pc'[q] \notin Lister
    BY <2>2, <2>3 DEF Lister
  <2>5. ASSUME NEW q \in Thread, Holds(pc'[q], t'[q])
        PROVE  dirmutex' = q
    <3>1. CASE q \in Woken(h)
      <4>1. pc'[q] \in {"looked", "exported"} /\ pc'[q] = t[q].then
        BY <2>2, <2>3, <3>1
      <4>2. pc'[q] = "looked"
        BY <2>5, <4>1 DEF Holds, Lister, Got, Reading
      <4> QED BY <1>1, <2>3, <3>1, <4>1, <4>2
    <3>2. CASE q \notin Woken(h)
      BY <1>1, <2>2, <2>5, <3>2 DEF ListInv
    <3> QED BY <3>1, <3>2
  <2> QED BY <1>1, <2>4, <2>5, Elsewhere
<1> QED BY <1>3, <1>4 DEF ReadInode

\* A call is done.
LEMMA ReturnLists ==
  ASSUME Types, Threads, ListInv, NEW h \in Thread, Return(h)
  PROVE  ListInv'
<1>1. /\ pc[h] \in {"listed", "looked", "exported"} /\ Set(h, NoLocals) /\ Goto(h, "idle")
      /\ UNCHANGED <<img, fpos, listed, strayed>>
      /\ pc[h] = "exported" => dirmutex' = dirmutex
  BY DEF Return, names
<1>2. pc[h] # "exported" => Holds(pc[h], t[h])
  BY <1>1 DEF Holds, Lister
<1>3. "idle" \notin Lister /\ \A l : ~Holds("idle", l)
  BY DEF Holds, Lister, Got, Reading
<1>4. PICK l : pc' = [pc EXCEPT ![h] = "idle"] /\ t' = [t EXCEPT ![h] = l]
  BY <1>1 DEF Set, Goto
<1> QED BY <1>1, <1>2, <1>3, <1>4, Aside

\* Nobody lists where nobody is in a call.
LEMMA NobodyLists ==
  ASSUME Volume', UNCHANGED pc, \A h \in Thread : pc[h] = "idle"
  PROVE  ListInv'
<1>1. \A q \in Thread : ~Holds(pc[q], t[q])' /\ pc'[q] \notin Lister
  BY DEF Holds, Lister, Got, Reading
<1>2. \A q \in Thread : Lists(pc[q], t[q])'
  BY <1>1 DEF Lists, Lister
<1> QED BY <1>1, <1>2 DEF ListInv

\* A step that leaves the names and the threads alone.
LEMMA StillLists ==
  ASSUME ListInv, UNCHANGED <<img, fpos, listed, strayed, dirmutex, pc, t>>
  PROVE  ListInv'
<1>1. \A q \in Thread : pc'[q] = pc[q] /\ t'[q] = t[q]
  OBVIOUS
<1>2. \A q \in Thread : Holds(pc'[q], t'[q]) => dirmutex' = q
  BY <1>1 DEF ListInv
<1> QED BY <1>1, <1>2, Elsewhere

\* The volume's own steps: a listing begins, and begins again.
LEMMA VolumeLists ==
  ASSUME IInv, ListInv, AllocRoot \/ Rewind \/ Unmount \/ Prune
  PROVE  ListInv'
<1>0. /\ Types /\ Threads /\ Volume /\ img \in Image \cup {None} /\ None \notin Image
      /\ None \notin Thread
  BY SDAssumption DEF IInv, ListInv, Types
<1>1. CASE AllocRoot
  <2>1. /\ mount = "dentry" /\ img' \in {disk, img}
        /\ UNCHANGED <<fpos, listed, strayed, dirmutex, pc, t>>
    BY <1>1 DEF AllocRoot, At, names
  <2>2. img = None /\ disk \in Image
    BY <2>1 DEF IInv, MountState
  <2>3. fpos' = 0 /\ listed' = <<>> /\ ~strayed' /\ strayed' \in BOOLEAN
    BY <1>0, <2>1, <2>2 DEF Volume
  <2>4. img' \in Image \cup {None}
    BY <2>1, <2>2
  <2>5. Volume'
    BY <2>3, <2>4, Nothing
  <2>6. \A h \in Thread : pc[h] = "idle"
    BY <1>0, <2>2, AllIdle
  <2> QED BY <2>1, <2>5, <2>6, NobodyLists
<1>2. CASE Rewind
  <2>1. /\ img' = img /\ dirmutex = None /\ UNCHANGED <<pc, t, dirmutex>>
        /\ fpos' = 0 /\ listed' = <<>> /\ strayed' = FALSE
    BY <1>2 DEF Rewind
  <2>2. Volume'
    <3>1. img' \in Image \cup {None}
      BY <1>0, <2>1
    <3> QED BY <2>1, <3>1, Nothing
  <2>3. \A q \in Thread : ~Holds(pc[q], t[q])
    BY <1>0, <2>1 DEF ListInv
  <2>4. \A q \in Thread : ~Holds(pc[q], t[q])' /\ pc'[q] \notin Lister
    BY <2>1, <2>3 DEF Holds
  <2>5. \A q \in Thread : Lists(pc[q], t[q])'
    BY <2>4 DEF Lists, Lister
  <2> QED BY <2>2, <2>4, <2>5 DEF ListInv
<1>3. CASE Unmount
  <2>1. /\ img' = None /\ fpos' = 0 /\ listed' = <<>> /\ strayed' = FALSE /\ UNCHANGED pc /\ ~Used
    BY <1>3 DEF Unmount
  <2>2. \A h \in Thread : pc[h] = "idle"
    BY <1>0, <2>1, AllIdle
  <2>3. Volume'
    BY <2>1, Nothing
  <2> QED BY <2>1, <2>2, <2>3, NobodyLists
<1>4. CASE Prune
  BY <1>4, StillLists DEF Prune, names
<1> QED BY <1>1, <1>2, <1>3, <1>4

\* A thread's steps.
LEMMA StepLists ==
  ASSUME Types, Threads, ListInv, NEW h \in Thread, Step(h)
  PROVE  ListInv'
<1>1. CASE Listing(h)
  BY <1>1, DotsList, UsingOffsetLists, HeaderLists, EndOfHeaderLists, EntryLists DEF Listing
<1>2. CASE Looking(h)
  BY <1>2, LookingLists
<1>3. CASE InodeLookup(h) \/ Iget(h)
  BY <1>3, InodeLists
<1>4. CASE ReadInode(h)
  BY <1>4, ReadInodeLists
<1>5. CASE Return(h)
  BY <1>5, ReturnLists
<1> QED BY <1>1, <1>2, <1>3, <1>4, <1>5 DEF Step

\* Every step keeps the listing.
LEMMA NextLists ==
  IInv /\ ListInv /\ [Next]_vars => ListInv'
<1> SUFFICES ASSUME IInv, ListInv, [Next]_vars PROVE ListInv'
  OBVIOUS
<1>0. Types /\ Threads
  BY DEF IInv
<1>1. CASE InitModule \/ ExitModule \/ GetSb \/ MetaIndex \/ (FillSuper /\ ~AllocRoot)
  <2>1. UNCHANGED <<img, fpos, listed, strayed, dirmutex, pc, t>>
    <3>1. CASE InitModule \/ ExitModule \/ GetSb \/ MetaIndex
      BY <3>1 DEF InitModule, ExitModule, GetSb, MetaIndex, dirvars, names
    <3>2. CASE FillSuper /\ ~AllocRoot
      <4>1. Still
        BY <3>2 DEF FillSuper, SbInfo, Workspace, SuperBlock, Supported, BlockCache, ReadPage,
          Uid, Ids, FragmentCache, NoFragmentIndex, FragmentIndex, ReadIndex, Lookups,
          ReadLookups, NewRoot, ReadRoot, FailedMount, Allocate, Read
      <4> QED BY <4>1 DEF Still, names
    <3> QED BY <1>1, <3>1, <3>2
  <2> QED BY <2>1, StillLists
<1>2. CASE AllocRoot \/ Rewind \/ Unmount \/ Prune
  BY <1>2, VolumeLists
<1>3. CASE Call
  BY <1>0, <1>3, EnterLists DEF Call
<1>4. CASE Work
  BY <1>0, <1>4, StepLists DEF Work
<1>5. CASE UNCHANGED vars
  BY <1>5, StillLists DEF vars, dirvars
<1> QED BY <1>1, <1>2, <1>3, <1>4, <1>5 DEF Next

\* Nothing is listed at first.
LEMMA InitLists ==
  Init => ListInv
<1> SUFFICES ASSUME Init PROVE ListInv
  OBVIOUS
<1>1. img = None /\ fpos = 0 /\ listed = <<>> /\ strayed = FALSE /\ pc = [h \in Thread |-> "idle"]
  BY DEF Init, DirInit
<1>2. Volume
  <2>1. <<>> \in Seq(Nat)
    OBVIOUS
  <2>2. listed \in Seq(Nat)
    BY <1>1, <2>1, Zenon
  <2>3. strayed \in BOOLEAN /\ ~strayed
    BY <1>1, Zenon
  <2> QED BY <1>1, <2>2, <2>3 DEF Volume
<1>3. \A h \in Thread : Lists(pc[h], t[h]) /\ ~Holds(pc[h], t[h])
  BY <1>1 DEF Lists, Holds, Lister, Got, Reading
<1> QED BY <1>2, <1>3 DEF ListInv

\* However often a listing is cut short, by its reader or by a read that failed, and taken up
\* again by the index or from the start, every name is listed once, in its order, and an end
\* that is no fault is the end of the directory (lines 1867-1934).
THEOREM ListingsWhole == Spec => []ListingIsWhole
<1>1. IInv /\ ListInv => ListingIsWhole
  <2> SUFFICES ASSUME IInv, ListInv PROVE ListingIsWhole
    OBVIOUS
  <2>1. ListedOnce
    BY DEF ListedOnce, ListInv, Volume
  <2>2. ASSUME NEW h \in Thread, pc[h] = "listed", ~t[h].full, ~t[h].hit
        PROVE  Given = Due(Size)
    <3>1. img \in Image /\ None \notin Image /\ fpos \in Nat
      BY <2>2, Working DEF IInv, Types
    <3>2. ~strayed /\ Begun /\ AllListed(Len(Dir[img]))
      BY <2>2 DEF ListInv, Lists
    <3>3. Given = Due(fpos)
      BY <3>1, <3>2 DEF ListInv, Volume
    <3> DEFINE n == Len(Dir[img])
    <3>4. n \in Nat /\ n \in 0 .. n /\ Ahead \in Nat
      BY <3>1, ImageOf
    <3>5. Ended(fpos) = Named(n)
      BY <3>1, <3>2, <3>4, EndedIs DEF AllListed
    <3>6. Size \in Nat /\ \A i \in Named(n) : i * Item + Ahead <= Size
      <4>1. \A i \in Named(n) : i \in Nat /\ i <= n
        BY <3>4 DEF Named
      <4> QED BY <3>1, <3>4, <4>1, Order DEF Size
    <3>7. Ended(Size) = Named(n)
      BY <3>1, <3>4, <3>6, EndedIs
    <3> HIDE DEF n
    <3>8. {k \in DOMAIN TwoDots : (2 * k) - 1 <= fpos} = {k \in DOMAIN TwoDots : (2 * k) - 1 <= Size}
      <4>1. CASE V3
        <5>1. DOMAIN TwoDots = 1 .. 2 /\ fpos >= 3
          BY <3>2, <4>1 DEF TwoDots, Begun
        <5>2. Size >= 3
          <6>1. n * Item \in Nat /\ Size = n * Item + 3
            BY <3>4, <4>1, Sizes DEF n, Size, Ahead
          <6> QED BY <6>1
        <5> QED BY <3>1, <3>6, <5>1, <5>2
      <4>2. CASE ~V3
        BY <4>2 DEF TwoDots
      <4> QED BY <4>1, <4>2
    <3>9. Due(Size) = Due(fpos)
      BY <3>5, <3>7, <3>8 DEF Due
    <3> QED BY <3>3, <3>9
  <2>3. EmptyMeansEnd
    BY <2>2 DEF EmptyMeansEnd
  <2> QED BY <2>1, <2>3 DEF ListingIsWhole
<1>2. Spec => []ListInv
  BY InitLists, NextLists, Invariant, PTL DEF Spec
<1> QED BY <1>1, <1>2, Invariant, PTL
====
