-------------------------- MODULE SquashfsFileProofs --------------------------
(***************************************************************************)
(* Proofs about reading files, for any files, threads and slots: a page    *)
(* that is uptodate is the file's, errors stay in their file, and a slot   *)
(* of the meta index has one filler and tells the list of one file.        *)
(*                                                                         *)
(* The argument: a thread's cursor stands at off strides of its own file's *)
(* list, wherever it took it from (CursorsStand), because the slot it took *)
(* it from was of its file and nobody else's while it was filled (Filling).*)
(* So the walk ends at the block asked for, what is read there is that     *)
(* block's, and a page is cut from it at its place (Reading, Holding).     *)
(***************************************************************************)
EXTENDS SquashfsFile, FiniteSetTheorems, WellFoundedInduction, TLAPS

-------------------------------------------------------------------------------
(* Arithmetic                                                              *)

\* Division by a positive number.
LEMMA DivFacts ==
  ASSUME NEW a \in Nat, NEW b \in Nat \ {0}
  PROVE  /\ a \div b \in Nat
         /\ (a \div b) * b <= a /\ a < (a \div b) * b + b
         /\ a % b = a - (a \div b) * b
OBVIOUS

LEMMA MulOrder ==
  ASSUME NEW a \in Nat, NEW b \in Nat, NEW c \in Nat \ {0}
  PROVE  /\ a < b => a * c + c <= b * c
         /\ a <= b => a * c <= b * c
<1>1. ASSUME a < b PROVE a * c + c <= b * c
  <2> DEFINE d == b - a - 1
  <2>1. d \in Nat /\ b = a + 1 + d
    BY <1>1
  <2>2. b * c = a * c + c + d * c
    BY <2>1
  <2>3. d * c \in Nat
    BY <2>1
  <2>4. a * c \in Nat /\ b * c \in Nat
    OBVIOUS
  <2> HIDE DEF d
  <2> QED
    BY <2>2, <2>3, <2>4
<1>2. ASSUME a <= b PROVE a * c <= b * c
  <2>1. a * c \in Nat /\ b * c \in Nat
    OBVIOUS
  <2> QED
    BY <1>1, <1>2, <2>1
<1> QED
  BY <1>1, <1>2

LEMMA MulAssoc ==
  ASSUME NEW a \in Nat, NEW b \in Nat, NEW c \in Nat
  PROVE  a * (b * c) = (a * c) * b /\ a * (b * c) \in Nat
OBVIOUS

LEMMA MulSum ==
  ASSUME NEW a \in Nat, NEW b \in Nat, NEW c \in Nat
  PROVE  (a + b) * c = a * c + b * c /\ a * c \in Nat /\ b * c \in Nat
OBVIOUS

\* The constants, taken apart.
LEMMA Constants ==
  /\ PageSize \in Nat \ {0} /\ Per \in Nat \ {0} /\ BlockSize \in Nat \ {0}
  /\ Indexes \in Nat \ {0} /\ Entries \in Nat \ {0} /\ Slots \in Nat \ {0} /\ Number \in Nat \ {0}
  /\ \A f \in File : f \in Nat \ {0} /\ Size[f] \in Nat /\ Hole[f] \subseteq Nat /\ Asked[f] \subseteq Nat
  /\ None \notin Thread /\ None \notin Nat
BY SFAssumption DEF BlockSize

LEMMA BlocksOfFile ==
  ASSUME NEW f \in File
  PROVE  /\ FileEnd(f) \in Nat /\ FileEnd(f) * BlockSize \in Nat
         /\ FileEnd(f) * BlockSize <= Size[f] /\ Size[f] < FileEnd(f) * BlockSize + BlockSize
         /\ TailLength(f) = Size[f] - FileEnd(f) * BlockSize
<1>1. Size[f] \in Nat /\ BlockSize \in Nat \ {0}
  BY Constants
<1>2. /\ FileEnd(f) \in Nat
      /\ FileEnd(f) * BlockSize <= Size[f] /\ Size[f] < FileEnd(f) * BlockSize + BlockSize
      /\ TailLength(f) = Size[f] - FileEnd(f) * BlockSize
  BY <1>1, DivFacts, Zenon DEF FileEnd, TailLength
<1>3. FileEnd(f) * BlockSize \in Nat
  BY <1>1, <1>2
<1> QED
  BY <1>2, <1>3

LEMMA PageBlock ==
  ASSUME NEW p \in Nat
  PROVE  /\ p \div Per \in Nat /\ (p \div Per) * Per \in Nat
         /\ (p \div Per) * Per <= p /\ p < (p \div Per) * Per + Per
<1>1. Per \in Nat \ {0}
  BY Constants
<1>2. p \div Per \in Nat
  BY <1>1, DivFacts
<1> QED
  BY <1>1, <1>2, DivFacts

LEMMA BlockUnits ==
  ASSUME NEW b \in Nat
  PROVE  b * BlockSize = (b * Per) * PageSize /\ b * BlockSize \in Nat
<1>1. PageSize \in Nat /\ Per \in Nat
  BY Constants
<1>2. b * (PageSize * Per) = (b * Per) * PageSize /\ b * (PageSize * Per) \in Nat
  BY <1>1, MulAssoc, Zenon
<1> QED
  BY <1>2, Zenon DEF BlockSize

\* Entries of a slot are at least one index apart.
LEMMA StrideType ==
  ASSUME NEW f \in File PROVE Stride(f) \in Nat \ {0} /\ FileEnd(f) \in Nat
<1> DEFINE b == FileEnd(f)
           w == (Slots * Entries + 1) * Indexes
<1>1. b \in Nat
  BY Constants, DivFacts DEF FileEnd
<1>2. Slots * Entries \in Nat
  BY Constants
<1>3. w \in Nat \ {0}
  BY <1>2, Constants
<1> HIDE DEF b, w
<1>4. b # 0 => (b - 1) \div w \in Nat
  BY <1>1, <1>3, DivFacts
<1>5. CalculateSkip(b) \in Nat \ {0}
  BY <1>1, <1>4 DEF CalculateSkip, w
<1>6. Indexes * CalculateSkip(b) \in Nat \ {0}
  BY <1>5, Constants
<1> QED
  BY <1>1, <1>6 DEF Stride, b

\* A page lies in the block its number says.
LEMMA PageInBlock ==
  ASSUME NEW p \in Nat, NEW i \in Nat,
         (p \div Per) * Per <= i, i < (p \div Per) * Per + Per
  PROVE  i \div Per = p \div Per
<1> DEFINE a == p \div Per
           b == i \div Per
<1>1. a \in Nat /\ b \in Nat /\ b * Per <= i /\ i < b * Per + Per /\ a * Per \in Nat /\ b * Per \in Nat
      /\ a * Per <= i /\ i < a * Per + Per
  BY Constants, DivFacts
<1>2. a < b => a * Per + Per <= b * Per
  BY <1>1, Constants, MulOrder
<1>3. b < a => b * Per + Per <= a * Per
  BY <1>1, Constants, MulOrder
<1> HIDE DEF a, b
<1>4. a = b
  BY <1>1, <1>2, <1>3, Constants
<1> QED
  BY <1>4 DEF a, b

\* A page before the end is in a block of the file.
LEMMA BlockOfFile ==
  ASSUME NEW f \in File, NEW p \in Nat, p * PageSize < Size[f]
  PROVE  p \div Per \in Nat /\ p \div Per <= FileEnd(f)
<1> DEFINE b == p \div Per
           e == FileEnd(f)
<1>1. b \in Nat /\ b * Per \in Nat /\ b * Per <= p
  BY PageBlock
<1>2. (b * Per) * PageSize <= p * PageSize /\ (b * Per) * PageSize \in Nat /\ p * PageSize \in Nat
  BY <1>1, Constants, MulOrder
<1>3. e \in Nat /\ e * BlockSize \in Nat /\ Size[f] < e * BlockSize + BlockSize
  BY BlocksOfFile
<1>4. b * BlockSize = (b * Per) * PageSize
  BY <1>1, BlockUnits
<1> HIDE DEF b, e
<1>5. e < b => e * BlockSize + BlockSize <= b * BlockSize
  BY <1>1, <1>3, Constants, MulOrder
<1>6. b <= e
  <2>1. Size[f] \in Nat
    BY Constants
  <2>2. b * BlockSize < e * BlockSize + BlockSize
    BY <1>2, <1>3, <1>4, <2>1, Constants
  <2> QED
    BY <1>1, <1>3, <1>5, <2>2, Constants
<1> QED
  BY <1>1, <1>6 DEF b, e

LEMMA MinPair ==
  ASSUME NEW a \in Int, NEW b \in Int
  PROVE  Min({a, b}) = (IF a <= b THEN a ELSE b)
<1> DEFINE m == IF a <= b THEN a ELSE b
<1>1. m \in {a, b} /\ \A y \in {a, b} : m <= y
  OBVIOUS
<1>2. \A x \in {a, b} : (\A y \in {a, b} : x <= y) => x = m
  OBVIOUS
<1> QED
  BY <1>1, <1>2 DEF Min

LEMMA MinOfNat ==
  ASSUME NEW S, S \subseteq Nat, S # {}
  PROVE  Min(S) \in S
<1> DEFINE R == OpToRel(<, Nat)
<1>1. IsWellFoundedOn(R, Nat)
  BY NatLessThanWellFounded
<1> HIDE DEF R
<1>2. \E x \in S : \A y \in S : ~(<<y, x>> \in R)
  BY <1>1, WFMin, Zenon
<1>3. PICK x \in S : \A y \in S : ~(y < x)
  BY <1>2, Zenon DEF R, OpToRel
<1>4. \A y \in S : x <= y
  BY <1>3
<1> QED
  BY <1>4 DEF Min

\* How much of its block is left for a page is how much of the file is, as far as the page
\* can hold it.
LEMMA PageCut ==
  ASSUME NEW f \in File, NEW b \in Nat, b <= FileEnd(f),
         NEW i \in Nat, b * Per <= i, i < b * Per + Per,
         NEW bytes \in Int, bytes = Length(f, b) - (i - b * Per) * PageSize, bytes > 0
  PROVE  /\ Size[f] - i * PageSize > 0
         /\ Min({bytes, PageSize}) = Min({Size[f] - i * PageSize, PageSize})
<1> DEFINE k == i - b * Per
           e == FileEnd(f)
           n == Size[f] - i * PageSize
<1>1. b * Per \in Nat /\ k \in Nat /\ k < Per /\ i = b * Per + k
  BY Constants
<1>2. i * PageSize = b * BlockSize + k * PageSize
  <2>1. i * PageSize = (b * Per) * PageSize + k * PageSize
    BY <1>1, Constants, MulSum
  <2> QED
    BY <2>1, BlockUnits
<1>3. k * PageSize \in Nat /\ b * BlockSize \in Nat /\ i * PageSize \in Nat /\ n \in Int
  BY <1>1, Constants
<1>4. e \in Nat /\ e * BlockSize \in Nat /\ e * BlockSize <= Size[f]
      /\ TailLength(f) = Size[f] - e * BlockSize
  BY BlocksOfFile
<1>5. k * PageSize + PageSize <= BlockSize
  BY <1>1, Constants, MulOrder, k < Per DEF BlockSize
<1> HIDE DEF k, e, n
<1>6. bytes = Length(f, b) - k * PageSize
  BY DEF k
<1>7. CASE b = e
  <2>1. bytes = Size[f] - e * BlockSize - k * PageSize
    BY <1>4, <1>6, <1>7 DEF Length, e
  <2>2. bytes = n
    BY <1>2, <1>3, <1>4, <1>7, <2>1, Constants DEF n
  <2> QED
    BY <2>2 DEF n
<1>8. CASE b # e
  <2>1. bytes = BlockSize - k * PageSize
    BY <1>6, <1>8 DEF Length, e
  <2>2. b < e
    BY <1>4, <1>8 DEF e
  <2>3. b * BlockSize + BlockSize <= e * BlockSize
    BY <1>4, <2>2, Constants, MulOrder
  <2>4. n >= bytes /\ bytes >= PageSize
    BY <1>2, <1>3, <1>4, <1>5, <2>1, <2>3, Constants DEF n
  <2>5. Min({bytes, PageSize}) = PageSize /\ Min({n, PageSize}) = PageSize
    BY <1>3, <2>4, Constants, MinPair
  <2> QED
    BY <2>4, <2>5, <1>3, Constants DEF n
<1> QED
  BY <1>7, <1>8

-------------------------------------------------------------------------------
(* The invariant                                                           *)

\* The thread that has a slot is filling it, for its own file; a locked slot has one.
Filling ==
  /\ \A h \in Thread :
       /\ t[h].slot # None <=> pc[h] \in {"remember", "giveup"}
       /\ t[h].slot # None => meta[t[h].slot].locked /\ meta[t[h].slot].ino = t[h].file
  /\ \A g, h \in Thread : t[h].slot # None /\ t[g].slot = t[h].slot => g = h
  /\ \A s \in Slot : meta[s].locked => \E h \in Thread : t[h].slot = s

\* A cursor on its way stands at off strides of the list; the next entry that a slot wants
\* is the next stride.
CursorsStand ==
  \A h \in Thread :
    /\ pc[h] \in {"locate", "empty", "remember", "walk"} =>
         t[h].cur = Ahead(Start, t[h].off * Stride(t[h].file))
    /\ pc[h] = "remember" /\ Wanting(h) =>
         t[h].off + 1 = meta[t[h].slot].offset + meta[t[h].slot].entries

\* A slot that is left without entries is of a file that could not be read: whoever takes a
\* slot has a stride to remember.
EmptySlots ==
  /\ \A s \in Slot : meta[s].ino # 0 /\ meta[s].entries = 0 /\ ~meta[s].locked => meta[s].ino \in Flaky
  /\ \A h \in Thread :
       /\ pc[h] = "empty" => t[h].off < MetaIndex(h)
       /\ pc[h] = "remember" /\ meta[t[h].slot].entries = 0 => meta[t[h].slot].offset <= MetaIndex(h)
       /\ pc[h] \in {"giveup", "error"} => t[h].file \in Flaky

InList   == {"locate", "empty", "remember", "giveup", "walk", "mutex", "read", "data", "hole"}
AtBlock  == {"mutex", "read", "data", "hole"}

\* What a thread is about: a page of the file, before its end, in the list or in the fragment.
Asking ==
  \A h \in Thread :
    /\ pc[h] # "idle" => t[h].file \in File /\ t[h].page \in Asked[t[h].file]
    /\ pc[h] \in InList \cup {"fragment", "tail", "link"} => t[h].page * PageSize < Size[t[h].file]
    /\ pc[h] \in InList \cup {"fragment", "tail", "beyond"} => t[h].file \notin Link
    /\ pc[h] \in InList => ~InFragment(t[h].file, Index(h))
    /\ pc[h] \in {"fragment", "tail"} => InFragment(t[h].file, Index(h))
    /\ pc[h] = "beyond" => t[h].page * PageSize >= Size[t[h].file]
    /\ pc[h] = "link" => t[h].file \in Link

\* Whoever reads or pushes has its cursor at the block asked for, and counts what is left
\* of the block as the pages go by.
Reading ==
  \A h \in Thread :
    /\ pc[h] \in AtBlock => t[h].cur = Ahead(Start, Index(h))
    /\ pc[h] \in {"mutex", "read", "data"} => Index(h) \notin Hole[t[h].file]
    /\ pc[h] = "hole" => Index(h) \in Hole[t[h].file]
    /\ pc[h] \in AtBlock \cup {"tail"} =>
         /\ First(h) <= t[h].i /\ t[h].i <= First(h) + Per
         /\ t[h].bytes = Length(t[h].file, Index(h)) - (t[h].i - First(h)) * PageSize

\* The shared buffer is of the thread that has the mutex.
Holding ==
  \A h \in Thread :
    /\ pc[h] \in {"read", "data"} => pagemutex = h
    /\ pc[h] = "data" => buf = [file |-> t[h].file, cur |-> t[h].cur]

SlotsInv == Filling /\ CursorsStand /\ EmptySlots /\ SlotsTellTheList
PagesInv == Asking /\ Reading /\ Holding /\ PagesHoldTheFile
IInv    == TypeOK /\ SlotsInv/\ PagesInv

-------------------------------------------------------------------------------
(* Types                                                                   *)

LEMMA SlotType ==
  /\ 0 \in Slot /\ Slot \subseteq Nat /\ None \notin Slot
  /\ \A n \in Nat, k \in Nat : From(n, k) \in Slot
<1>1. Number \in Nat \ {0} /\ None \notin Nat
  BY Constants
<1>2. ASSUME NEW n \in Nat, NEW k \in Nat PROVE From(n, k) \in Slot
  BY <1>1 DEF From, Slot
<1> QED
  BY <1>1, <1>2 DEF Slot

\* The pages of a block that was asked for are the kernel's to hand out.
LEMMA PagesType ==
  ASSUME NEW f \in File, NEW p \in Asked[f]
  PROVE  /\ p \in Nat /\ p \in PagesOf(f)
         /\ \A i \in Nat : (p \div Per) * Per <= i /\ i < (p \div Per) * Per + Per => i \in PagesOf(f)
<1>1. p \in Nat /\ Per \in Nat \ {0}
  BY Constants
<1>2. p \div Per \in Nat /\ (p \div Per) * Per \in Nat
      /\ (p \div Per) * Per <= p /\ p < (p \div Per) * Per + Per
  BY <1>1, PageBlock
<1>3. Per * (p \div Per) = (p \div Per) * Per
  BY <1>1, <1>2
<1>4. ASSUME NEW i \in Nat, (p \div Per) * Per <= i, i < (p \div Per) * Per + Per
      PROVE  i \in PagesOf(f)
  <2>1. i \in Per * (p \div Per) .. Per * (p \div Per) + Per - 1
    BY <1>1, <1>2, <1>3, <1>4
  <2> QED
    BY <2>1 DEF PagesOf
<1> QED
  BY <1>1, <1>2, <1>4

LEMMA InitialTypes ==
  NoMeta \in Metas /\ NoLocals \in Locals /\ NoBuf \in [file : File \cup {0}, cur : Cursor]
<1>1. Start \in Cursor
  BY DEF Start, Cursor
<1>2. NoMeta \in Metas
  BY <1>1, Constants DEF NoMeta, Metas
<1>3. NoLocals \in Locals
  BY <1>1 DEF NoLocals, Locals
<1> QED
  BY <1>1, <1>2, <1>3 DEF NoBuf

LEMMA TypeOKInit == Init => TypeOK
<1> SUFFICES ASSUME Init PROVE TypeOK
  OBVIOUS
<1>1. meta \in [Slot -> Metas] /\ t \in [Thread -> Locals] /\ pc \in [Thread -> Places]
      /\ buf \in [file : File \cup {0}, cur : Cursor]
  BY InitialTypes DEF Init, Places
<1>2. /\ DOMAIN holder = File /\ \A f \in File : holder[f] \in [PagesOf(f) -> Thread \cup {None}]
      /\ DOMAIN page = File /\ \A f \in File : DOMAIN page[f] = PagesOf(f)
      /\ nextmeta \in Slot \cup {None} /\ pagemutex \in Thread \cup {None} /\ reads \in 0 .. MaxReads
  BY SFAssumption DEF Init
<1> QED
  BY <1>1, <1>2 DEF TypeOK

LEMMA IdleSlot ==
  ASSUME TypeOK, Idle # {}
  PROVE  /\ From(Next0, Min(Idle)) \in Slot /\ ~meta[From(Next0, Min(Idle))].locked
         /\ From(From(Next0, Min(Idle)), 1) \in Slot
<1>1. Next0 \in Nat
  BY SlotType DEF TypeOK, Next0
<1>2. Idle \subseteq Nat
  BY Constants DEF Idle
<1>3. Min(Idle) \in Idle
  BY <1>2, MinOfNat
<1>4. From(Next0, Min(Idle)) \in Slot /\ ~meta[From(Next0, Min(Idle))].locked
  BY <1>1, <1>2, <1>3, SlotType DEF Idle
<1> QED
  BY <1>4, SlotType

\* One thread's locals, one slot, one page: what else there is stays as it is.
LEMMA LocalsStep ==
  ASSUME TypeOK, NEW h \in Thread, NEW l \in Locals, t' = [t EXCEPT ![h] = l]
  PROVE  t' \in [Thread -> Locals] /\ t'[h] = l /\ \A g \in Thread : g # h => t'[g] = t[g]
BY DEF TypeOK

LEMMA MetaStep ==
  ASSUME TypeOK, NEW s \in Slot, NEW m \in Metas, meta' = [meta EXCEPT ![s] = m]
  PROVE  meta' \in [Slot -> Metas] /\ meta'[s] = m /\ \A u \in Slot : u # s => meta'[u] = meta[u]
BY DEF TypeOK

LEMMA PcStep ==
  ASSUME TypeOK, NEW h \in Thread, NEW q \in Places, Goto(h, q)
  PROVE  pc' \in [Thread -> Places] /\ pc'[h] = q /\ \A g \in Thread : g # h => pc'[g] = pc[g]
BY DEF TypeOK, Goto

LEMMA CursorType ==
  \A c \in Cursor, n \in Int : Ahead(c, n) \in Cursor /\ Ahead(c, n).list = c.list + n
                               /\ Ahead(c, n).data = c.data + n
BY DEF Cursor, Ahead

\* What a thread knows while it is not idle.
LEMMA AskedTypes ==
  ASSUME TypeOK, Asking, NEW h \in Thread, pc[h] # "idle"
  PROVE  /\ t[h].file \in File /\ t[h].page \in Nat /\ t[h].page \in PagesOf(t[h].file)
         /\ Index(h) \in Nat /\ First(h) \in Nat /\ First(h) <= t[h].page /\ t[h].page < First(h) + Per
         /\ Stride(t[h].file) \in Nat \ {0} /\ MetaIndex(h) \in Nat
<1>1. t[h].file \in File /\ t[h].page \in Asked[t[h].file]
  BY DEF Asking
<1>2. t[h].page \in Nat /\ t[h].page \in PagesOf(t[h].file)
  BY <1>1, PagesType
<1>3. Index(h) \in Nat /\ First(h) \in Nat /\ First(h) <= t[h].page /\ t[h].page < First(h) + Per
  BY <1>2, PageBlock DEF Index, First
<1>4. Stride(t[h].file) \in Nat \ {0}
  BY <1>1, StrideType
<1>5. MetaIndex(h) \in Nat
  BY <1>3, <1>4, DivFacts DEF MetaIndex
<1> QED
  BY <1>1, <1>2, <1>3, <1>4, <1>5

Step(h) == Ask(h) \/ Readpage(h) \/ Mutex(h)

\* A thread's step leaves the other threads where they are.
LEMMA OthersStay ==
  ASSUME TypeOK, NEW h \in Thread, Step(h), NEW g \in Thread, g # h
  PROVE  pc'[g] = pc[g] /\ t'[g] = t[g]
<1> USE DEF TypeOK, Goto
<1>1. CASE Ask(h) \/ Locate(h) \/ NoPlace(h) \/ Empty(h) \/ NoEmpty(h) \/ Remember(h) \/ Release(h)
  <2>1. CASE Ask(h)
    BY <2>1 DEF Ask
  <2>2. CASE Locate(h)
    BY <2>2 DEF Locate
  <2>3. CASE Empty(h)
    BY <2>3 DEF Empty
  <2>4. CASE NoPlace(h) \/ NoEmpty(h)
    BY <2>4 DEF NoEmpty, NoPlace
  <2>5. CASE Remember(h)
    BY <2>5 DEF Remember
  <2>6. CASE Release(h)
    BY <2>6 DEF Release
  <2> QED
    BY <1>1, <2>1, <2>2, <2>3, <2>4, <2>5, <2>6
<1>2. CASE Walk(h) \/ Mutex(h) \/ ReadData(h) \/ Fragment(h)
  <2>1. CASE Walk(h)
    BY <2>1 DEF Walk
  <2>2. CASE Mutex(h)
    BY <2>2 DEF Mutex
  <2>3. CASE ReadData(h)
    BY <2>3 DEF ReadData
  <2>4. CASE Fragment(h)
    BY <2>4 DEF Fragment
  <2> QED
    BY <1>2, <2>1, <2>2, <2>3, <2>4
<1>3. CASE Pass(h) \/ Grab(h) \/ Push(h) \/ Finish(h) \/ Bail(h) \/ SymlinkReadpage(h)
  <2>1. CASE Pass(h) \/ Push(h)
    BY <2>1 DEF Pass, Push, Onward
  <2>2. CASE Grab(h)
    BY <2>2 DEF Grab
  <2>3. CASE Finish(h) \/ Bail(h) \/ SymlinkReadpage(h)
    BY <2>3 DEF Finish, Bail, SymlinkReadpage, Return
  <2> QED
    BY <1>3, <2>1, <2>2, <2>3
<1> QED
  BY <1>1, <1>2, <1>3 DEF Step, Readpage, GetMetaIndex

\* Every step keeps the types of the threads' locals and places.
LEMMA ThreadTypes ==
  ASSUME TypeOK, Asking, NEW h \in Thread, Step(h)
  PROVE  t' \in [Thread -> Locals] /\ pc' \in [Thread -> Places]
<1> USE InitialTypes DEF Goto, Places, Pushes
<1>0. t \in [Thread -> Locals] /\ pc \in [Thread -> Places] /\ meta \in [Slot -> Metas]
  BY DEF TypeOK
<1>1. CASE Ask(h)
  <2> PICK f \in File : \E p \in Asked[f] :
                            t' = [t EXCEPT ![h] = [NoLocals EXCEPT !.file = f, !.page = p]]
    BY <1>1 DEF Ask
  <2>1. PICK p \in Asked[f] : t' = [t EXCEPT ![h] = [NoLocals EXCEPT !.file = f, !.page = p]]
    OBVIOUS
  <2>2. p \in Nat
    BY PagesType
  <2>3. [NoLocals EXCEPT !.file = f, !.page = p] \in Locals
    BY <2>2 DEF Locals
  <2> QED
    BY <1>0, <1>1, <2>1, <2>3 DEF Ask
<1>2. CASE Locate(h)
  <2>1. PICK s \in Slot :
          LET m   == meta[s]
              off == Min({MetaIndex(h), m.offset + m.entries - 1})
          IN  /\ Usable(h, s)
              /\ IF m.entries = 0
                 THEN t' = [t EXCEPT ![h].slot = s] /\ pc' = [pc EXCEPT ![h] = "giveup"]
                 ELSE /\ t' = [t EXCEPT ![h].slot = s, ![h].off = off,
                                        ![h].cur = m.entry[off - m.offset]]
                      /\ pc' = [pc EXCEPT ![h] = "remember"]
    BY <1>2 DEF Locate, Located
  <2> DEFINE off == Min({MetaIndex(h), meta[s].offset + meta[s].entries - 1})
  <2>2. meta[s].offset \in Nat /\ meta[s].entries \in Nat /\ meta[s].entry \in [0 .. Entries - 1 -> Cursor]
        /\ meta[s].entries <= Entries /\ MetaIndex(h) \in Nat /\ meta[s].offset <= MetaIndex(h)
    <3>1. meta[s] \in Metas /\ pc[h] # "idle"
      BY <1>0, <1>2 DEF Locate
    <3>2. MetaIndex(h) \in Nat
      BY <3>1, AskedTypes
    <3>3. meta[s].offset <= MetaIndex(h)
      BY <2>1 DEF Usable
    <3> QED
      BY <3>1, <3>2, <3>3, Constants DEF Metas
  <2>3. CASE meta[s].entries = 0
    BY <1>0, <2>1, <2>3 DEF Locals
  <2>4. CASE meta[s].entries # 0
    <3>1. off \in Nat /\ off - meta[s].offset \in 0 .. Entries - 1
      <4>1. /\ MetaIndex(h) \in Int /\ meta[s].offset + meta[s].entries - 1 \in Int
            /\ meta[s].offset <= meta[s].offset + meta[s].entries - 1
        BY <2>2, <2>4
      <4>2. off \in Int /\ off >= meta[s].offset /\ off <= meta[s].offset + meta[s].entries - 1
        BY <2>2, <4>1, MinPair
      <4> HIDE DEF off
      <4> QED
        <5>1. /\ meta[s].offset \in Nat /\ meta[s].entries \in Nat /\ meta[s].entries <= Entries
              /\ Entries \in Nat
          BY <2>2, Constants
        <5> QED
          BY <4>2, <5>1
    <3>2. meta[s].entry[off - meta[s].offset] \in Cursor
      BY <2>2, <3>1
    <3> HIDE DEF off
    <3> QED
      BY <1>0, <2>1, <2>4, <3>1, <3>2 DEF Locals, off
  <2> QED
    BY <2>3, <2>4
<1>3. CASE Empty(h)
  <2>1. From(Next0, Min(Idle)) \in Slot
    BY <1>3, IdleSlot DEF Empty
  <2> QED
    BY <1>0, <1>3, <2>1 DEF Empty, Locals
<1>4. CASE NoPlace(h) \/ NoEmpty(h)
  BY <1>0, <1>4 DEF NoEmpty, NoPlace
<1>5. CASE Remember(h)
  <2> DEFINE c == Ahead(t[h].cur, Stride(t[h].file))
             l == [t[h] EXCEPT !.cur = c, !.off = t[h].off + 1]
  <2>1. Stride(t[h].file) \in Nat
    BY <1>5, AskedTypes DEF Remember
  <2>2. t[h].cur \in Cursor /\ t[h].off + 1 \in Nat
    BY <1>0 DEF Locals
  <2>3. c \in Cursor
    <3> Stride(t[h].file) \in Int
      BY <2>1
    <3> QED
      BY <2>2, CursorType, Zenon
  <2>4. t' = [t EXCEPT ![h].cur = c, ![h].off = t[h].off + 1] \/ t' = t
    BY <1>5 DEF Remember
  <2>5. pc' = pc \/ pc' = [pc EXCEPT ![h] = "giveup"]
    BY <1>5 DEF Remember
  <2> HIDE DEF c
  <2>6. l \in Locals
    BY <1>0, <2>2, <2>3 DEF Locals
  <2>7. t' = [t EXCEPT ![h] = l] \/ t' = t
    BY <1>0, <2>4 DEF Locals
  <2> HIDE DEF l
  <2> QED
    BY <1>0, <2>5, <2>6, <2>7
<1>6. CASE Release(h)
  BY <1>0, <1>6 DEF Release, Locals
<1>7. CASE Walk(h)
  <2>1. /\ t[h].file \in File /\ Index(h) \in Nat /\ First(h) \in Nat
        /\ t[h].off * Stride(t[h].file) \in Nat
    BY <1>0, <1>7, AskedTypes DEF Walk, Locals
  <2>2. Length(t[h].file, Index(h)) \in Int
    BY <2>1, BlocksOfFile, Constants DEF Length
  <2>3. Ahead(t[h].cur, Index(h) - t[h].off * Stride(t[h].file)) \in Cursor
    BY <1>0, <2>1, CursorType DEF Locals
  <2> DEFINE c == Ahead(t[h].cur, Index(h) - t[h].off * Stride(t[h].file))
  <2>4. \/ t' = [t EXCEPT ![h].cur = c, ![h].i = First(h), ![h].bytes = Length(t[h].file, Index(h))]
        \/ t' = t
    BY <1>7 DEF Walk
  <2>5. \E q \in {"hole", "mutex", "error"} : pc' = [pc EXCEPT ![h] = q]
    BY <1>7 DEF Walk
  <2> HIDE DEF c
  <2> QED
    BY <1>0, <2>1, <2>2, <2>3, <2>4, <2>5 DEF Locals, c
<1>8. CASE Mutex(h)
  BY <1>0, <1>8 DEF Mutex
<1>9. CASE ReadData(h)
  BY <1>0, <1>9 DEF ReadData
<1>10. CASE Fragment(h)
  <2>1. t[h].file \in File /\ First(h) \in Nat
    BY <1>10, AskedTypes DEF Fragment
  <2>2. TailLength(t[h].file) \in Int
    BY <2>1, BlocksOfFile, Constants
  <2> QED
    BY <1>0, <1>10, <2>1, <2>2 DEF Fragment, Locals
<1>11. CASE Pass(h) \/ Push(h)
  <2> DEFINE l == [t[h] EXCEPT !.i = t[h].i + 1, !.bytes = t[h].bytes - PageSize]
  <2>1. t[h].i + 1 \in Nat /\ t[h].bytes - PageSize \in Int
    BY <1>0, Constants DEF Locals
  <2>2. l \in Locals
    BY <1>0, <2>1 DEF Locals
  <2>3. t' = [t EXCEPT ![h] = l]
    BY <1>0, <1>11 DEF Pass, Push, Onward, Locals
  <2>4. pc' = pc
    BY <1>11 DEF Pass, Push
  <2> HIDE DEF l
  <2> QED
    BY <1>0, <2>2, <2>3, <2>4
<1>12. CASE Grab(h)
  BY <1>0, <1>12 DEF Grab
<1>13. CASE Finish(h) \/ Bail(h) \/ SymlinkReadpage(h)
  BY <1>0, <1>13 DEF Finish, Bail, SymlinkReadpage, Return
<1> QED
  BY <1>1, <1>2, <1>3, <1>4, <1>5, <1>6, <1>7, <1>8, <1>9, <1>10, <1>11, <1>12, <1>13
     DEF Step, Readpage, GetMetaIndex

-------------------------------------------------------------------------------
(* The slots of the meta index                                             *)

SlotStep(h) == Locate(h) \/ Empty(h) \/ Remember(h) \/ Release(h)

\* What is not about slots leaves them alone.
LEMMA SlotsStay ==
  ASSUME TypeOK, Filling, NEW h \in Thread, Step(h), ~SlotStep(h)
  PROVE  /\ meta' = meta
         /\ pc[h] \notin {"remember", "giveup"} /\ pc'[h] \notin {"remember", "giveup"}
         /\ t[h].slot = None /\ t'[h].slot = None
<1> USE DEF TypeOK, Goto, Locals, Filling, Pushes
<1>1. CASE Ask(h)
  BY <1>1 DEF Ask, NoLocals, shared
<1>2. CASE NoPlace(h) \/ NoEmpty(h)
  BY <1>2 DEF NoEmpty, NoPlace, shared
<1>3. CASE Walk(h)
  BY <1>3 DEF Walk, shared
<1>4. CASE Mutex(h)
  BY <1>4 DEF Mutex, shared
<1>5. CASE ReadData(h)
  BY <1>5 DEF ReadData, shared
<1>6. CASE Fragment(h)
  BY <1>6 DEF Fragment, shared
<1>7. CASE Pass(h) \/ Push(h)
  BY <1>7 DEF Pass, Push, Onward, shared
<1>8. CASE Grab(h)
  BY <1>8 DEF Grab, shared
<1>9. CASE Finish(h) \/ Bail(h) \/ SymlinkReadpage(h)
  BY <1>9 DEF Finish, Bail, SymlinkReadpage, Return, NoLocals, shared
<1> QED
  BY <1>1, <1>2, <1>3, <1>4, <1>5, <1>6, <1>7, <1>8, <1>9
     DEF Step, Readpage, GetMetaIndex, SlotStep

\* The cursor jumps to an entry of the slot at or before the one asked for.
LEMMA LocateEffect ==
  ASSUME TypeOK, Asking, NEW h \in Thread, Locate(h)
  PROVE  \E s \in Slot :
           /\ pc[h] = "locate" /\ Usable(h, s)
           /\ meta' = [meta EXCEPT ![s] = [meta[s] EXCEPT !.locked = TRUE]]
           /\ t'[h].slot = s /\ t'[h].file = t[h].file /\ t'[h].page = t[h].page
           /\ \/ meta[s].entries = 0 /\ pc'[h] = "giveup"
              \/ /\ meta[s].entries # 0 /\ pc'[h] = "remember"
                 /\ t'[h].off - meta[s].offset \in 0 .. meta[s].entries - 1
                 /\ t'[h].off = MetaIndex(h) \/ t'[h].off + 1 = meta[s].offset + meta[s].entries
                 /\ t'[h].cur = meta[s].entry[t'[h].off - meta[s].offset]
<1>0. t \in [Thread -> Locals] /\ pc \in [Thread -> Places] /\ meta \in [Slot -> Metas]
  BY DEF TypeOK
<1>1. PICK s \in Slot :
        LET m   == meta[s]
            off == Min({MetaIndex(h), m.offset + m.entries - 1})
        IN  /\ Usable(h, s)
            /\ meta' = [meta EXCEPT ![s].locked = TRUE]
            /\ IF m.entries = 0
               THEN t' = [t EXCEPT ![h].slot = s] /\ pc' = [pc EXCEPT ![h] = "giveup"]
               ELSE /\ t' = [t EXCEPT ![h].slot = s, ![h].off = off,
                                      ![h].cur = m.entry[off - m.offset]]
                    /\ pc' = [pc EXCEPT ![h] = "remember"]
  BY DEF Locate, Located, Goto
<1> DEFINE off == Min({MetaIndex(h), meta[s].offset + meta[s].entries - 1})
<1>2. pc[h] = "locate" /\ meta[s].offset \in Nat /\ meta[s].entries \in Nat
      /\ MetaIndex(h) \in Nat /\ meta[s].offset <= MetaIndex(h)
  BY <1>0, <1>1, AskedTypes DEF Metas, Usable, Locate
<1>3. meta' = [meta EXCEPT ![s] = [meta[s] EXCEPT !.locked = TRUE]]
  BY <1>1
<1>4. CASE meta[s].entries = 0
  <2>1. pc'[h] = "giveup" /\ t'[h].slot = s /\ t'[h].file = t[h].file /\ t'[h].page = t[h].page
    BY <1>0, <1>1, <1>4 DEF Locals
  <2> QED
    BY <1>1, <1>2, <1>3, <1>4, <2>1
<1>5. CASE meta[s].entries # 0
  <2>1. meta[s].offset + meta[s].entries - 1 \in Int
        /\ meta[s].offset <= meta[s].offset + meta[s].entries - 1
    BY <1>2, <1>5
  <2>2. /\ off \in Int /\ off - meta[s].offset \in 0 .. meta[s].entries - 1
        /\ off = MetaIndex(h) \/ off + 1 = meta[s].offset + meta[s].entries
    BY <1>2, <2>1, MinPair
  <2>3. /\ t' = [t EXCEPT ![h].slot = s, ![h].off = off, ![h].cur = meta[s].entry[off - meta[s].offset]]
        /\ pc' = [pc EXCEPT ![h] = "remember"]
    BY <1>1, <1>5
  <2> HIDE DEF off
  <2>4. /\ pc'[h] = "remember" /\ t'[h].slot = s /\ t'[h].file = t[h].file /\ t'[h].page = t[h].page
        /\ t'[h].off = off /\ t'[h].cur = meta[s].entry[off - meta[s].offset]
    BY <1>0, <2>3 DEF Locals
  <2> QED
    BY <1>1, <1>2, <1>3, <1>5, <2>2, <2>4
<1> QED
  BY <1>4, <1>5

LEMMA EmptyEffect ==
  ASSUME TypeOK, NEW h \in Thread, Empty(h)
  PROVE  \E s \in Slot :
           /\ pc[h] = "empty" /\ ~meta[s].locked
           /\ meta' = [meta EXCEPT ![s] = [meta[s] EXCEPT !.ino = t[h].file, !.offset = t[h].off + 1,
                                                         !.locked = TRUE, !.entries = 0]]
           /\ nextmeta' \in Slot
           /\ t'[h] = [t[h] EXCEPT !.slot = s] /\ pc'[h] = "remember"
<1> DEFINE s == From(Next0, Min(Idle))
<1>1. s \in Slot /\ ~meta[s].locked /\ From(s, 1) \in Slot
  BY IdleSlot DEF Empty
<1> HIDE DEF s
<1>2. /\ pc[h] = "empty"
      /\ meta' = [meta EXCEPT ![s] = Emptied(h, meta[s])] /\ nextmeta' = From(s, 1)
      /\ t' = [t EXCEPT ![h].slot = s] /\ pc' = [pc EXCEPT ![h] = "remember"]
  BY DEF Empty, Goto, s
<1>3. t'[h] = [t[h] EXCEPT !.slot = s] /\ pc'[h] = "remember"
  BY <1>2 DEF TypeOK
<1> QED
  BY <1>1, <1>2, <1>3 DEF Emptied, Taken

\* The slot gets the place a stride on, or the list could not be read.
LEMMA RememberEffect ==
  ASSUME TypeOK, Filling, NEW h \in Thread, Remember(h)
  PROVE  LET s == t[h].slot
             c == Ahead(t[h].cur, Stride(t[h].file))
         IN  /\ pc[h] = "remember" /\ Wanting(h) /\ s \in Slot
             /\ \/ /\ meta' = [meta EXCEPT ![s] = [meta[s] EXCEPT !.entries = meta[s].entries + 1,
                                                     !.entry = [meta[s].entry EXCEPT ![meta[s].entries] = c]]]
                   /\ t'[h] = [t[h] EXCEPT !.cur = c, !.off = t[h].off + 1]
                   /\ pc'[h] = "remember"
                \/ meta' = meta /\ t' = t /\ pc'[h] = "giveup" /\ t[h].file \in Flaky
<1>1. pc[h] = "remember" /\ Wanting(h)
  BY DEF Remember
<1>2. t[h].slot \in Slot
  BY <1>1 DEF Filling, TypeOK, Locals
<1> DEFINE s == t[h].slot
           c == Ahead(t[h].cur, Stride(t[h].file))
<1>3. \/ /\ meta' = [meta EXCEPT ![s].entries = meta[s].entries + 1, ![s].entry[meta[s].entries] = c]
         /\ t' = [t EXCEPT ![h].cur = c, ![h].off = t[h].off + 1] /\ pc' = pc
      \/ t[h].file \in Flaky /\ pc' = [pc EXCEPT ![h] = "giveup"] /\ meta' = meta /\ t' = t
  BY DEF Remember, Goto
<1> HIDE DEF s, c
<1>4. s \in Slot
  BY <1>2 DEF s
<1>5. CASE /\ meta' = [meta EXCEPT ![s].entries = meta[s].entries + 1, ![s].entry[meta[s].entries] = c]
           /\ t' = [t EXCEPT ![h].cur = c, ![h].off = t[h].off + 1] /\ pc' = pc
  <2>1. meta' = [meta EXCEPT ![s] = [meta[s] EXCEPT !.entries = meta[s].entries + 1,
                                       !.entry = [meta[s].entry EXCEPT ![meta[s].entries] = c]]]
    BY <1>4, <1>5 DEF TypeOK, Metas
  <2>2. t'[h] = [t[h] EXCEPT !.cur = c, !.off = t[h].off + 1]
    BY <1>5 DEF TypeOK, Locals
  <2> QED
    BY <1>1, <1>4, <1>5, <2>1, <2>2 DEF s, c
<1>6. CASE t[h].file \in Flaky /\ pc' = [pc EXCEPT ![h] = "giveup"] /\ meta' = meta /\ t' = t
  BY <1>1, <1>4, <1>6 DEF s, TypeOK
<1> QED
  BY <1>3, <1>5, <1>6

LEMMA ReleaseEffect ==
  ASSUME TypeOK, Filling, NEW h \in Thread, Release(h)
  PROVE  LET s == t[h].slot
         IN  /\ s \in Slot /\ (pc[h] = "giveup" \/ (pc[h] = "remember" /\ ~Wanting(h)))
             /\ meta' = [meta EXCEPT ![s] = [meta[s] EXCEPT !.locked = FALSE]]
             /\ t'[h] = [t[h] EXCEPT !.slot = None]
             /\ pc'[h] = (IF pc[h] = "giveup" THEN "error" ELSE "locate")
<1>1. t[h].slot \in Slot
  BY DEF Release, Filling, TypeOK, Locals
<1> QED
  BY <1>1 DEF Release, Goto, TypeOK

LEMMA MetaRecords ==
  ASSUME NEW m \in Metas
  PROVE  /\ [m EXCEPT !.locked = TRUE] \in Metas /\ [m EXCEPT !.locked = FALSE] \in Metas
         /\ \A f \in File, n \in Nat :
              [m EXCEPT !.ino = f, !.offset = n, !.locked = TRUE, !.entries = 0] \in Metas
         /\ \A c \in Cursor : m.entries < Entries =>
              [m EXCEPT !.entries = m.entries + 1, !.entry = [m.entry EXCEPT ![m.entries] = c]] \in Metas
<1>1. m.entries \in 0 .. Entries /\ m.entry \in [0 .. Entries - 1 -> Cursor] /\ Entries \in Nat \ {0}
  BY Constants DEF Metas
<1>2. [m EXCEPT !.locked = TRUE] \in Metas /\ [m EXCEPT !.locked = FALSE] \in Metas
  BY DEF Metas
<1>3. ASSUME NEW f \in File, NEW n \in Nat
      PROVE  [m EXCEPT !.ino = f, !.offset = n, !.locked = TRUE, !.entries = 0] \in Metas
  <2>1. 0 \in 0 .. Entries
    BY <1>1
  <2> QED
    BY <2>1 DEF Metas
<1>4. ASSUME NEW c \in Cursor, m.entries < Entries
      PROVE  [m EXCEPT !.entries = m.entries + 1, !.entry = [m.entry EXCEPT ![m.entries] = c]] \in Metas
  <2>1. m.entries + 1 \in 0 .. Entries
    BY <1>1, <1>4
  <2>2. [m.entry EXCEPT ![m.entries] = c] \in [0 .. Entries - 1 -> Cursor]
    BY <1>1, <1>4
  <2> QED
    BY <2>1, <2>2 DEF Metas
<1> QED
  BY <1>2, <1>3, <1>4

LEMMA MetaTypes ==
  ASSUME TypeOK, Asking, Filling, NEW h \in Thread, Step(h)
  PROVE  meta' \in [Slot -> Metas]
<1>0. meta \in [Slot -> Metas] /\ t[h] \in Locals
  BY DEF TypeOK
<1>1. CASE Locate(h)
  <2>1. PICK s \in Slot : meta' = [meta EXCEPT ![s] = [meta[s] EXCEPT !.locked = TRUE]]
    BY <1>1, LocateEffect
  <2> QED
    BY <1>0, <2>1, MetaRecords
<1>2. CASE Empty(h)
  <2>1. PICK s \in Slot :
          meta' = [meta EXCEPT ![s] = [meta[s] EXCEPT !.ino = t[h].file, !.offset = t[h].off + 1,
                                                     !.locked = TRUE, !.entries = 0]]
    BY <1>2, EmptyEffect, Zenon
  <2>2. t[h].file \in File /\ t[h].off + 1 \in Nat
    BY <1>0, <1>2, AskedTypes DEF Locals, Empty
  <2> QED
    BY <1>0, <2>1, <2>2, MetaRecords
<1>3. CASE Remember(h)
  <2> DEFINE s == t[h].slot
             c == Ahead(t[h].cur, Stride(t[h].file))
             m == [meta[s] EXCEPT !.entries = meta[s].entries + 1,
                                  !.entry = [meta[s].entry EXCEPT ![meta[s].entries] = c]]
  <2>1. s \in Slot /\ Wanting(h) /\ (meta' = [meta EXCEPT ![s] = m] \/ meta' = meta)
    BY <1>3, RememberEffect
  <2>2. c \in Cursor
    <3>1. Stride(t[h].file) \in Nat
      BY <1>3, AskedTypes DEF Remember
    <3>2. t[h].cur \in Cursor
      BY <1>0 DEF Locals
    <3> QED
      BY <3>1, <3>2, CursorType
  <2>3. meta[s].entries < Entries /\ meta[s] \in Metas
    BY <1>0, <2>1 DEF Wanting
  <2> HIDE DEF c
  <2>4. m \in Metas
    BY <2>2, <2>3, MetaRecords
  <2> QED
    BY <1>0, <2>1, <2>4
<1>4. CASE Release(h)
  <2>1. t[h].slot \in Slot
        /\ meta' = [meta EXCEPT ![t[h].slot] = [meta[t[h].slot] EXCEPT !.locked = FALSE]]
    BY <1>4, ReleaseEffect
  <2> QED
    BY <1>0, <2>1, MetaRecords
<1>5. CASE ~SlotStep(h)
  BY <1>0, <1>5, SlotsStay
<1> QED
  BY <1>1, <1>2, <1>3, <1>4, <1>5 DEF SlotStep

\* The slot is locked or not, and the same otherwise; every other slot is as it was.
Relocked(s, b) ==
  /\ meta'[s].locked = b
  /\ meta'[s].ino = meta[s].ino /\ meta'[s].offset = meta[s].offset
  /\ meta'[s].entries = meta[s].entries /\ meta'[s].entry = meta[s].entry
  /\ \A u \in Slot : u # s => meta'[u] = meta[u]

Retaken(h, s) ==
  /\ meta'[s].locked = TRUE
  /\ meta'[s].ino = t[h].file /\ meta'[s].offset = t[h].off + 1 /\ meta'[s].entries = 0
  /\ \A u \in Slot : u # s => meta'[u] = meta[u]

Extended(s, c) ==
  /\ meta'[s].locked = meta[s].locked
  /\ meta'[s].ino = meta[s].ino /\ meta'[s].offset = meta[s].offset
  /\ meta'[s].entries = meta[s].entries + 1
  /\ meta'[s].entry = [meta[s].entry EXCEPT ![meta[s].entries] = c]
  /\ \A u \in Slot : u # s => meta'[u] = meta[u]

LEMMA SlotUpdates ==
  ASSUME TypeOK, NEW s \in Slot
  PROVE  /\ \A b \in BOOLEAN : meta' = [meta EXCEPT ![s] = [meta[s] EXCEPT !.locked = b]] => Relocked(s, b)
         /\ \A h \in Thread :
              meta' = [meta EXCEPT ![s] = [meta[s] EXCEPT !.ino = t[h].file, !.offset = t[h].off + 1,
                                                          !.locked = TRUE, !.entries = 0]]
              => Retaken(h, s)
         /\ \A c : meta' = [meta EXCEPT ![s] = [meta[s] EXCEPT !.entries = meta[s].entries + 1,
                                                  !.entry = [meta[s].entry EXCEPT ![meta[s].entries] = c]]]
                   => Extended(s, c)
<1>0. meta[s] \in Metas /\ meta \in [Slot -> Metas]
  BY DEF TypeOK
<1>1. ASSUME NEW m, meta' = [meta EXCEPT ![s] = m]
      PROVE  meta'[s] = m /\ \A u \in Slot : u # s => meta'[u] = meta[u]
  BY <1>0, <1>1
<1>2. ASSUME NEW b \in BOOLEAN, meta' = [meta EXCEPT ![s] = [meta[s] EXCEPT !.locked = b]]
      PROVE  Relocked(s, b)
  <2> DEFINE m == [meta[s] EXCEPT !.locked = b]
  <2>1. m.locked = b /\ m.ino = meta[s].ino /\ m.offset = meta[s].offset
        /\ m.entries = meta[s].entries /\ m.entry = meta[s].entry
    BY <1>0, Zenon DEF Metas
  <2>2. meta'[s] = m /\ \A u \in Slot : u # s => meta'[u] = meta[u]
    BY <1>1, <1>2, Zenon
  <2> HIDE DEF m
  <2> QED
    BY <2>1, <2>2, Zenon DEF Relocked
<1>3. ASSUME NEW h \in Thread,
             meta' = [meta EXCEPT ![s] = [meta[s] EXCEPT !.ino = t[h].file, !.offset = t[h].off + 1,
                                                         !.locked = TRUE, !.entries = 0]]
      PROVE  Retaken(h, s)
  <2> DEFINE m == [meta[s] EXCEPT !.ino = t[h].file, !.offset = t[h].off + 1, !.locked = TRUE, !.entries = 0]
  <2>1. m.locked = TRUE /\ m.ino = t[h].file /\ m.offset = t[h].off + 1 /\ m.entries = 0
    BY <1>0, Zenon DEF Metas
  <2>2. meta'[s] = m /\ \A u \in Slot : u # s => meta'[u] = meta[u]
    BY <1>1, <1>3, Zenon
  <2> HIDE DEF m
  <2> QED
    BY <2>1, <2>2, Zenon DEF Retaken
<1>4. ASSUME NEW c, meta' = [meta EXCEPT ![s] = [meta[s] EXCEPT !.entries = meta[s].entries + 1,
                                                   !.entry = [meta[s].entry EXCEPT ![meta[s].entries] = c]]]
      PROVE  Extended(s, c)
  <2> DEFINE e == [meta[s].entry EXCEPT ![meta[s].entries] = c]
             m == [meta[s] EXCEPT !.entries = meta[s].entries + 1, !.entry = e]
  <2>2. meta'[s] = m /\ \A u \in Slot : u # s => meta'[u] = meta[u]
    BY <1>1, <1>4, Zenon
  <2> HIDE DEF e
  <2>1. m.locked = meta[s].locked /\ m.ino = meta[s].ino /\ m.offset = meta[s].offset
        /\ m.entries = meta[s].entries + 1 /\ m.entry = e
    BY <1>0, Zenon DEF Metas
  <2> HIDE DEF m
  <2> QED
    BY <2>1, <2>2, Zenon DEF Extended, e
<1> QED
  BY <1>2, <1>3, <1>4, Zenon

\* Every step keeps one filler to a locked slot.
LEMMA FillingNext ==
  ASSUME TypeOK, Asking, Filling, NEW h \in Thread, Step(h)
  PROVE  Filling'
<1>0. /\ t \in [Thread -> Locals] /\ t' \in [Thread -> Locals]
      /\ \A g \in Thread : g # h => pc'[g] = pc[g] /\ t'[g] = t[g]
      /\ \A g \in Thread : t[g].slot \in Slot \cup {None}
      /\ None \notin Slot
  <2>1. t' \in [Thread -> Locals]
    BY ThreadTypes
  <2> QED
    BY <2>1, OthersStay, SlotType DEF TypeOK, Locals
<1>1. CASE Locate(h)
  <2>1. PICK s \in Slot :
          /\ pc[h] = "locate" /\ Usable(h, s)
          /\ meta' = [meta EXCEPT ![s] = [meta[s] EXCEPT !.locked = TRUE]]
          /\ t'[h].slot = s /\ t'[h].file = t[h].file
          /\ pc'[h] \in {"giveup", "remember"}
    BY <1>1, LocateEffect
  <2>2. Relocked(s, TRUE)
    BY <2>1, SlotUpdates
  <2>3. /\ meta'[s].locked /\ meta'[s].ino = t[h].file /\ ~meta[s].locked
        /\ \A u \in Slot : u # s => meta'[u] = meta[u]
    BY <2>1, <2>2, Zenon DEF Usable, Relocked
  <2>4. t[h].slot = None /\ \A g \in Thread : t[g].slot # s
    BY <1>0, <2>1, <2>3 DEF Filling
  <2> QED
    BY <1>0, <2>1, <2>3, <2>4 DEF Filling
<1>2. CASE Empty(h)
  <2>1. PICK s \in Slot :
          /\ pc[h] = "empty" /\ ~meta[s].locked
          /\ meta' = [meta EXCEPT ![s] = [meta[s] EXCEPT !.ino = t[h].file, !.offset = t[h].off + 1,
                                                        !.locked = TRUE, !.entries = 0]]
          /\ t'[h] = [t[h] EXCEPT !.slot = s] /\ pc'[h] = "remember"
    BY <1>2, EmptyEffect
  <2>2. Retaken(h, s)
    BY <2>1, SlotUpdates
  <2>3. /\ meta'[s].locked /\ meta'[s].ino = t[h].file
        /\ \A u \in Slot : u # s => meta'[u] = meta[u]
    BY <2>2, Zenon DEF Retaken
  <2>4. t'[h].slot = s /\ t'[h].file = t[h].file
    BY <1>0, <2>1 DEF Locals
  <2>5. t[h].slot = None /\ \A g \in Thread : t[g].slot # s
    BY <1>0, <2>1, <2>3 DEF Filling
  <2> QED
    <3>1. \A g \in Thread :
            /\ t'[g].slot # None <=> pc'[g] \in {"remember", "giveup"}
            /\ t'[g].slot # None => meta'[t'[g].slot].locked /\ meta'[t'[g].slot].ino = t'[g].file
      <4>1. ASSUME NEW g \in Thread, g # h
            PROVE  /\ t'[g].slot # None <=> pc'[g] \in {"remember", "giveup"}
                   /\ t'[g].slot # None => meta'[t'[g].slot].locked /\ meta'[t'[g].slot].ino = t'[g].file
        <5>1. t'[g] = t[g] /\ pc'[g] = pc[g]
          BY <1>0, <4>1
        <5>2. ASSUME t[g].slot # None PROVE meta'[t[g].slot] = meta[t[g].slot]
          BY <1>0, <4>1, <5>2, <2>3, <2>5
        <5>3. /\ t[g].slot # None <=> pc[g] \in {"remember", "giveup"}
              /\ t[g].slot # None => meta[t[g].slot].locked /\ meta[t[g].slot].ino = t[g].file
          BY DEF Filling
        <5> QED
          BY <5>1, <5>2, <5>3
      <4> QED
        <5>1. /\ t'[h].slot # None <=> pc'[h] \in {"remember", "giveup"}
              /\ t'[h].slot # None => meta'[t'[h].slot].locked /\ meta'[t'[h].slot].ino = t'[h].file
          <6>1. t'[h].slot = s /\ s # None /\ pc'[h] = "remember" /\ t'[h].file = t[h].file
            BY <1>0, <2>1, <2>4
          <6> QED
            BY <6>1, <2>3
        <5> QED
          BY <4>1, <5>1
    <3>2. \A g, k \in Thread : t'[k].slot # None /\ t'[g].slot = t'[k].slot => g = k
      BY <1>0, <2>4, <2>5 DEF Filling
    <3>3. \A u \in Slot : meta'[u].locked => \E g \in Thread : t'[g].slot = u
      BY <1>0, <2>3, <2>4, <2>5 DEF Filling
    <3> QED
      BY <3>1, <3>2, <3>3, Zenon DEF Filling
<1>3. CASE Remember(h)
  <2> DEFINE s == t[h].slot
             c == Ahead(t[h].cur, Stride(t[h].file))
  <2>1. /\ pc[h] = "remember" /\ s \in Slot
        /\ \/ /\ meta' = [meta EXCEPT ![s] = [meta[s] EXCEPT !.entries = meta[s].entries + 1,
                                                !.entry = [meta[s].entry EXCEPT ![meta[s].entries] = c]]]
              /\ t'[h] = [t[h] EXCEPT !.cur = c, !.off = t[h].off + 1]
              /\ pc'[h] = "remember"
           \/ meta' = meta /\ t' = t /\ pc'[h] = "giveup"
    BY <1>3, RememberEffect
  <2> HIDE DEF c, s
  <2>2. meta' = meta \/ Extended(s, c)
    BY <2>1, SlotUpdates
  <2>3. \A u \in Slot : (meta'[u].locked <=> meta[u].locked) /\ meta'[u].ino = meta[u].ino
    <3>1. CASE meta' = meta
      BY <3>1, Zenon
    <3>2. CASE Extended(s, c)
      BY <3>2, Zenon DEF Extended
    <3> QED
      BY <2>2, <3>1, <3>2
  <2>4. t'[h].slot = t[h].slot /\ t'[h].file = t[h].file /\ pc'[h] \in {"remember", "giveup"}
    BY <1>0, <2>1 DEF Locals
  <2> QED
    BY <1>0, <2>1, <2>3, <2>4 DEF Filling, s
<1>4. CASE Release(h)
  <2> DEFINE s == t[h].slot
  <2>1. /\ s \in Slot /\ meta' = [meta EXCEPT ![s] = [meta[s] EXCEPT !.locked = FALSE]]
        /\ pc'[h] \in {"error", "locate"} /\ pc[h] \in {"giveup", "remember"}
        /\ t'[h] = [t[h] EXCEPT !.slot = None]
    BY <1>4, ReleaseEffect
  <2>2. Relocked(s, FALSE)
    BY <2>1, SlotUpdates
  <2>3. ~meta'[s].locked /\ \A u \in Slot : u # s => meta'[u] = meta[u]
    BY <2>2, Zenon DEF Relocked
  <2>4. t'[h].slot = None
    BY <1>0, <2>1 DEF Locals
  <2> QED
    <3>1. \A g \in Thread :
            /\ t'[g].slot # None <=> pc'[g] \in {"remember", "giveup"}
            /\ t'[g].slot # None => meta'[t'[g].slot].locked /\ meta'[t'[g].slot].ino = t'[g].file
      <4>1. ASSUME NEW g \in Thread, g # h
            PROVE  /\ t'[g].slot # None <=> pc'[g] \in {"remember", "giveup"}
                   /\ t'[g].slot # None => meta'[t'[g].slot].locked /\ meta'[t'[g].slot].ino = t'[g].file
        <5>1. t'[g] = t[g] /\ pc'[g] = pc[g]
          BY <1>0, <4>1
        <5>2. ASSUME t[g].slot # None PROVE meta'[t[g].slot] = meta[t[g].slot]
          BY <1>0, <4>1, <5>2, <2>1, <2>3 DEF Filling
        <5>3. /\ t[g].slot # None <=> pc[g] \in {"remember", "giveup"}
              /\ t[g].slot # None => meta[t[g].slot].locked /\ meta[t[g].slot].ino = t[g].file
          BY DEF Filling
        <5> QED
          BY <5>1, <5>2, <5>3
      <4> QED
        BY <1>0, <2>1, <2>4, <4>1
    <3>2. \A g, k \in Thread : t'[k].slot # None /\ t'[g].slot = t'[k].slot => g = k
      BY <1>0, <2>4 DEF Filling
    <3>3. \A u \in Slot : meta'[u].locked => \E g \in Thread : t'[g].slot = u
      BY <1>0, <2>3, <2>4 DEF Filling
    <3> QED
      BY <3>1, <3>2, <3>3, Zenon DEF Filling
<1>5. CASE ~SlotStep(h)
  <2>1. meta' = meta /\ pc[h] \notin {"remember", "giveup"} /\ pc'[h] \notin {"remember", "giveup"}
        /\ t[h].slot = None /\ t'[h].slot = None
    BY <1>5, SlotsStay
  <2> QED
    BY <1>0, <2>1 DEF Filling
<1> QED
  BY <1>1, <1>2, <1>3, <1>4, <1>5 DEF SlotStep

\* A thread is about one page until it is done with it.
LEMMA SamePage ==
  ASSUME TypeOK, NEW h \in Thread, Step(h), ~Ask(h), pc'[h] # "idle"
  PROVE  /\ t'[h].file = t[h].file /\ t'[h].page = t[h].page
         /\ Index(h)' = Index(h) /\ First(h)' = First(h) /\ MetaIndex(h)' = MetaIndex(h)
<1> USE DEF TypeOK, Goto, Locals
<1>1. t'[h].file = t[h].file /\ t'[h].page = t[h].page
  <2>1. CASE Locate(h)
    BY <2>1 DEF Locate
  <2>2. CASE Empty(h)
    BY <2>2 DEF Empty
  <2>3. CASE NoPlace(h) \/ NoEmpty(h) \/ Mutex(h) \/ ReadData(h) \/ Grab(h)
    BY <2>3 DEF NoEmpty, NoPlace, Mutex, ReadData, Grab
  <2>4. CASE Remember(h)
    BY <2>4 DEF Remember
  <2>5. CASE Release(h)
    BY <2>5 DEF Release
  <2>6. CASE Walk(h)
    BY <2>6 DEF Walk
  <2>7. CASE Fragment(h)
    BY <2>7 DEF Fragment
  <2>8. CASE Pass(h) \/ Push(h)
    BY <2>8 DEF Pass, Push, Onward
  <2>9. CASE Finish(h) \/ Bail(h) \/ SymlinkReadpage(h)
    BY <2>9 DEF Finish, Bail, SymlinkReadpage, Return
  <2> QED
    BY <2>1, <2>2, <2>3, <2>4, <2>5, <2>6, <2>7, <2>8, <2>9 DEF Step, Readpage, GetMetaIndex
<1> QED
  BY <1>1 DEF Index, First, MetaIndex

\* Nobody touches a slot that another thread is filling.
LEMMA SlotsOfOthers ==
  ASSUME TypeOK, Asking, Filling, NEW h \in Thread, Step(h), NEW g \in Thread, g # h, t[g].slot # None
  PROVE  t[g].slot \in Slot /\ meta'[t[g].slot] = meta[t[g].slot]
<1> DEFINE r == t[g].slot
<1>0. r \in Slot /\ meta[r].locked /\ t[h].slot # r
  BY DEF TypeOK, Locals, Filling
<1> HIDE DEF r
<1> USE DEF TypeOK
<1>1. CASE Locate(h)
  <2> PICK s \in Slot : ~meta[s].locked /\ meta' = [meta EXCEPT ![s] = [meta[s] EXCEPT !.locked = TRUE]]
    BY <1>1, LocateEffect DEF Usable
  <2> QED
    BY <1>0 DEF r
<1>2. CASE Empty(h)
  <2> PICK s \in Slot :
        /\ ~meta[s].locked
        /\ meta' = [meta EXCEPT ![s] = [meta[s] EXCEPT !.ino = t[h].file, !.offset = t[h].off + 1,
                                                      !.locked = TRUE, !.entries = 0]]
    BY <1>2, EmptyEffect
  <2> QED
    BY <1>0 DEF r
<1>3. CASE Remember(h)
  <2>1. t[h].slot \in Slot /\ (meta' = meta \/ \E m : meta' = [meta EXCEPT ![t[h].slot] = m])
    BY <1>3, RememberEffect
  <2> QED
    BY <1>0, <2>1 DEF r
<1>4. CASE Release(h)
  <2>1. t[h].slot \in Slot /\ \E m : meta' = [meta EXCEPT ![t[h].slot] = m]
    BY <1>4, ReleaseEffect
  <2> QED
    BY <1>0, <2>1 DEF r
<1>5. CASE ~SlotStep(h)
  BY <1>0, <1>5, SlotsStay DEF r
<1> QED
  BY <1>1, <1>2, <1>3, <1>4, <1>5 DEF SlotStep

\* What a slot's entries say.
Told(m) == \A j \in 0 .. m.entries - 1 : m.entry[j] = Ahead(Start, (m.offset + j) * Stride(m.ino))

LEMMA SlotsTold == SlotsTellTheList <=> \A s \in Slot : Told(meta[s])
BY DEF SlotsTellTheList, Told

\* Strides add up.
LEMMA AheadSum ==
  ASSUME NEW n \in Nat, NEW k \in Nat \ {0}
  PROVE  /\ Ahead(Ahead(Start, n * k), k) = Ahead(Start, (n + 1) * k)
         /\ Ahead(Start, 0 * k) = Start
<1>1. (n + 1) * k = n * k + k /\ n * k \in Nat /\ 0 * k = 0
  BY MulSum
<1> QED
  BY <1>1 DEF Ahead, Start

\* The ways out of the slots' places.
LEMMA OutsideSlots ==
  ASSUME TypeOK, Asking, NEW h \in Thread, Step(h), ~SlotStep(h)
  PROVE  /\ pc'[h] = "locate" => t'[h].off = 0 /\ t'[h].cur = Start /\ t'[h].file \in File
         /\ pc'[h] = "walk" => pc[h] = "empty" /\ t'[h] = t[h]
         /\ pc'[h] = "empty" => pc[h] = "locate" /\ t'[h] = t[h] /\ t[h].off < MetaIndex(h)
         /\ pc'[h] = "error" => t[h].file \in Flaky /\ t'[h].file = t[h].file
<1> USE DEF TypeOK, Goto, Pushes
<1>1. CASE Ask(h)
  <2>1. pc'[h] \notin {"walk", "empty", "error"}
    BY <1>1 DEF Ask
  <2>2. PICK f \in File : \E p \in Asked[f] :
          t' = [t EXCEPT ![h] = [NoLocals EXCEPT !.file = f, !.page = p]]
    BY <1>1 DEF Ask
  <2>3. t'[h].off = 0 /\ t'[h].cur = Start /\ t'[h].file \in File
    BY <2>2 DEF NoLocals
  <2> QED
    BY <2>1, <2>3
<1>2. CASE NoPlace(h) \/ NoEmpty(h)
  BY <1>2 DEF NoEmpty, NoPlace
<1>3. CASE Walk(h)
  BY <1>3 DEF Walk
<1>4. CASE Mutex(h)
  BY <1>4 DEF Mutex
<1>5. CASE ReadData(h)
  BY <1>5 DEF ReadData
<1>6. CASE Fragment(h)
  BY <1>6 DEF Fragment
<1>7. CASE Pass(h) \/ Push(h)
  BY <1>7 DEF Pass, Push
<1>8. CASE Grab(h)
  BY <1>8 DEF Grab
<1>9. CASE Finish(h) \/ Bail(h) \/ SymlinkReadpage(h)
  BY <1>9 DEF Finish, Bail, SymlinkReadpage, Return
<1> QED
  BY <1>1, <1>2, <1>3, <1>4, <1>5, <1>6, <1>7, <1>8, <1>9
     DEF Step, Readpage, GetMetaIndex, SlotStep

\* Every step keeps the slots to the list of their file.
LEMMA SlotsTellNext ==
  ASSUME TypeOK, Asking, Filling, CursorsStand, SlotsTellTheList, NEW h \in Thread, Step(h)
  PROVE  SlotsTellTheList'
<1> SUFFICES ASSUME NEW u \in Slot PROVE Told(meta'[u])
  BY SlotsTold DEF SlotsTellTheList, Told
<1>0. Told(meta[u])
  BY SlotsTold
<1>1. CASE Locate(h)
  <2>1. PICK s \in Slot : meta' = [meta EXCEPT ![s] = [meta[s] EXCEPT !.locked = TRUE]]
    BY <1>1, LocateEffect
  <2>2. Relocked(s, TRUE)
    BY <2>1, SlotUpdates
  <2> QED
    BY <1>0, <2>2 DEF Relocked, Told
<1>2. CASE Empty(h)
  <2>1. PICK s \in Slot :
          meta' = [meta EXCEPT ![s] = [meta[s] EXCEPT !.ino = t[h].file, !.offset = t[h].off + 1,
                                                     !.locked = TRUE, !.entries = 0]]
    BY <1>2, EmptyEffect, Zenon
  <2>2. Retaken(h, s)
    BY <2>1, SlotUpdates
  <2> QED
    BY <1>0, <2>2 DEF Retaken, Told
<1>3. CASE Remember(h)
  <2> DEFINE s == t[h].slot
             k == Stride(t[h].file)
             c == Ahead(t[h].cur, k)
  <2>1. /\ pc[h] = "remember" /\ s \in Slot /\ Wanting(h)
        /\ \/ meta' = [meta EXCEPT ![s] = [meta[s] EXCEPT !.entries = meta[s].entries + 1,
                                             !.entry = [meta[s].entry EXCEPT ![meta[s].entries] = c]]]
           \/ meta' = meta
    BY <1>3, RememberEffect
  <2>2. CASE meta' = meta
    BY <1>0, <2>2
  <2>3. CASE meta' = [meta EXCEPT ![s] = [meta[s] EXCEPT !.entries = meta[s].entries + 1,
                                             !.entry = [meta[s].entry EXCEPT ![meta[s].entries] = c]]]
    <3>1. Extended(s, c)
      BY <2>1, <2>3, SlotUpdates
    <3>2. /\ meta[s].ino = t[h].file /\ t[h].off + 1 = meta[s].offset + meta[s].entries
          /\ t[h].cur = Ahead(Start, t[h].off * k) /\ k \in Nat \ {0} /\ t[h].off \in Nat
      <4>1. s # None
        BY <2>1, SlotType
      <4> QED
        BY <2>1, <4>1, AskedTypes DEF Filling, CursorsStand, TypeOK, Locals
    <3>3. c = Ahead(Start, (meta[s].offset + meta[s].entries) * Stride(meta[s].ino))
      <4>1. c = Ahead(Start, (t[h].off + 1) * k)
        BY <3>2, AheadSum
      <4> HIDE DEF c
      <4> QED
        BY <3>2, <4>1
    <3>4. /\ meta[s].entries \in Nat /\ meta[s].entries < Entries /\ Entries \in Nat
          /\ meta[s].entry \in [0 .. Entries - 1 -> Cursor]
      <4>1. meta[s] \in Metas
        BY <2>1 DEF TypeOK
      <4>2. meta[s].entries < Entries
        BY <2>1 DEF Wanting
      <4> QED
        BY <4>1, <4>2, Constants DEF Metas
    <3> HIDE DEF c, s, k
    <3>5. Told(meta[s])
      BY <2>1, SlotsTold
    <3>6. CASE u = s
      <4> SUFFICES ASSUME NEW j \in 0 .. meta'[s].entries - 1
                   PROVE  meta'[s].entry[j] = Ahead(Start, (meta'[s].offset + j) * Stride(meta'[s].ino))
        BY <3>6 DEF Told
      <4>1. /\ meta'[s].ino = meta[s].ino /\ meta'[s].offset = meta[s].offset
            /\ meta'[s].entries = meta[s].entries + 1
            /\ meta'[s].entry = [meta[s].entry EXCEPT ![meta[s].entries] = c]
        BY <3>1, Zenon DEF Extended
      <4>2. CASE j = meta[s].entries
        <5>1. meta'[s].entry[j] = c
          BY <3>4, <4>1, <4>2
        <5> QED
          BY <3>3, <4>1, <4>2, <5>1
      <4>3. CASE j # meta[s].entries
        <5>1. j \in 0 .. meta[s].entries - 1
          BY <3>4, <4>1, <4>3
        <5>2. meta'[s].entry[j] = meta[s].entry[j]
          BY <3>4, <4>1, <4>3, <5>1
        <5>3. meta[s].entry[j] = Ahead(Start, (meta[s].offset + j) * Stride(meta[s].ino))
          BY <3>5, <5>1, Zenon DEF Told
        <5> QED
          BY <4>1, <5>2, <5>3
      <4> QED
        BY <4>2, <4>3
    <3>7. CASE u # s
      BY <1>0, <3>1, <3>7, Zenon DEF Extended
    <3> QED
      BY <3>6, <3>7
  <2> QED
    BY <2>1, <2>2, <2>3
<1>4. CASE Release(h)
  <2>1. t[h].slot \in Slot
        /\ meta' = [meta EXCEPT ![t[h].slot] = [meta[t[h].slot] EXCEPT !.locked = FALSE]]
    BY <1>4, ReleaseEffect
  <2>2. Relocked(t[h].slot, FALSE)
    BY <2>1, SlotUpdates
  <2> QED
    BY <1>0, <2>2 DEF Relocked, Told
<1>5. CASE ~SlotStep(h)
  BY <1>0, <1>5, SlotsStay
<1> QED
  BY <1>1, <1>2, <1>3, <1>4, <1>5 DEF SlotStep

\* Every step keeps the cursors where they should stand.
LEMMA CursorsNext ==
  ASSUME TypeOK, Asking, Filling, CursorsStand, SlotsTellTheList, NEW h \in Thread, Step(h)
  PROVE  CursorsStand'
<1>0. t \in [Thread -> Locals] /\ \A g \in Thread : g # h => pc'[g] = pc[g] /\ t'[g] = t[g]
  BY OthersStay DEF TypeOK
<1>1. ASSUME NEW g \in Thread, g # h
      PROVE  /\ pc'[g] \in {"locate", "empty", "remember", "walk"} =>
                  t'[g].cur = Ahead(Start, t'[g].off * Stride(t'[g].file))
             /\ pc'[g] = "remember" /\ Wanting(g)' =>
                  t'[g].off + 1 = meta'[t'[g].slot].offset + meta'[t'[g].slot].entries
  <2>1. pc'[g] = pc[g] /\ t'[g] = t[g]
    BY <1>0, <1>1
  <2>2. pc[g] = "remember" => t[g].slot # None
    BY DEF Filling
  <2>3. pc[g] = "remember" => meta'[t[g].slot] = meta[t[g].slot]
    BY <1>1, <2>2, SlotsOfOthers
  <2>4. pc[g] = "remember" /\ Wanting(g)' => Wanting(g)
    BY <2>1, <2>3 DEF Wanting, MetaIndex, Index
  <2> QED
    BY <2>1, <2>3, <2>4 DEF CursorsStand
<1>2. /\ pc'[h] \in {"locate", "empty", "remember", "walk"} =>
           t'[h].cur = Ahead(Start, t'[h].off * Stride(t'[h].file))
      /\ pc'[h] = "remember" /\ Wanting(h)' =>
           t'[h].off + 1 = meta'[t'[h].slot].offset + meta'[t'[h].slot].entries
  <2>1. CASE Locate(h)
    <3>1. PICK s \in Slot :
            /\ pc[h] = "locate" /\ Usable(h, s)
            /\ meta' = [meta EXCEPT ![s] = [meta[s] EXCEPT !.locked = TRUE]]
            /\ t'[h].slot = s /\ t'[h].file = t[h].file /\ t'[h].page = t[h].page
            /\ \/ meta[s].entries = 0 /\ pc'[h] = "giveup"
               \/ /\ meta[s].entries # 0 /\ pc'[h] = "remember"
                  /\ t'[h].off - meta[s].offset \in 0 .. meta[s].entries - 1
                  /\ t'[h].off = MetaIndex(h) \/ t'[h].off + 1 = meta[s].offset + meta[s].entries
                  /\ t'[h].cur = meta[s].entry[t'[h].off - meta[s].offset]
      BY <2>1, LocateEffect
    <3>2. CASE pc'[h] = "giveup"
      BY <3>2
    <3>3. CASE pc'[h] = "remember"
      <4>1. /\ t'[h].off - meta[s].offset \in 0 .. meta[s].entries - 1
            /\ t'[h].off = MetaIndex(h) \/ t'[h].off + 1 = meta[s].offset + meta[s].entries
            /\ t'[h].cur = meta[s].entry[t'[h].off - meta[s].offset]
        BY <3>1, <3>3
      <4>2. meta[s].ino = t[h].file /\ meta[s].offset \in Nat /\ meta[s].entries \in Nat
            /\ t'[h].off \in Nat
        <5>1. meta[s] \in Metas /\ t'[h] \in Locals
          BY ThreadTypes DEF TypeOK
        <5> QED
          BY <3>1, <5>1 DEF Usable, Metas, Locals
      <4>3. meta[s].offset + (t'[h].off - meta[s].offset) = t'[h].off
        BY <4>2
      <4>4. t'[h].cur = Ahead(Start, t'[h].off * Stride(t'[h].file))
        <5>1. t'[h].cur = Ahead(Start, (meta[s].offset + (t'[h].off - meta[s].offset)) * Stride(meta[s].ino))
          BY <4>1 DEF SlotsTellTheList
        <5> QED
          BY <3>1, <4>2, <4>3, <5>1
      <4>5. meta'[s].offset = meta[s].offset /\ meta'[s].entries = meta[s].entries
        BY <3>1, SlotUpdates DEF Relocked
      <4>6. MetaIndex(h)' = MetaIndex(h) /\ MetaIndex(h) \in Nat
        BY <3>1, AskedTypes DEF MetaIndex, Index
      <4>7. Wanting(h)' => t'[h].off + 1 = meta'[s].offset + meta'[s].entries
        <5>1. Wanting(h)' => meta[s].offset + meta[s].entries <= MetaIndex(h)
          BY <3>1, <4>5, <4>6 DEF Wanting
        <5> QED
          BY <4>1, <4>2, <4>5, <4>6, <5>1
      <4> QED
        BY <3>1, <4>4, <4>7
    <3> QED
      BY <3>1, <3>2, <3>3
  <2>2. CASE Empty(h)
    <3>1. PICK s \in Slot :
            /\ pc[h] = "empty"
            /\ meta' = [meta EXCEPT ![s] = [meta[s] EXCEPT !.ino = t[h].file, !.offset = t[h].off + 1,
                                                          !.locked = TRUE, !.entries = 0]]
            /\ t'[h] = [t[h] EXCEPT !.slot = s] /\ pc'[h] = "remember"
      BY <2>2, EmptyEffect
    <3>2. meta'[s].offset = t[h].off + 1 /\ meta'[s].entries = 0
      BY <3>1, SlotUpdates DEF Retaken
    <3>3. t'[h].slot = s /\ t'[h].file = t[h].file /\ t'[h].cur = t[h].cur /\ t'[h].off = t[h].off
          /\ t[h].off \in Nat
      BY <1>0, <3>1 DEF Locals
    <3> QED
      BY <3>1, <3>2, <3>3 DEF CursorsStand
  <2>3. CASE Remember(h)
    <3> DEFINE s == t[h].slot
               k == Stride(t[h].file)
               c == Ahead(t[h].cur, k)
    <3>1. /\ pc[h] = "remember" /\ s \in Slot /\ Wanting(h)
          /\ \/ /\ meta' = [meta EXCEPT ![s] = [meta[s] EXCEPT !.entries = meta[s].entries + 1,
                                                  !.entry = [meta[s].entry EXCEPT ![meta[s].entries] = c]]]
                /\ t'[h] = [t[h] EXCEPT !.cur = c, !.off = t[h].off + 1] /\ pc'[h] = "remember"
             \/ pc'[h] = "giveup"
      BY <2>3, RememberEffect
    <3>2. CASE pc'[h] = "giveup"
      BY <3>2
    <3>3. CASE /\ meta' = [meta EXCEPT ![s] = [meta[s] EXCEPT !.entries = meta[s].entries + 1,
                                                  !.entry = [meta[s].entry EXCEPT ![meta[s].entries] = c]]]
               /\ t'[h] = [t[h] EXCEPT !.cur = c, !.off = t[h].off + 1] /\ pc'[h] = "remember"
      <4>1. t[h].off \in Nat /\ k \in Nat \ {0} /\ t[h].cur = Ahead(Start, t[h].off * k)
            /\ t[h].off + 1 = meta[s].offset + meta[s].entries
        BY <1>0, <3>1, AskedTypes DEF Locals, CursorsStand
      <4>2. c = Ahead(Start, (t[h].off + 1) * k)
        BY <4>1, AheadSum
      <4>3. meta'[s].offset = meta[s].offset /\ meta'[s].entries = meta[s].entries + 1
            /\ meta[s].offset \in Nat /\ meta[s].entries \in Nat
        <5>1. Extended(s, c)
          BY <3>1, <3>3, SlotUpdates
        <5>2. meta[s] \in Metas
          BY <3>1 DEF TypeOK
        <5> HIDE DEF c, s
        <5> QED
          BY <5>1, <5>2 DEF Extended, Metas
      <4> HIDE DEF c
      <4>4. t'[h].slot = s /\ t'[h].file = t[h].file /\ t'[h].cur = c /\ t'[h].off = t[h].off + 1
        BY <1>0, <3>3 DEF Locals
      <4> QED
        BY <3>3, <4>1, <4>2, <4>3, <4>4
    <3> QED
      BY <3>1, <3>2, <3>3
  <2>4. CASE Release(h)
    <3>1. /\ pc'[h] = (IF pc[h] = "giveup" THEN "error" ELSE "locate")
          /\ pc[h] \in {"giveup", "remember"}
          /\ t'[h] = [t[h] EXCEPT !.slot = None]
      BY <2>4, ReleaseEffect
    <3>2. t'[h].file = t[h].file /\ t'[h].cur = t[h].cur /\ t'[h].off = t[h].off
      BY <1>0, <3>1 DEF Locals
    <3> QED
      BY <3>1, <3>2 DEF CursorsStand
  <2>5. CASE ~SlotStep(h)
    <3>1. pc'[h] # "remember"
      BY <2>5, SlotsStay
    <3>2. CASE pc'[h] = "locate"
      <4>1. t'[h].off = 0 /\ t'[h].cur = Start /\ Stride(t'[h].file) \in Nat \ {0}
        BY <2>5, <3>2, OutsideSlots, StrideType
      <4> QED
        BY <3>1, <4>1, AheadSum
    <3>3. CASE pc'[h] \in {"empty", "walk"}
      BY <2>5, <3>1, <3>3, OutsideSlots DEF CursorsStand
    <3> QED
      BY <3>1, <3>2, <3>3
  <2> QED
    BY <2>1, <2>2, <2>3, <2>4, <2>5 DEF SlotStep
<1> QED
  BY <1>1, <1>2 DEF CursorsStand

\* Every step keeps a slot without entries to a file that cannot be read.
LEMMA EmptySlotsNext ==
  ASSUME TypeOK, Asking, Filling, EmptySlots, NEW h \in Thread, Step(h)
  PROVE  EmptySlots'
<1> DEFINE Unread(m) == m.ino # 0 /\ m.entries = 0 /\ ~m.locked => m.ino \in Flaky
<1>0. /\ t \in [Thread -> Locals] /\ meta \in [Slot -> Metas]
      /\ \A g \in Thread : g # h => pc'[g] = pc[g] /\ t'[g] = t[g]
      /\ \A s \in Slot : Unread(meta[s])
  BY OthersStay DEF TypeOK, EmptySlots
<1> DEFINE Mine == /\ pc'[h] = "empty" => t'[h].off < MetaIndex(h)'
                   /\ pc'[h] = "remember" /\ meta'[t'[h].slot].entries = 0 =>
                        meta'[t'[h].slot].offset <= MetaIndex(h)'
                   /\ pc'[h] \in {"giveup", "error"} => t'[h].file \in Flaky
<1>1. ASSUME NEW g \in Thread, g # h
      PROVE  /\ pc'[g] = "empty" => t'[g].off < MetaIndex(g)'
             /\ pc'[g] = "remember" /\ meta'[t'[g].slot].entries = 0 =>
                  meta'[t'[g].slot].offset <= MetaIndex(g)'
             /\ pc'[g] \in {"giveup", "error"} => t'[g].file \in Flaky
  <2>1. pc'[g] = pc[g] /\ t'[g] = t[g] /\ MetaIndex(g)' = MetaIndex(g)
    BY <1>0, <1>1 DEF MetaIndex, Index
  <2>2. pc[g] = "remember" => meta'[t[g].slot] = meta[t[g].slot]
    BY <1>1, SlotsOfOthers DEF Filling
  <2> QED
    BY <2>1, <2>2 DEF EmptySlots
<1>2. (\A s \in Slot : Unread(meta'[s])) /\ Mine
  <2>1. CASE Locate(h)
    <3>1. PICK s \in Slot :
            /\ pc[h] = "locate" /\ Usable(h, s)
            /\ meta' = [meta EXCEPT ![s] = [meta[s] EXCEPT !.locked = TRUE]]
            /\ t'[h].slot = s /\ t'[h].file = t[h].file
            /\ \/ meta[s].entries = 0 /\ pc'[h] = "giveup"
               \/ meta[s].entries # 0 /\ pc'[h] = "remember"
      BY <2>1, LocateEffect
    <3>2. Relocked(s, TRUE)
      BY <3>1, SlotUpdates
    <3>3. \A u \in Slot : Unread(meta'[u])
      BY <1>0, <3>2 DEF Relocked
    <3>4. pc'[h] = "giveup" => t[h].file \in Flaky
      <4>1. ~meta[s].locked /\ meta[s].ino = t[h].file
        BY <3>1 DEF Usable
      <4>2. t[h].file # 0
        BY <3>1, AskedTypes, Constants
      <4> QED
        BY <1>0, <3>1, <4>1, <4>2
    <3>5. pc'[h] = "remember" => meta'[t'[h].slot].entries # 0
      BY <3>1, <3>2 DEF Relocked
    <3> QED
      BY <3>1, <3>3, <3>4, <3>5
  <2>2. CASE Empty(h)
    <3>1. PICK s \in Slot :
            /\ pc[h] = "empty"
            /\ meta' = [meta EXCEPT ![s] = [meta[s] EXCEPT !.ino = t[h].file, !.offset = t[h].off + 1,
                                                          !.locked = TRUE, !.entries = 0]]
            /\ t'[h] = [t[h] EXCEPT !.slot = s] /\ pc'[h] = "remember"
      BY <2>2, EmptyEffect
    <3>2. Retaken(h, s)
      BY <3>1, SlotUpdates
    <3>3. \A u \in Slot : Unread(meta'[u])
      BY <1>0, <3>2 DEF Retaken
    <3>4. t'[h].slot = s /\ t'[h].file = t[h].file /\ t'[h].page = t[h].page /\ t[h].off \in Nat
      BY <1>0, <3>1 DEF Locals
    <3>5. MetaIndex(h)' = MetaIndex(h) /\ MetaIndex(h) \in Nat /\ t[h].off < MetaIndex(h)
      BY <3>1, <3>4, AskedTypes DEF MetaIndex, Index, EmptySlots
    <3>6. meta'[s].offset <= MetaIndex(h)'
      BY <3>1, <3>2, <3>4, <3>5 DEF Retaken
    <3> QED
      BY <3>1, <3>3, <3>4, <3>6
  <2>3. CASE Remember(h)
    <3> DEFINE s == t[h].slot
               c == Ahead(t[h].cur, Stride(t[h].file))
    <3>1. /\ pc[h] = "remember" /\ s \in Slot
          /\ \/ /\ meta' = [meta EXCEPT ![s] = [meta[s] EXCEPT !.entries = meta[s].entries + 1,
                                                  !.entry = [meta[s].entry EXCEPT ![meta[s].entries] = c]]]
                /\ t'[h] = [t[h] EXCEPT !.cur = c, !.off = t[h].off + 1] /\ pc'[h] = "remember"
             \/ meta' = meta /\ t' = t /\ pc'[h] = "giveup" /\ t[h].file \in Flaky
      BY <2>3, RememberEffect
    <3>2. CASE pc'[h] = "giveup"
      BY <1>0, <3>1, <3>2
    <3>3. CASE /\ meta' = [meta EXCEPT ![s] = [meta[s] EXCEPT !.entries = meta[s].entries + 1,
                                                  !.entry = [meta[s].entry EXCEPT ![meta[s].entries] = c]]]
               /\ t'[h] = [t[h] EXCEPT !.cur = c, !.off = t[h].off + 1] /\ pc'[h] = "remember"
      <4>1. Extended(s, c)
        BY <3>1, <3>3, SlotUpdates
      <4>2. t'[h].slot = s
        BY <1>0, <3>3 DEF Locals
      <4>3. meta[s].entries \in Nat
        BY <1>0, <3>1 DEF Metas
      <4> HIDE DEF c, s
      <4>4. meta'[s].entries # 0 /\ \A u \in Slot : u # s => meta'[u] = meta[u]
        BY <4>1, <4>3 DEF Extended
      <4> QED
        BY <1>0, <3>3, <4>2, <4>4
    <3> QED
      BY <3>1, <3>2, <3>3
  <2>4. CASE Release(h)
    <3> DEFINE s == t[h].slot
    <3>1. /\ s \in Slot /\ (pc[h] = "giveup" \/ (pc[h] = "remember" /\ ~Wanting(h)))
          /\ meta' = [meta EXCEPT ![s] = [meta[s] EXCEPT !.locked = FALSE]]
          /\ t'[h] = [t[h] EXCEPT !.slot = None]
          /\ pc'[h] = (IF pc[h] = "giveup" THEN "error" ELSE "locate")
      BY <2>4, ReleaseEffect
    <3>2. Relocked(s, FALSE)
      BY <3>1, SlotUpdates
    <3>3. meta[s].ino = t[h].file /\ meta[s].offset \in Nat /\ meta[s].entries \in Nat
      <4>1. meta[s] \in Metas
        BY <1>0, <3>1
      <4>2. s # None
        BY <3>1, SlotType
      <4>3. meta[s].ino = t[h].file
        BY <4>2 DEF Filling
      <4> QED
        BY <4>1, <4>3 DEF Metas
    <3>4. CASE pc[h] = "giveup"
      <4>1. t[h].file \in Flaky
        BY <3>4 DEF EmptySlots
      <4>2. t'[h].file = t[h].file
        BY <1>0, <3>1 DEF Locals
      <4>3. \A u \in Slot : Unread(meta'[u])
        BY <1>0, <3>2, <3>3, <4>1 DEF Relocked
      <4> QED
        BY <3>1, <3>4, <4>1, <4>2, <4>3
    <3>5. CASE pc[h] # "giveup"
      <4>1. pc[h] = "remember" /\ pc'[h] = "locate" /\ ~Wanting(h) /\ MetaIndex(h) \in Nat
        BY <3>1, <3>5, AskedTypes
      <4>2. meta[s].entries # 0
        BY <3>3, <4>1, Constants DEF EmptySlots, Wanting
      <4>3. \A u \in Slot : Unread(meta'[u])
        BY <1>0, <3>2, <4>2 DEF Relocked
      <4> QED
        BY <4>1, <4>3
    <3> QED
      BY <3>4, <3>5
  <2>5. CASE ~SlotStep(h)
    <3>1. meta' = meta /\ pc'[h] \notin {"remember", "giveup"}
      BY <2>5, SlotsStay
    <3>2. /\ pc'[h] = "error" => t[h].file \in Flaky /\ t'[h].file = t[h].file
          /\ pc'[h] = "empty" => t'[h] = t[h] /\ t[h].off < MetaIndex(h)
      BY <2>5, OutsideSlots
    <3>3. t'[h] = t[h] => MetaIndex(h)' = MetaIndex(h)
      BY DEF MetaIndex, Index
    <3> QED
      BY <1>0, <3>1, <3>2, <3>3
  <2> QED
    BY <2>1, <2>2, <2>3, <2>4, <2>5 DEF SlotStep
<1> QED
  BY <1>1, <1>2 DEF EmptySlots

-------------------------------------------------------------------------------
(* The rest of the types                                                   *)

\* Nothing but the kernel's reads are counted, and slots are found round the ring.
LEMMA NextMetaType ==
  ASSUME TypeOK, NEW h \in Thread, Step(h)
  PROVE  nextmeta' \in Slot \cup {None} /\ reads' \in 0 .. MaxReads
<1> USE DEF TypeOK, shared
<1>1. CASE Ask(h)
  BY <1>1, SFAssumption DEF Ask
<1>2. CASE Locate(h)
  BY <1>2 DEF Locate
<1>3. CASE Empty(h)
  <2>1. nextmeta' \in Slot
    BY <1>3, EmptyEffect
  <2> QED
    BY <1>3, <2>1 DEF Empty
<1>4. CASE NoPlace(h) \/ NoEmpty(h)
  BY <1>4 DEF NoEmpty, NoPlace
<1>5. CASE Remember(h)
  BY <1>5 DEF Remember
<1>6. CASE Release(h)
  BY <1>6 DEF Release
<1>7. CASE Walk(h) \/ Mutex(h)
  BY <1>7 DEF Walk, Mutex
<1>8. CASE ReadData(h)
  BY <1>8 DEF ReadData
<1>9. CASE Fragment(h)
  BY <1>9 DEF Fragment
<1>10. CASE Pass(h) \/ Push(h) \/ Grab(h)
  BY <1>10 DEF Pass, Push, Grab
<1>11. CASE Finish(h)
  BY <1>11 DEF Finish
<1>12. CASE Bail(h) \/ SymlinkReadpage(h)
  BY <1>12 DEF Bail, SymlinkReadpage
<1> QED
  BY <1>1, <1>2, <1>3, <1>4, <1>5, <1>6, <1>7, <1>8, <1>9, <1>10, <1>11, <1>12
     DEF Step, Readpage, GetMetaIndex

\* The shared buffer and its mutex change in three places.
LEMMA BufferEffect ==
  ASSUME TypeOK, NEW h \in Thread, Step(h)
  PROVE  \/ /\ pc[h] = "mutex" /\ pagemutex = None /\ pc'[h] = "read"
            /\ pagemutex' = h /\ buf' = buf /\ t' = t
         \/ /\ pc[h] = "read" /\ pc'[h] = "data"
            /\ pagemutex' = pagemutex /\ buf' = [file |-> t[h].file, cur |-> t[h].cur] /\ t' = t
         \/ /\ pc[h] \in {"read", "data"} /\ pc'[h] \in {"error", "idle"}
            /\ pagemutex' = None /\ buf' = NoBuf
         \/ /\ pc'[h] \notin {"read", "data"} \/ (pc[h] = "data" /\ pc'[h] = "data")
            /\ pagemutex' = pagemutex /\ buf' = buf
            /\ pc'[h] = "data" => t'[h].file = t[h].file /\ t'[h].cur = t[h].cur
<1> USE DEF TypeOK, Goto, shared, Pushes
<1>1. CASE Ask(h)
  BY <1>1 DEF Ask
<1>2. CASE Locate(h)
  BY <1>2 DEF Locate
<1>3. CASE Empty(h)
  BY <1>3 DEF Empty
<1>4. CASE NoPlace(h) \/ NoEmpty(h)
  BY <1>4 DEF NoEmpty, NoPlace
<1>5. CASE Remember(h)
  BY <1>5 DEF Remember
<1>6. CASE Release(h)
  BY <1>6 DEF Release
<1>7. CASE Walk(h)
  BY <1>7 DEF Walk
<1>8. CASE Mutex(h)
  BY <1>8 DEF Mutex
<1>9. CASE ReadData(h)
  BY <1>9 DEF ReadData
<1>10. CASE Fragment(h)
  BY <1>10 DEF Fragment
<1>11. CASE Pass(h) \/ Push(h)
  <2>1. pc' = pc /\ pc[h] \in Pushes /\ pagemutex' = pagemutex /\ buf' = buf
    BY <1>11 DEF Pass, Push
  <2>2. t'[h].file = t[h].file /\ t'[h].cur = t[h].cur
    BY <1>11 DEF Pass, Push, Onward, Locals
  <2> QED
    BY <2>1, <2>2
<1>12. CASE Grab(h)
  BY <1>12 DEF Grab
<1>13. CASE Finish(h)
  BY <1>13 DEF Finish, Return
<1>14. CASE Bail(h) \/ SymlinkReadpage(h)
  BY <1>14 DEF Bail, SymlinkReadpage, Return
<1> QED
  BY <1>1, <1>2, <1>3, <1>4, <1>5, <1>6, <1>7, <1>8, <1>9, <1>10, <1>11, <1>12, <1>13, <1>14
     DEF Step, Readpage, GetMetaIndex

\* Whoever pushes a page pushes one of the block.
LEMMA PushPage ==
  ASSUME TypeOK, Asking, Reading, NEW h \in Thread, pc[h] \in Pushes
  PROVE  /\ t[h].file \in File /\ Index(h) \in Nat /\ t[h].i \in Nat /\ First(h) \in Nat
         /\ First(h) <= t[h].i /\ t[h].i <= First(h) + Per
         /\ t[h].bytes = Length(t[h].file, Index(h)) - (t[h].i - First(h)) * PageSize
         /\ More(h) => t[h].i \in PagesOf(t[h].file) /\ t[h].i \div Per = Index(h)
<1>1. pc[h] # "idle" /\ pc[h] \in AtBlock \cup {"tail"}
  BY DEF Pushes, AtBlock
<1>2. t[h].file \in File /\ t[h].page \in Asked[t[h].file]
  BY <1>1 DEF Asking
<1>3. Index(h) \in Nat /\ First(h) \in Nat /\ t[h].i \in Nat /\ t[h].page \in Nat
  BY <1>1, AskedTypes DEF TypeOK, Locals
<1>4. /\ First(h) <= t[h].i /\ t[h].i <= First(h) + Per
      /\ t[h].bytes = Length(t[h].file, Index(h)) - (t[h].i - First(h)) * PageSize
  BY <1>1 DEF Reading
<1>5. More(h) => t[h].i < First(h) + Per
  BY DEF More
<1>6. More(h) => t[h].i \in PagesOf(t[h].file)
  BY <1>2, <1>3, <1>4, <1>5, PagesType DEF First, Index
<1>7. More(h) => t[h].i \div Per = Index(h)
  BY <1>3, <1>4, <1>5, PageInBlock DEF First, Index
<1> QED
  BY <1>2, <1>3, <1>4, <1>6, <1>7

\* Pages change hands one at a time, and their data only in the hands of who unlocks them.
LEMMA PagesEffect ==
  ASSUME TypeOK, Asking, Reading, NEW h \in Thread, Step(h)
  PROVE  \/ holder' = holder /\ page' = page
         \/ \E f \in File : \E p \in PagesOf(f) :
              holder' = [holder EXCEPT ![f][p] = h] /\ page' = page
         \/ \E p, d : /\ holder' = [holder EXCEPT ![t[h].file][p] = None]
                      /\ page' = [page EXCEPT ![t[h].file][p] = d]
<1> USE DEF pages
<1>1. CASE Ask(h)
  <2>1. PICK f \in File : \E p \in Asked[f] : holder' = [holder EXCEPT ![f][p] = h]
    BY <1>1 DEF Ask
  <2>2. PICK p \in Asked[f] : holder' = [holder EXCEPT ![f][p] = h]
    BY <2>1
  <2>3. p \in PagesOf(f)
    BY PagesType
  <2> QED
    BY <1>1, <2>2, <2>3 DEF Ask
<1>2. CASE Locate(h)
  BY <1>2 DEF Locate
<1>3. CASE Empty(h)
  BY <1>3 DEF Empty
<1>4. CASE NoPlace(h) \/ NoEmpty(h) \/ Walk(h) \/ Mutex(h)
  BY <1>4 DEF NoEmpty, NoPlace, Walk, Mutex
<1>5. CASE Remember(h)
  BY <1>5 DEF Remember
<1>6. CASE Release(h)
  BY <1>6 DEF Release
<1>9. CASE ReadData(h)
  BY <1>9 DEF ReadData
<1>10. CASE Fragment(h)
  BY <1>10 DEF Fragment
<1>11. CASE Pass(h)
  BY <1>11 DEF Pass
<1>13. CASE Finish(h)
  BY <1>13 DEF Finish
<1>14. CASE Push(h)
  BY <1>14 DEF Push, Unlock
<1>15. CASE Bail(h)
  BY <1>15 DEF Bail, Unlock
<1>16. CASE SymlinkReadpage(h)
  BY <1>16 DEF SymlinkReadpage, Unlock
<1>17. CASE Grab(h)
  BY <1>17, PushPage DEF Grab
<1> QED
  BY <1>1, <1>2, <1>3, <1>4, <1>5, <1>6, <1>9, <1>10, <1>11, <1>13, <1>14, <1>15, <1>16, <1>17
     DEF Step, Readpage, GetMetaIndex

LEMMA PagesTypes ==
  ASSUME TypeOK, Asking, Reading, NEW h \in Thread, Step(h)
  PROVE  /\ DOMAIN holder' = File /\ \A f \in File : holder'[f] \in [PagesOf(f) -> Thread \cup {None}]
         /\ DOMAIN page' = File /\ \A f \in File : DOMAIN page'[f] = PagesOf(f)
<1>0. /\ DOMAIN holder = File /\ \A f \in File : holder[f] \in [PagesOf(f) -> Thread \cup {None}]
      /\ DOMAIN page = File /\ \A f \in File : DOMAIN page[f] = PagesOf(f)
  BY DEF TypeOK
<1>1. CASE holder' = holder /\ page' = page
  BY <1>0, <1>1
<1>2. CASE \E f \in File : \E p \in PagesOf(f) : holder' = [holder EXCEPT ![f][p] = h] /\ page' = page
  <2>1. PICK f \in File : \E p \in PagesOf(f) : holder' = [holder EXCEPT ![f][p] = h] /\ page' = page
    BY <1>2
  <2>2. PICK p \in PagesOf(f) : holder' = [holder EXCEPT ![f][p] = h] /\ page' = page
    BY <2>1
  <2> QED
    BY <1>0, <2>2
<1>3. CASE \E p, d : /\ holder' = [holder EXCEPT ![t[h].file][p] = None]
                     /\ page' = [page EXCEPT ![t[h].file][p] = d]
  <2>1. PICK p, d : /\ holder' = [holder EXCEPT ![t[h].file][p] = None]
                    /\ page' = [page EXCEPT ![t[h].file][p] = d]
    BY <1>3
  <2> QED
    BY <1>0, <2>1
<1> QED
  BY <1>1, <1>2, <1>3, PagesEffect

\* Every step keeps the types.
LEMMA TypeOKNext ==
  ASSUME TypeOK, Asking, Reading, Filling, NEW h \in Thread, Step(h)
  PROVE  TypeOK'
<1>1. meta' \in [Slot -> Metas]
  BY MetaTypes
<1>2. t' \in [Thread -> Locals] /\ pc' \in [Thread -> Places]
  BY ThreadTypes
<1>3. nextmeta' \in Slot \cup {None} /\ reads' \in 0 .. MaxReads
  BY NextMetaType
<1>4. buf' \in [file : File \cup {0}, cur : Cursor] /\ pagemutex' \in Thread \cup {None}
  <2>1. buf \in [file : File \cup {0}, cur : Cursor] /\ pagemutex \in Thread \cup {None}
        /\ t[h].file \in File \cup {0} /\ t[h].cur \in Cursor
    BY DEF TypeOK, Locals
  <2>2. [file |-> t[h].file, cur |-> t[h].cur] \in [file : File \cup {0}, cur : Cursor]
        /\ NoBuf \in [file : File \cup {0}, cur : Cursor]
    BY <2>1, InitialTypes
  <2>3. /\ buf' \in {buf, NoBuf, [file |-> t[h].file, cur |-> t[h].cur]}
        /\ pagemutex' \in {pagemutex, h, None}
    BY BufferEffect
  <2> QED
    BY <2>1, <2>2, <2>3
<1>5. /\ DOMAIN holder' = File /\ \A f \in File : holder'[f] \in [PagesOf(f) -> Thread \cup {None}]
      /\ DOMAIN page' = File /\ \A f \in File : DOMAIN page'[f] = PagesOf(f)
  BY PagesTypes
<1> QED
  BY <1>1, <1>2, <1>3, <1>4, <1>5 DEF TypeOK

-------------------------------------------------------------------------------
(* What is read, and what goes into the pages                              *)

\* Every step keeps the buffer with the thread that has the mutex.
LEMMA HoldingNext ==
  ASSUME TypeOK, Holding, NEW h \in Thread, Step(h)
  PROVE  Holding'
<1>0. \A g \in Thread : g # h => pc'[g] = pc[g] /\ t'[g] = t[g]
  BY OthersStay
<1>1. None \notin Thread
  BY Constants
<1>2. CASE /\ pc[h] = "mutex" /\ pagemutex = None /\ pc'[h] = "read"
           /\ pagemutex' = h /\ buf' = buf /\ t' = t
  BY <1>0, <1>1, <1>2 DEF Holding
<1>3. CASE /\ pc[h] = "read" /\ pc'[h] = "data"
           /\ pagemutex' = pagemutex /\ buf' = [file |-> t[h].file, cur |-> t[h].cur] /\ t' = t
  BY <1>0, <1>1, <1>3 DEF Holding
<1>4. CASE /\ pc[h] \in {"read", "data"} /\ pc'[h] \in {"error", "idle"}
           /\ pagemutex' = None /\ buf' = NoBuf
  <2>1. \A g \in Thread : pc'[g] \notin {"read", "data"}
    BY <1>0, <1>4 DEF Holding
  <2> QED
    BY <2>1 DEF Holding
<1>5. CASE /\ pc'[h] \notin {"read", "data"} \/ (pc[h] = "data" /\ pc'[h] = "data")
           /\ pagemutex' = pagemutex /\ buf' = buf
           /\ pc'[h] = "data" => t'[h].file = t[h].file /\ t'[h].cur = t[h].cur
  BY <1>0, <1>5 DEF Holding
<1> QED
  BY <1>2, <1>3, <1>4, <1>5, BufferEffect

\* What is asked for is a page of the file, and a step tells in which part of it.
LEMMA AskingNext ==
  ASSUME TypeOK, Asking, NEW h \in Thread, Step(h)
  PROVE  Asking'
<1> DEFINE A(q, f, p) ==
      /\ q # "idle" => f \in File /\ p \in Asked[f]
      /\ q \in InList \cup {"fragment", "tail", "link"} => p * PageSize < Size[f]
      /\ q \in InList \cup {"fragment", "tail", "beyond"} => f \notin Link
      /\ q \in InList => ~InFragment(f, p \div Per)
      /\ q \in {"fragment", "tail"} => InFragment(f, p \div Per)
      /\ q = "beyond" => p * PageSize >= Size[f]
      /\ q = "link" => f \in Link
<1>0. \A g \in Thread : A(pc[g], t[g].file, t[g].page)
  BY DEF Asking, Index
<1>1. \A g \in Thread : g # h => A(pc'[g], t'[g].file, t'[g].page)
  BY <1>0, OthersStay
<1>2. A(pc'[h], t'[h].file, t'[h].page)
  <2>1. CASE Ask(h)
    <3>1. PICK f \in File : \E p \in Asked[f] :
            /\ f \in Link => p * PageSize < Size[f]
            /\ t' = [t EXCEPT ![h] = [NoLocals EXCEPT !.file = f, !.page = p]]
            /\ pc' = [pc EXCEPT ![h] = IF f \in Link THEN "link"
                  ELSE IF p * PageSize >= Size[f] THEN "beyond"
                  ELSE IF InFragment(f, p \div Per) THEN "fragment" ELSE "locate"]
      BY <2>1 DEF Ask, Goto
    <3>2. PICK p \in Asked[f] :
            /\ f \in Link => p * PageSize < Size[f]
            /\ t' = [t EXCEPT ![h] = [NoLocals EXCEPT !.file = f, !.page = p]]
            /\ pc' = [pc EXCEPT ![h] = IF f \in Link THEN "link"
                  ELSE IF p * PageSize >= Size[f] THEN "beyond"
                  ELSE IF InFragment(f, p \div Per) THEN "fragment" ELSE "locate"]
      BY <3>1
    <3>3. t'[h].file = f /\ t'[h].page = p
      BY <3>2 DEF TypeOK, NoLocals
    <3>4. pc'[h] = (IF f \in Link THEN "link"
                    ELSE IF p * PageSize >= Size[f] THEN "beyond"
                    ELSE IF InFragment(f, p \div Per) THEN "fragment" ELSE "locate")
      BY <3>2 DEF TypeOK
    <3>5. p * PageSize \in Nat /\ Size[f] \in Nat
      BY Constants, PagesType
    <3> QED
      BY <3>2, <3>3, <3>4, <3>5 DEF InList
  <2>2. CASE ~Ask(h) /\ pc'[h] = "idle"
    BY <2>2 DEF InList
  <2>3. CASE ~Ask(h) /\ pc'[h] # "idle"
    <3>1. t'[h].file = t[h].file /\ t'[h].page = t[h].page
      BY <2>3, SamePage
    <3>2. \/ pc'[h] = pc[h]
          \/ pc[h] \in InList /\ pc'[h] \in InList
          \/ pc[h] = "fragment" /\ pc'[h] = "tail"
          \/ pc[h] # "idle" /\ pc'[h] = "error"
      <4> USE DEF TypeOK, Goto, InList, Pushes
      <4>1. CASE Locate(h)
        BY <4>1 DEF Locate
      <4>2. CASE Empty(h)
        BY <4>2 DEF Empty
      <4>3. CASE NoPlace(h) \/ NoEmpty(h)
        BY <4>3 DEF NoEmpty, NoPlace
      <4>4. CASE Remember(h)
        BY <4>4 DEF Remember
      <4>5. CASE Release(h)
        BY <4>5 DEF Release
      <4>6. CASE Walk(h)
        BY <4>6 DEF Walk
      <4>7. CASE Mutex(h)
        BY <4>7 DEF Mutex
      <4>8. CASE ReadData(h)
        BY <4>8 DEF ReadData
      <4>9. CASE Fragment(h)
        BY <4>9 DEF Fragment
      <4>10. CASE Pass(h) \/ Grab(h) \/ Push(h)
        BY <4>10 DEF Pass, Grab, Push
      <4>11. CASE Finish(h) \/ Bail(h) \/ SymlinkReadpage(h)
        BY <2>3, <4>11 DEF Finish, Bail, SymlinkReadpage, Return
      <4> QED
        BY <2>3, <4>1, <4>2, <4>3, <4>4, <4>5, <4>6, <4>7, <4>8, <4>9, <4>10, <4>11
           DEF Step, Readpage, GetMetaIndex
    <3>3. A(pc[h], t[h].file, t[h].page)
      BY <1>0
    <3> QED
      BY <3>1, <3>2, <3>3 DEF InList
  <2> QED
    BY <2>1, <2>2, <2>3
<1>3. \A g \in Thread : A(pc'[g], t'[g].file, t'[g].page)
  BY <1>1, <1>2
<1> QED
  BY <1>3 DEF Asking, Index

\* The walk ends at the block, wherever the cursor stood.
LEMMA WalkEnds ==
  ASSUME NEW n \in Nat, NEW m \in Nat
  PROVE  /\ Ahead(Ahead(Start, n), m - n) = Ahead(Start, m)
         /\ Ahead(Start, m).list = m /\ Ahead(Start, m).data = m
BY DEF Ahead, Start

\* One page on, what is left is a page less.
LEMMA OnwardCounts ==
  ASSUME NEW i \in Nat, NEW first \in Nat, first <= i, NEW length \in Int
  PROVE  /\ length - (i - first) * PageSize - PageSize = length - ((i + 1) - first) * PageSize
         /\ length - (first - first) * PageSize = length
<1> DEFINE k == i - first
<1>1. k \in Nat /\ (i + 1) - first = k + 1 /\ first - first = 0 /\ PageSize \in Nat
  BY Constants
<1>2. (k + 1) * PageSize = k * PageSize + PageSize /\ k * PageSize \in Nat /\ 0 * PageSize = 0
  BY <1>1, MulSum
<1> HIDE DEF k
<1> QED
  BY <1>1, <1>2 DEF k

\* Every step keeps readers at the block asked for, with what is left of it.
LEMMA ReadingNext ==
  ASSUME TypeOK, Asking, CursorsStand, Reading, NEW h \in Thread, Step(h)
  PROVE  Reading'
<1>0. \A g \in Thread : g # h => pc'[g] = pc[g] /\ t'[g] = t[g]
  BY OthersStay
<1> DEFINE R(q, l) ==
      LET b == l.page \div Per IN
      /\ q \in AtBlock => l.cur = Ahead(Start, b)
      /\ q \in {"mutex", "read", "data"} => b \notin Hole[l.file]
      /\ q = "hole" => b \in Hole[l.file]
      /\ q \in AtBlock \cup {"tail"} =>
           /\ b * Per <= l.i /\ l.i <= b * Per + Per
           /\ l.bytes = Length(l.file, b) - (l.i - b * Per) * PageSize
<1>1. \A g \in Thread : R(pc[g], t[g])
  BY DEF Reading, First, Index
<1>2. \A g \in Thread : g # h => R(pc'[g], t'[g])
  BY <1>0, <1>1
<1>3. R(pc'[h], t'[h])
  <2>1. CASE Walk(h)
    <3> DEFINE f == t[h].file
               b == t[h].page \div Per
               n == t[h].off * Stride(f)
               c == Ahead(t[h].cur, b - n)
    <3>0. f \in File /\ b \in Nat /\ b * Per \in Nat /\ n \in Nat /\ t[h] \in Locals
      <4>1. f \in File /\ t[h].page \in Nat /\ Stride(f) \in Nat
        BY <2>1, AskedTypes DEF Walk
      <4>2. t[h] \in Locals
        BY DEF TypeOK
      <4>3. t[h].off \in Nat
        BY <4>2 DEF Locals
      <4>4. n \in Nat
        BY <4>1, <4>3, MulSum
      <4> QED
        BY <4>1, <4>2, <4>4, PageBlock
    <3>1. t[h].cur = Ahead(Start, n)
      BY <2>1 DEF Walk, CursorsStand
    <3>2. c = Ahead(Start, b) /\ c.list = b
      BY <3>0, <3>1, WalkEnds
    <3>3. \/ /\ t' = [t EXCEPT ![h].cur = c, ![h].i = b * Per, ![h].bytes = Length(f, b)]
             /\ pc' = [pc EXCEPT ![h] = IF c.list \in Hole[f] THEN "hole" ELSE "mutex"]
          \/ pc' = [pc EXCEPT ![h] = "error"]
      BY <2>1 DEF Walk, Goto, Index, First
    <3>4. CASE pc' = [pc EXCEPT ![h] = "error"]
      BY <3>4 DEF TypeOK, AtBlock
    <3>5. CASE /\ t' = [t EXCEPT ![h].cur = c, ![h].i = b * Per, ![h].bytes = Length(f, b)]
               /\ pc' = [pc EXCEPT ![h] = IF c.list \in Hole[f] THEN "hole" ELSE "mutex"]
      <4> HIDE DEF c, b, f
      <4>1. t'[h].cur = c /\ t'[h].i = b * Per /\ t'[h].bytes = Length(f, b)
            /\ t'[h].file = t[h].file /\ t'[h].page = t[h].page
        BY <3>5 DEF TypeOK, Locals
      <4>2. pc'[h] = (IF b \in Hole[f] THEN "hole" ELSE "mutex")
        BY <3>2, <3>5 DEF TypeOK
      <4>3. Length(f, b) \in Int
        BY <3>0, BlocksOfFile, Constants DEF Length
      <4>4. Length(f, b) = Length(f, b) - (b * Per - b * Per) * PageSize
        BY <3>0, <4>3, OnwardCounts
      <4>5. b * Per <= b * Per /\ b * Per <= b * Per + Per
        BY <3>0, Constants
      <4>6. t'[h].page \div Per = b /\ t'[h].file = f
        BY <4>1 DEF b, f
      <4> QED
        BY <3>2, <4>1, <4>2, <4>4, <4>5, <4>6 DEF AtBlock
    <3> QED
      BY <3>3, <3>4, <3>5
  <2>2. CASE Fragment(h)
    <3> DEFINE f == t[h].file
               b == t[h].page \div Per
    <3>0. f \in File /\ t[h].page \in Nat /\ b \in Nat /\ b * Per \in Nat
      BY <2>2, AskedTypes, PageBlock DEF Fragment
    <3>1. b = FileEnd(f)
      <4>1. t[h].page * PageSize < Size[f] /\ InFragment(f, b)
        BY <2>2 DEF Fragment, Asking, Index
      <4>2. b <= FileEnd(f) /\ FileEnd(f) \in Nat
        BY <3>0, <4>1, BlockOfFile, StrideType
      <4> QED
        BY <3>0, <4>1, <4>2 DEF InFragment
    <3>2. \/ /\ t' = [t EXCEPT ![h].i = b * Per, ![h].bytes = TailLength(f)]
             /\ pc' = [pc EXCEPT ![h] = "tail"]
          \/ pc' = [pc EXCEPT ![h] = "error"]
      BY <2>2 DEF Fragment, Goto, Index, First
    <3>3. CASE pc' = [pc EXCEPT ![h] = "error"]
      BY <3>3 DEF TypeOK, AtBlock
    <3>4. CASE /\ t' = [t EXCEPT ![h].i = b * Per, ![h].bytes = TailLength(f)]
               /\ pc' = [pc EXCEPT ![h] = "tail"]
      <4> HIDE DEF b, f
      <4>1. t'[h].i = b * Per /\ t'[h].bytes = TailLength(f)
            /\ t'[h].file = t[h].file /\ t'[h].page = t[h].page
        BY <3>4 DEF TypeOK, Locals
      <4>2. pc'[h] = "tail"
        BY <3>4 DEF TypeOK
      <4>3. Length(f, b) = TailLength(f) /\ Length(f, b) \in Int
        BY <3>0, <3>1, BlocksOfFile, Constants DEF Length
      <4>4. Length(f, b) = Length(f, b) - (b * Per - b * Per) * PageSize
        BY <3>0, <4>3, OnwardCounts
      <4>5. b * Per <= b * Per /\ b * Per <= b * Per + Per
        BY <3>0, Constants
      <4>6. t'[h].page \div Per = b /\ t'[h].file = f
        BY <4>1 DEF b, f
      <4> QED
        BY <4>1, <4>2, <4>3, <4>4, <4>5, <4>6 DEF AtBlock
    <3> QED
      BY <3>2, <3>3, <3>4
  <2>3. CASE Pass(h) \/ Push(h)
    <3> DEFINE f == t[h].file
               b == t[h].page \div Per
    <3>1. pc[h] \in Pushes /\ More(h) /\ Onward(h) /\ pc' = pc
      BY <2>3 DEF Pass, Push
    <3>2. /\ f \in File /\ b \in Nat /\ t[h].i \in Nat /\ b * Per \in Nat /\ b * Per <= t[h].i
          /\ t[h].bytes = Length(f, b) - (t[h].i - b * Per) * PageSize
      BY <3>1, PushPage DEF First, Index
    <3>3. t[h].i < b * Per + Per
      BY <3>1 DEF More, First, Index
    <3>4. /\ t'[h].i = t[h].i + 1 /\ t'[h].bytes = t[h].bytes - PageSize
          /\ t'[h].file = f /\ t'[h].page = t[h].page /\ t'[h].cur = t[h].cur
      BY <3>1 DEF Onward, TypeOK, Locals
    <3>5. Length(f, b) \in Int
      BY <3>2, BlocksOfFile, Constants DEF Length
    <3> HIDE DEF f, b
    <3>6. t'[h].bytes = Length(f, b) - (t'[h].i - b * Per) * PageSize
      <4>1. t'[h].bytes = Length(f, b) - (t[h].i - b * Per) * PageSize - PageSize
        BY <3>2, <3>4, Zenon
      <4>2. Length(f, b) - (t[h].i - b * Per) * PageSize - PageSize
              = Length(f, b) - ((t[h].i + 1) - b * Per) * PageSize
        BY <3>2, <3>5, OnwardCounts, Zenon
      <4>3. t'[h].i = t[h].i + 1
        BY <3>4
      <4>4. t'[h].bytes = Length(f, b) - ((t[h].i + 1) - b * Per) * PageSize
        BY <4>1, <4>2, Zenon
      <4> QED
        BY <4>3, <4>4, Zenon
    <3>7. b * Per <= t'[h].i /\ t'[h].i <= b * Per + Per
      BY <3>2, <3>3, <3>4, Constants
    <3>8. R(pc[h], t[h])
      BY <1>1
    <3>9. t'[h].page \div Per = b /\ t[h].page \div Per = b /\ t[h].file = f
      BY <3>4 DEF b, f
    <3>10. /\ pc'[h] = pc[h]
           /\ pc[h] \in AtBlock => t[h].cur = Ahead(Start, b)
           /\ pc[h] \in {"mutex", "read", "data"} => b \notin Hole[f]
           /\ pc[h] = "hole" => b \in Hole[f]
      BY <3>1, <3>8, <3>9
    <3>11. t'[h].file = f /\ t'[h].cur = t[h].cur /\ t'[h].page \div Per = b
      BY <3>4, <3>9
    <3> QED
      BY <3>6, <3>7, <3>10, <3>11
  <2>4. CASE Mutex(h) \/ ReadData(h) \/ Grab(h)
    <3>1. t' = t /\ (pc' = pc \/ pc'[h] = "error" \/ (pc[h] \in {"mutex", "read"} /\ pc'[h] \in {"read", "data"}))
      BY <2>4 DEF Mutex, ReadData, Grab, Goto, TypeOK
    <3>2. R(pc[h], t[h])
      BY <1>1
    <3>3. \/ pc'[h] = pc[h] \/ pc'[h] = "error"
          \/ pc[h] \in {"mutex", "read"} /\ pc'[h] \in {"read", "data"}
      BY <3>1
    <3> QED
      BY <3>1, <3>2, <3>3 DEF AtBlock
  <2>5. CASE ~(Walk(h) \/ Fragment(h) \/ Pass(h) \/ Push(h) \/ Mutex(h) \/ ReadData(h) \/ Grab(h))
    <3>1. pc'[h] \notin AtBlock \cup {"tail"}
      <4> USE DEF TypeOK, Goto, AtBlock
      <4>1. CASE Ask(h)
        BY <4>1 DEF Ask
      <4>2. CASE Locate(h)
        BY <4>2 DEF Locate
      <4>3. CASE NoPlace(h) \/ Empty(h) \/ NoEmpty(h)
        BY <4>3 DEF Empty, NoEmpty, NoPlace
      <4>4. CASE Remember(h)
        BY <4>4 DEF Remember
      <4>5. CASE Release(h)
        BY <4>5 DEF Release
      <4>6. CASE Finish(h) \/ Bail(h) \/ SymlinkReadpage(h)
        BY <4>6 DEF Finish, Bail, SymlinkReadpage, Return
      <4> QED
        BY <2>5, <4>1, <4>2, <4>3, <4>4, <4>5, <4>6 DEF Step, Readpage, GetMetaIndex
    <3> QED
      BY <3>1 DEF AtBlock
  <2> QED
    BY <2>1, <2>2, <2>3, <2>4, <2>5
<1>4. \A g \in Thread : R(pc'[g], t'[g])
  BY <1>2, <1>3
<1> QED
  BY <1>4 DEF Reading, First, Index

\* What goes into a page is what the file holds there.
LEMMA DataIsContent ==
  ASSUME TypeOK, Asking, Reading, Holding, NEW h \in Thread, pc[h] \in Pushes, More(h)
  PROVE  Data(h) = Content(t[h].file, t[h].i)
<1> DEFINE f == t[h].file
           b == Index(h)
           i == t[h].i
           n == Size[f] - i * PageSize
<1>1. /\ f \in File /\ b \in Nat /\ i \in Nat /\ First(h) <= i
      /\ t[h].bytes = Length(f, b) - (i - First(h)) * PageSize
      /\ i \in PagesOf(f) /\ i \div Per = b
  BY PushPage
<1>2. First(h) = b * Per /\ i < b * Per + Per /\ t[h].bytes > 0 /\ t[h].bytes \in Int
  BY DEF First, More, TypeOK, Locals
<1>3. f \notin Link /\ t[h].page * PageSize < Size[f] /\ t[h].page \in Nat
  BY DEF Asking, Pushes, InList, TypeOK, Locals
<1>4. b <= FileEnd(f) /\ FileEnd(f) \in Nat
  BY <1>1, <1>3, BlockOfFile, StrideType DEF Index
<1>5. n > 0 /\ Min({t[h].bytes, PageSize}) = Min({n, PageSize}) /\ n \in Int
  <2>1. n > 0 /\ Min({t[h].bytes, PageSize}) = Min({n, PageSize})
    <3>1. t[h].bytes = Length(f, b) - (i - b * Per) * PageSize /\ b * Per <= i
      BY <1>1, <1>2, Zenon
    <3> HIDE DEF b, f, i
    <3> QED
      BY <1>1, <1>2, <1>4, <3>1, PageCut
  <2> QED
    BY <1>1, <2>1, Constants
<1>6. Content(f, i) = (IF b \in Hole[f] THEN Zero
                       ELSE [src |-> <<f, b>>, at |-> (i - b * Per) * PageSize, n |-> Min({n, PageSize})])
  <2>1. ~(n <= 0)
    BY <1>5
  <2> QED
    BY <1>1, <1>3, <2>1 DEF Content
<1> HIDE DEF n
<1>7. CASE pc[h] = "hole"
  BY <1>6, <1>7 DEF Reading, Data
<1>8. CASE pc[h] = "data"
  <2>1. b \notin Hole[f] /\ t[h].cur = Ahead(Start, b)
    BY <1>8 DEF Reading, AtBlock
  <2>2. buf.file = f /\ buf.cur = t[h].cur
    BY <1>8 DEF Holding
  <2>3. buf.cur.list = b /\ buf.cur.data = b
    BY <1>1, <2>1, <2>2, WalkEnds
  <2> HIDE DEF b, f, i
  <2>4. Data(h) = [src |-> <<f, b>>, at |-> (i - b * Per) * PageSize, n |-> Min({n, PageSize})]
    BY <1>2, <1>5, <1>8, <2>2, <2>3 DEF Data, i
  <2> QED
    BY <1>6, <2>1, <2>4 DEF f, i
<1>9. CASE pc[h] = "tail"
  <2>1. InFragment(f, b)
    BY <1>9 DEF Asking
  <2>2. b = FileEnd(f) /\ f \in Frag
    BY <1>1, <1>4, <2>1 DEF InFragment
  <2>3. b \notin Hole[f]
    <3>1. \A c \in Hole[f] : c < FileEnd(f)
      BY <1>1, <2>2, SFAssumption DEF FileEnd, BlockSize
    <3> QED
      BY <1>4, <2>2, <3>1
  <2>4. Data(h) = [src |-> <<f, b>>, at |-> (i - b * Per) * PageSize, n |-> Min({n, PageSize})]
    BY <1>2, <1>5, <1>9, <2>2 DEF Data
  <2> QED
    BY <1>6, <2>3, <2>4
<1> QED
  BY <1>7, <1>8, <1>9 DEF Pushes

\* Every step keeps the pages to what their files hold.
LEMMA PagesNext ==
  ASSUME TypeOK, Asking, Reading, Holding, PagesHoldTheFile, NEW h \in Thread, Step(h)
  PROVE  PagesHoldTheFile'
<1> DEFINE Fits(f, p, d) == d \in {None, Content(f, p)} \cup (IF f \in Link \cap Flaky THEN {Zero} ELSE {})
           f0 == t[h].file
<1>0. /\ \A f \in File : \A p \in PagesOf(f) : Fits(f, p, page[f][p])
      /\ DOMAIN page = File /\ \A f \in File : DOMAIN page[f] = PagesOf(f)
  BY DEF PagesHoldTheFile, TypeOK
<1>1. ASSUME NEW p \in PagesOf(f0), NEW d, page' = [page EXCEPT ![f0][p] = d], Fits(f0, p, d), f0 \in File
      PROVE  PagesHoldTheFile'
  <2>1. page'[f0][p] = d
    BY <1>0, <1>1
  <2>2. ASSUME NEW f \in File, NEW q \in PagesOf(f), <<f, q>> # <<f0, p>> PROVE page'[f][q] = page[f][q]
    BY <1>0, <1>1, <2>2
  <2> HIDE DEF f0
  <2>3. ASSUME NEW f \in File, NEW q \in PagesOf(f) PROVE Fits(f, q, page'[f][q])
    <3>1. CASE f = f0 /\ q = p
      BY <1>1, <2>1, <3>1
    <3>2. CASE ~(f = f0 /\ q = p)
      <4>1. page'[f][q] = page[f][q]
        BY <2>2, <3>2
      <4> QED
        BY <1>0, <4>1
    <3> QED
      BY <3>1, <3>2
  <2> QED
    BY <2>3 DEF PagesHoldTheFile
<1>2. CASE Push(h)
  <2> DEFINE i == t[h].i
  <2>1. pc[h] \in Pushes /\ More(h)
    BY <1>2 DEF Push
  <2>2. f0 \in File /\ i \in PagesOf(f0)
    BY <2>1, PushPage
  <2>3. page' = [page EXCEPT ![f0][i] = IF page[f0][i] = None THEN Data(h) ELSE page[f0][i]]
    BY <1>2 DEF Push, Unlock
  <2>4. Data(h) = Content(f0, i)
    BY <2>1, DataIsContent
  <2> DEFINE d == IF page[f0][i] = None THEN Data(h) ELSE page[f0][i]
  <2>5. Fits(f0, i, d)
    BY <1>0, <2>2, <2>4
  <2> QED
    BY <1>1, <2>2, <2>3, <2>5
<1>3. CASE Bail(h)
  <2> DEFINE p == t[h].page
  <2>1. pc[h] \in {"error", "beyond"} /\ pc[h] # "idle"
        /\ page' = [page EXCEPT ![f0][p] = IF pc[h] = "error" THEN None ELSE Zero]
    BY <1>3 DEF Bail, Unlock
  <2>2. f0 \in File /\ p \in PagesOf(f0) /\ p \in Nat
    BY <2>1, AskedTypes
  <2>3. pc[h] = "beyond" => Zero = Content(f0, p)
    <3>1. SUFFICES ASSUME pc[h] = "beyond" PROVE Zero = Content(f0, p)
      OBVIOUS
    <3>2. p * PageSize >= Size[f0] /\ p * PageSize \in Nat /\ Size[f0] \in Nat
      BY <2>2, <3>1, Constants DEF Asking
    <3>3. Size[f0] - p * PageSize <= 0
      BY <3>2
    <3> QED
      BY <3>3 DEF Content
  <2> DEFINE d == IF pc[h] = "error" THEN None ELSE Zero
  <2>4. Fits(f0, p, d)
    BY <2>1, <2>3
  <2> QED
    BY <1>1, <2>1, <2>2, <2>4
<1>4. CASE SymlinkReadpage(h)
  <2> DEFINE p == t[h].page
             n == Size[f0] - p * PageSize
             d == [src |-> <<f0, 0>>, at |-> p * PageSize, n |-> Min({n, PageSize})]
  <2>1. pc[h] = "link" /\ \E got \in {d} \cup (IF f0 \in Flaky THEN {Zero} ELSE {}) :
                             page' = [page EXCEPT ![f0][p] = got]
    BY <1>4 DEF SymlinkReadpage, Unlock
  <2>2. f0 \in File /\ p \in PagesOf(f0) /\ p \in Nat
    BY <2>1, AskedTypes
  <2>3. f0 \in Link /\ p * PageSize < Size[f0]
    BY <2>1 DEF Asking
  <2>4. d = Content(f0, p)
    <3>1. ~(n <= 0) /\ (p - 0 * Per) * PageSize = p * PageSize
      BY <2>2, <2>3, Constants
    <3>2. 0 \notin Hole[f0]
      BY <2>2, <2>3, SFAssumption
    <3> QED
      BY <2>3, <3>1, <3>2 DEF Content
  <2> HIDE DEF d
  <2>5. PICK got \in {d} \cup (IF f0 \in Flaky THEN {Zero} ELSE {}) : page' = [page EXCEPT ![f0][p] = got]
    BY <2>1
  <2>6. Fits(f0, p, got)
    BY <2>3, <2>4
  <2> QED
    BY <1>1, <2>2, <2>5, <2>6
<1>5. CASE ~(Push(h) \/ Bail(h) \/ SymlinkReadpage(h))
  <2>1. page' = page
    <3> USE DEF pages
    <3>1. CASE Ask(h)
      BY <3>1 DEF Ask
    <3>2. CASE Locate(h) \/ NoPlace(h) \/ Empty(h) \/ NoEmpty(h)
      BY <3>2 DEF Locate, Empty, NoEmpty, NoPlace
    <3>3. CASE Remember(h) \/ Release(h)
      BY <3>3 DEF Remember, Release
    <3>4. CASE Walk(h) \/ Mutex(h) \/ ReadData(h) \/ Fragment(h)
      BY <3>4 DEF Walk, Mutex, ReadData, Fragment
    <3>5. CASE Pass(h) \/ Grab(h) \/ Finish(h)
      BY <3>5 DEF Pass, Grab, Finish
    <3> QED
      BY <1>5, <3>1, <3>2, <3>3, <3>4, <3>5 DEF Step, Readpage, GetMetaIndex
  <2> QED
    BY <2>1 DEF PagesHoldTheFile
<1> QED
  BY <1>2, <1>3, <1>4, <1>5

-------------------------------------------------------------------------------
(* The theorems                                                            *)

LEMMA IInvInit == Init => IInv
<1> SUFFICES ASSUME Init PROVE IInv
  OBVIOUS
<1>1. TypeOK
  BY TypeOKInit
<1>2. \A h \in Thread : pc[h] = "idle" /\ t[h] = NoLocals
  BY DEF Init
<1>3. \A s \in Slot : meta[s] = NoMeta
  BY DEF Init
<1>4. Filling
  BY <1>2, <1>3 DEF Filling, NoLocals, NoMeta
<1>5. CursorsStand
  BY <1>2 DEF CursorsStand
<1>6. EmptySlots
  BY <1>2, <1>3 DEF EmptySlots, NoMeta
<1>7. SlotsTellTheList
  BY <1>3 DEF SlotsTellTheList, NoMeta
<1>8. Asking /\ Reading /\ Holding
  BY <1>2 DEF Asking, Reading, Holding, InList, AtBlock
<1>9. PagesHoldTheFile
  BY DEF Init, PagesHoldTheFile
<1> QED
  BY <1>1, <1>4, <1>5, <1>6, <1>7, <1>8, <1>9 DEF IInv, SlotsInv, PagesInv

LEMMA IInvNext == IInv /\ [Next]_vars => IInv'
<1> SUFFICES ASSUME IInv, [Next]_vars PROVE IInv'
  OBVIOUS
<1> USE DEF IInv, SlotsInv, PagesInv
<1>1. CASE Next
  <2>1. PICK h \in Thread : Step(h)
    BY <1>1 DEF Next, Step
  <2>2. TypeOK'
    BY <2>1, TypeOKNext
  <2>3. Filling' /\ CursorsStand' /\ EmptySlots' /\ SlotsTellTheList'
    BY <2>1, FillingNext, CursorsNext, EmptySlotsNext, SlotsTellNext
  <2>4. Asking' /\ Reading' /\ Holding' /\ PagesHoldTheFile'
    BY <2>1, AskingNext, ReadingNext, HoldingNext, PagesNext
  <2> QED
    BY <2>2, <2>3, <2>4
<1>2. CASE UNCHANGED vars
  <2> USE <1>2 DEF vars
  <2>1. TypeOK'
    BY DEF TypeOK
  <2>2. Filling' /\ EmptySlots' /\ SlotsTellTheList'
    BY DEF Filling, EmptySlots, SlotsTellTheList, MetaIndex, Index
  <2>3. CursorsStand'
    BY DEF CursorsStand, Wanting, MetaIndex, Index
  <2>4. Asking' /\ Reading' /\ Holding' /\ PagesHoldTheFile'
    BY DEF Asking, Reading, Holding, PagesHoldTheFile, Index, First
  <2> QED
    BY <2>1, <2>2, <2>3, <2>4
<1> QED
  BY <1>1, <1>2

LEMMA Invariant == Spec => []IInv
<1> QED
  BY IInvInit, IInvNext, PTL DEF Spec

\* The types of the slots, the shared buffer, the pages and the threads' locals.
THEOREM TypeCorrect == Spec => []TypeOK
<1>1. IInv => TypeOK
  BY DEF IInv
<1> QED
  BY <1>1, Invariant, PTL

\* A locked slot has one filler.
LEMMA OneFiller == IInv => OneFillerPerSlot
<1> SUFFICES ASSUME IInv, NEW s \in Slot
             PROVE  Cardinality({h \in Thread : t[h].slot = s}) = (IF meta[s].locked THEN 1 ELSE 0)
  BY DEF OneFillerPerSlot
<1>0. Filling /\ s # None
  BY SlotType DEF IInv, SlotsInv
<1>1. CASE meta[s].locked
  <2>1. PICK h \in Thread : t[h].slot = s
    BY <1>0, <1>1 DEF Filling
  <2>2. {g \in Thread : t[g].slot = s} = {h}
    BY <1>0, <2>1 DEF Filling
  <2> QED
    BY <1>1, <2>2, FS_Singleton
<1>2. CASE ~meta[s].locked
  <2>1. {g \in Thread : t[g].slot = s} = {}
    BY <1>0, <1>2 DEF Filling
  <2> QED
    BY <1>2, <2>1, FS_EmptySet
<1> QED
  BY <1>1, <1>2

\* A slot of the meta index is filled by one thread at a time, and what it says is of the
\* block list of its file, whoever had it before (lines 1335-1557 of inode.c).
THEOREM SlotsSound == Spec => []SlotsAreSound
<1>1. IInv => SlotsAreSound
  BY OneFiller DEF IInv, SlotsInv, SlotsAreSound
<1> QED
  BY <1>1, Invariant, PTL

\* A page that is uptodate holds what the file has there, whichever slot, buffer, fragment
\* or hole it came from, and a file that can be read gives no error (lines 1560-1721).
THEOREM PagesTrue == Spec => []PagesAreTheFile
<1>1. IInv => PagesAreTheFile
  BY DEF IInv, SlotsInv, PagesInv, PagesAreTheFile, EmptySlots, ErrorsStayInTheirFile
<1> QED
  BY <1>1, Invariant, PTL
===============================================================================
