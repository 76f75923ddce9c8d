----------------------------- MODULE SquashfsFile -----------------------------
(***************************************************************************)
(* Reading a file: squashfs_readpage, the block list it looks a block up   *)
(* in, the meta index that remembers places in the block lists of the      *)
(* files last read, and squashfs_symlink_readpage.                         *)
(*                                                                         *)
(* Threads read pages of several files at once.  They share the slots of   *)
(* the meta index (under meta_index_mutex, and locked while a thread fills *)
(* one), the buffer read_page (under read_page_mutex) and the pages, each  *)
(* locked by the thread that fills it.  Reads of metadata and fragments    *)
(* keep the promise of SquashfsBlocks: the right data, or an error.        *)
(*                                                                         *)
(* Lengths are in units of which a page holds PageSize.  A page's data is  *)
(* [src, at, n]: n units of block src from unit at on, the rest zero.      *)
(***************************************************************************)
EXTENDS Integers, FiniteSets, FiniteSetsExt

CONSTANTS
  Thread, None,
  File,        \* inode numbers, not 0
  Size,        \* [File -> units]
  Frag,        \* the files whose tail is in a fragment
  Hole,        \* [File -> blocks of size 0]
  Link,        \* the files that are symbolic links
  PageSize,    \* PAGE_CACHE_SIZE
  Per,         \* pages in a block
  Indexes,     \* SQUASHFS_META_INDEXES
  Entries,     \* SQUASHFS_META_ENTRIES
  Slots,       \* SQUASHFS_SLOTS
  Number,      \* SQUASHFS_META_NUMBER
  Asked,       \* bound: [File -> pages the kernel asks for]
  Flaky,       \* bound: the files for which a read of the device or an allocation may fail
  MaxReads     \* bound: pages the kernel asks for

\* A hole is a block of the list: not in a link, and not in the tail a fragment has.
ASSUME SFAssumption ==
  /\ File \subseteq Nat \ {0} /\ None \notin Thread \cup Nat
  /\ Frag \subseteq File /\ Link \subseteq File /\ Flaky \subseteq File
  /\ {PageSize, Per, Indexes, Entries, Slots, Number} \subseteq Nat \ {0}
  /\ Size \in [File -> Nat] /\ Hole \in [File -> SUBSET Nat] /\ Asked \in [File -> SUBSET Nat]
  /\ \A f \in File : \A b \in Hole[f] :
       f \notin Link /\ (f \in Frag => b < Size[f] \div (PageSize * Per))
  /\ MaxReads \in Nat

VARIABLES
  meta,      \* msblk->meta_index: [ino, offset, entries, locked, entry]
  nextmeta,  \* next_meta_index; None before meta_index is allocated
  buf,       \* what read_page holds: the file and where its block list stood
  pagemutex, \* who has read_page_mutex
  holder,    \* [file -> [page -> who has it locked]]
  page,      \* [file -> [page -> its data, None unless uptodate]]
  pc, t,     \* the threads: where they are, and their locals
  reads

shared == <<meta, nextmeta>>
pages  == <<holder, page>>
vars   == <<meta, nextmeta, buf, pagemutex, holder, page, pc, t, reads>>

Slot   == 0 .. Number - 1
BlockSize == PageSize * Per
FileEnd(f) == Size[f] \div BlockSize                       \* i_size >> block_log
TailLength(f) == Size[f] % BlockSize
PagesOf(f) == UNION {Per * (p \div Per) .. Per * (p \div Per) + Per - 1 : p \in Asked[f]}

\* Where a block list stands: list entries have been read, and the sizes of data of
\* them added up.  read_block_index moves both, or fails.
Start       == [list |-> 0, data |-> 0]
Ahead(c, n) == [list |-> c.list + n, data |-> c.data + n]

NoBuf    == [file |-> 0, cur |-> Start]
NoLocals == [file |-> 0, page |-> 0, off |-> 0, slot |-> None, cur |-> Start, i |-> 0, bytes |-> 0]
NoMeta   == [ino |-> 0, offset |-> 0, entries |-> 0, locked |-> FALSE,
             entry |-> [j \in 0 .. Entries - 1 |-> Start]]

Init ==
  /\ meta = [s \in Slot |-> NoMeta] /\ nextmeta = None
  /\ buf = NoBuf /\ pagemutex = None
  /\ holder = [f \in File |-> [p \in PagesOf(f) |-> None]]
  /\ page = [f \in File |-> [p \in PagesOf(f) |-> None]]
  /\ pc = [h \in Thread |-> "idle"] /\ t = [h \in Thread |-> NoLocals]
  /\ reads = 0

Goto(h, s) == pc' = [pc EXCEPT ![h] = s]
Index(h) == t[h].page \div Per
InFragment(f, b) == f \in Frag /\ b >= FileEnd(f)
Zero == [src |-> "zero", at |-> 0, n |-> 0]

\* calculate_skip: how many times Indexes blocks lie between two entries of a slot (for
\* a file of less than a block the code's unsigned division gives another number, which
\* nothing uses: the block asked for is the first).
CalculateSkip(blocks) ==
  LET skip == IF blocks = 0 THEN 0 ELSE (blocks - 1) \div ((Slots * Entries + 1) * Indexes)
  IN  IF skip >= 7 THEN 7 ELSE skip + 1
Stride(f) == Indexes * CalculateSkip(FileEnd(f))
MetaIndex(h) == Index(h) \div Stride(t[h].file)    \* index /= SQUASHFS_META_INDEXES * skip

-------------------------------------------------------------------------------
(* The kernel                                                              *)

\* A page that is not uptodate is locked and handed to readpage.
Ask(h) ==
  /\ pc[h] = "idle" /\ reads < MaxReads /\ reads' = reads + 1
  /\ \E f \in File : \E p \in Asked[f] :
       /\ page[f][p] = None /\ holder[f][p] = None
       /\ f \in Link => p * PageSize < Size[f]
       /\ holder' = [holder EXCEPT ![f][p] = h]
       /\ t' = [t EXCEPT ![h] = [NoLocals EXCEPT !.file = f, !.page = p]]
       /\ Goto(h, IF f \in Link THEN "link"
                  ELSE IF p * PageSize >= Size[f] THEN "beyond"
                  ELSE IF InFragment(f, p \div Per) THEN "fragment" ELSE "locate")
  /\ UNCHANGED <<shared, buf, pagemutex, page>>

\* The page is done with: uptodate with data d, or not.
Unlock(h, p, d) ==
  LET f == t[h].file IN
  /\ holder' = [holder EXCEPT ![f][p] = None]
  /\ page' = [page EXCEPT ![f][p] = d]

Return(h) == Goto(h, "idle") /\ t' = [t EXCEPT ![h] = NoLocals]

-------------------------------------------------------------------------------
(* get_meta_index: from the nearest place the slots remember on, and       *)
(* remembering more, as near to the block as whole strides go.             *)

\* Mutant: slots of other files are taken as well.
Usable_AnyFile(h, s) == t[h].off < meta[s].offset /\ meta[s].offset <= MetaIndex(h) /\ ~meta[s].locked
Usable(h, s) ==
  /\ meta[s].ino = t[h].file
  /\ t[h].off < meta[s].offset /\ meta[s].offset <= MetaIndex(h)
  /\ ~meta[s].locked
Located(h) == {s \in Slot : Usable(h, s)}

\* locate_meta_index finds the slot that leads farthest (the last of them), and the
\* cursor jumps to its last entry or to the one asked for.  A slot without entries is
\* taken for a failure.
Locate(h) ==
  /\ pc[h] = "locate" /\ t[h].off < MetaIndex(h)
  /\ \E s \in Located(h) :
       /\ \A u \in Located(h) : meta[u].offset < meta[s].offset
                                \/ (meta[u].offset = meta[s].offset /\ u <= s)
       /\ meta' = [meta EXCEPT ![s].locked = TRUE]
       /\ LET m   == meta[s]
              off == Min({MetaIndex(h), m.offset + m.entries - 1})
          IN  IF m.entries = 0
              THEN /\ t' = [t EXCEPT ![h].slot = s]
                   /\ Goto(h, "giveup")
              ELSE /\ t' = [t EXCEPT ![h].slot = s, ![h].off = off,
                                     ![h].cur = m.entry[off - m.offset]]
                   /\ Goto(h, "remember")
  /\ UNCHANGED <<nextmeta, buf, pagemutex, pages, reads>>

\* No slot leads farther.  The mutex is given back before empty_meta_index takes it again:
\* others take and release slots in between, also slots of the same file.
NoPlace(h) ==
  /\ pc[h] = "locate" /\ t[h].off < MetaIndex(h) /\ Located(h) = {}
  /\ Goto(h, "empty")
  /\ UNCHANGED <<shared, buf, pagemutex, pages, t, reads>>

From(n, k) == (n + k) % Number
Next0 == IF nextmeta = None THEN 0 ELSE nextmeta
Idle  == {k \in 0 .. Number - 1 : ~meta[From(Next0, k)].locked}

Taken(h, m) == [m EXCEPT !.ino = t[h].file, !.offset = t[h].off + 1, !.locked = TRUE]
\* Mutant: the entries of the slot's last file stay.
Emptied_Keeps(h, m) == Taken(h, m)
Emptied(h, m) == [Taken(h, m) EXCEPT !.entries = 0]

\* empty_meta_index clears the next slot that nobody fills (and makes the slots first,
\* if there are none yet).
Empty(h) ==
  /\ pc[h] = "empty" /\ Idle # {}
  /\ LET s == From(Next0, Min(Idle)) IN
     /\ meta' = [meta EXCEPT ![s] = Emptied(h, @)]
     /\ nextmeta' = From(s, 1)
     /\ t' = [t EXCEPT ![h].slot = s]
  /\ Goto(h, "remember")
  /\ UNCHANGED <<buf, pagemutex, pages, reads>>

\* Every slot is being filled, or there is no memory for them: on without.
NoEmpty(h) ==
  /\ pc[h] = "empty"
  /\ Idle = {} \/ nextmeta = None
  /\ Goto(h, "walk")
  /\ UNCHANGED <<shared, buf, pagemutex, pages, t, reads>>

\* Mutant: one entry more than the slot has.
Wanting_OneMore(h) ==
  LET m == meta[t[h].slot] IN m.offset + m.entries <= MetaIndex(h) /\ m.entries <= Entries
Wanting(h) ==    \* the slot has room before the block asked for
  LET m == meta[t[h].slot] IN
  m.offset + m.entries <= MetaIndex(h) /\ m.entries < Entries

\* One more entry: a stride of the block list is read.
Remember(h) ==
  /\ pc[h] = "remember" /\ Wanting(h)
  /\ LET s == t[h].slot
         c == Ahead(t[h].cur, Stride(t[h].file))
     IN  \/ /\ meta' = [meta EXCEPT ![s].entries = @ + 1,
                                    ![s].entry[meta[s].entries] = c]
            /\ t' = [t EXCEPT ![h].cur = c, ![h].off = @ + 1]
            /\ UNCHANGED pc
         \/ /\ t[h].file \in Flaky
            /\ Goto(h, "giveup")
            /\ UNCHANGED <<meta, t>>
  /\ UNCHANGED <<nextmeta, buf, pagemutex, pages, reads>>

\* release_meta_index, and on with the loop or out with -1.
Release(h) ==
  /\ pc[h] = "giveup" \/ (pc[h] = "remember" /\ ~Wanting(h))
  /\ meta' = [meta EXCEPT ![t[h].slot].locked = FALSE]
  /\ t' = [t EXCEPT ![h].slot = None]
  /\ Goto(h, IF pc[h] = "giveup" THEN "error" ELSE "locate")
  /\ UNCHANGED <<nextmeta, buf, pagemutex, pages, reads>>

-------------------------------------------------------------------------------
(* read_blocklist and squashfs_readpage                                    *)

\* The length of block b as the file's length has it.
Length(f, b) == IF b = FileEnd(f) THEN TailLength(f) ELSE BlockSize
First(h) == Index(h) * Per     \* start_index

\* The rest of the way to the block, and its size: 0 is a hole.
Walk(h) ==
  /\ pc[h] = "walk" \/ (pc[h] = "locate" /\ t[h].off >= MetaIndex(h))
  /\ LET f == t[h].file
         c == Ahead(t[h].cur, Index(h) - t[h].off * Stride(f))
     IN  \/ /\ t' = [t EXCEPT ![h].cur = c, ![h].i = First(h), ![h].bytes = Length(f, Index(h))]
            /\ Goto(h, IF c.list \in Hole[f] THEN "hole" ELSE "mutex")
         \/ f \in Flaky /\ Goto(h, "error") /\ UNCHANGED t
  /\ UNCHANGED <<shared, buf, pagemutex, pages, reads>>

Mutex(h) ==
  /\ pc[h] = "mutex" /\ pagemutex = None
  /\ pagemutex' = h
  /\ Goto(h, "read")
  /\ UNCHANGED <<shared, buf, pages, t, reads>>

\* squashfs_read_data into read_page
ReadData(h) ==
  /\ pc[h] = "read"
  /\ \/ /\ buf' = [file |-> t[h].file, cur |-> t[h].cur]
        /\ Goto(h, "data")
        /\ UNCHANGED pagemutex
     \/ /\ t[h].file \in Flaky
        /\ buf' = NoBuf /\ pagemutex' = None
        /\ Goto(h, "error")
  /\ UNCHANGED <<shared, pages, t, reads>>

Fragment(h) ==
  /\ pc[h] = "fragment"
  /\ \/ /\ t' = [t EXCEPT ![h].i = First(h), ![h].bytes = TailLength(t[h].file)]
        /\ Goto(h, "tail")
     \/ t[h].file \in Flaky /\ Goto(h, "error") /\ UNCHANGED t
  /\ UNCHANGED <<shared, buf, pagemutex, pages, reads>>

Pushes == {"hole", "data", "tail"}
More(h) == t[h].i < First(h) + Per /\ t[h].bytes > 0

\* What goes into page i: from the hole, the shared buffer or the fragment.
Data(h) ==
  LET at == (t[h].i - First(h)) * PageSize
      n  == Min({t[h].bytes, PageSize})
  IN  CASE pc[h] = "hole" -> Zero
        [] pc[h] = "data" -> IF buf.cur.list = buf.cur.data
                             THEN [src |-> <<buf.file, buf.cur.data>>, at |-> at, n |-> n]
                             ELSE [src |-> "garbage", at |-> at, n |-> n]
        [] pc[h] = "tail" -> [src |-> <<t[h].file, FileEnd(t[h].file)>>, at |-> at, n |-> n]

Onward(h) == t' = [t EXCEPT ![h].i = @ + 1, ![h].bytes = @ - PageSize]

\* Mutant: a page that somebody has locked is waited for.
Passed_Waits(h) == FALSE
\* grab_cache_page_nowait: a page that somebody else has locked is passed over.
Passed(h) == holder[t[h].file][t[h].i] \notin {None, h}

Pass(h) ==
  /\ pc[h] \in Pushes /\ More(h) /\ Passed(h)
  /\ Onward(h)
  /\ UNCHANGED <<shared, buf, pagemutex, pages, pc, reads>>

Grab(h) ==
  /\ pc[h] \in Pushes /\ More(h) /\ holder[t[h].file][t[h].i] = None
  /\ holder' = [holder EXCEPT ![t[h].file][t[h].i] = h]
  /\ UNCHANGED <<shared, buf, pagemutex, page, pc, t, reads>>

\* The page is filled, unless it is uptodate, and unlocked.
Push(h) ==
  /\ pc[h] \in Pushes /\ More(h) /\ holder[t[h].file][t[h].i] = h
  /\ LET was == page[t[h].file][t[h].i] IN
     Unlock(h, t[h].i, IF was = None THEN Data(h) ELSE was)
  /\ Onward(h)
  /\ UNCHANGED <<shared, buf, pagemutex, pc, reads>>

Finish(h) ==
  /\ pc[h] \in Pushes /\ ~More(h)
  /\ IF pc[h] = "data" THEN pagemutex' = None /\ buf' = NoBuf ELSE UNCHANGED <<pagemutex, buf>>
  /\ Return(h)
  /\ UNCHANGED <<shared, pages, reads>>

\* error_out and out: the page is zeroed, and uptodate unless there was an error.
Bail(h) ==
  /\ pc[h] \in {"error", "beyond"}
  /\ Unlock(h, t[h].page, IF pc[h] = "error" THEN None ELSE Zero)
  /\ Return(h)
  /\ UNCHANGED <<shared, buf, pagemutex, reads>>

\* squashfs_symlink_readpage: what cannot be read is zero, and uptodate all the same.
SymlinkReadpage(h) ==
  /\ pc[h] = "link"
  /\ LET f  == t[h].file
         at == t[h].page * PageSize
         d  == [src |-> <<f, 0>>, at |-> at, n |-> Min({Size[f] - at, PageSize})]
     IN  \E got \in {d} \cup (IF f \in Flaky THEN {Zero} ELSE {}) : Unlock(h, t[h].page, got)
  /\ Return(h)
  /\ UNCHANGED <<shared, buf, pagemutex, reads>>

GetMetaIndex(h) ==
  Locate(h) \/ NoPlace(h) \/ Empty(h) \/ NoEmpty(h) \/ Remember(h) \/ Release(h)
Readpage(h) ==
  \/ GetMetaIndex(h) \/ Walk(h) \/ ReadData(h) \/ Fragment(h)
  \/ Pass(h) \/ Grab(h) \/ Push(h) \/ Finish(h) \/ Bail(h) \/ SymlinkReadpage(h)

Next == \E h \in Thread : Ask(h) \/ Readpage(h) \/ Mutex(h)

Spec == Init /\ [][Next]_vars

\* Threads run, and a mutex goes to its waiters in their order.
FairSpec == Spec /\ \A h \in Thread : WF_vars(Readpage(h)) /\ SF_vars(Mutex(h))

-------------------------------------------------------------------------------
(* Properties                                                              *)

Cursor == [list : Int, data : Int]
Metas  == [ino : File \cup {0}, offset : Nat, entries : 0 .. Entries, locked : BOOLEAN,
           entry : [0 .. Entries - 1 -> Cursor]]
Locals == [file : File \cup {0}, page : Nat, off : Nat, slot : Slot \cup {None},
           cur : Cursor, i : Nat, bytes : Int]
Places == Pushes \cup {"idle", "locate", "empty", "remember", "giveup", "walk", "mutex",
                      "read", "fragment", "error", "beyond", "link"}

TypeOK ==
  /\ meta \in [Slot -> Metas] /\ nextmeta \in Slot \cup {None}
  /\ buf \in [file : File \cup {0}, cur : Cursor] /\ pagemutex \in Thread \cup {None}
  /\ DOMAIN holder = File /\ \A f \in File : holder[f] \in [PagesOf(f) -> Thread \cup {None}]
  /\ DOMAIN page = File /\ \A f \in File : DOMAIN page[f] = PagesOf(f)
  /\ pc \in [Thread -> Places] /\ t \in [Thread -> Locals]
  /\ reads \in 0 .. MaxReads

\* What the file holds at page p.
Content(f, p) ==
  LET b  == IF f \in Link THEN 0 ELSE p \div Per
      at == (p - b * Per) * PageSize
      n  == Size[f] - p * PageSize
  IN  IF n <= 0 \/ b \in Hole[f] THEN Zero
      ELSE [src |-> <<f, b>>, at |-> at, n |-> Min({n, PageSize})]

\* A page that is uptodate holds what the file has there, whoever filled it and for
\* whichever page it was asked (lines 1670-1696); a link that could not be read is the
\* exception, its page is zero (lines 1322-1329).
PagesHoldTheFile ==
  \A f \in File : \A p \in PagesOf(f) :
    page[f][p] \in {None, Content(f, p)} \cup (IF f \in Link \cap Flaky THEN {Zero} ELSE {})

\* A file that can be read gives no error, whatever happens to the files it shares
\* the slots, the buffer and the mutexes with.
ErrorsStayInTheirFile == \A h \in Thread : pc[h] = "error" => t[h].file \in Flaky

\* Whatever other files do to the slots, the buffer and the mutexes that all share, a read
\* gives what its own file has or an error that its own file has.
PagesAreTheFile == PagesHoldTheFile /\ ErrorsStayInTheirFile

\* The entries of a slot are places in the block list of the slot's file, whatever
\* file and whichever thread had the slot before (lines 1412-1416 and 1533-1538).
SlotsTellTheList ==
  \A s \in Slot : \A j \in 0 .. meta[s].entries - 1 :
    meta[s].entry[j] = Ahead(Start, (meta[s].offset + j) * Stride(meta[s].ino))

\* A slot is filled by one thread at a time, and locked no longer than that.
OneFillerPerSlot ==
  \A s \in Slot : Cardinality({h \in Thread : t[h].slot = s}) = (IF meta[s].locked THEN 1 ELSE 0)

\* However threads and files take turns with the slots, a slot has one filler and tells the
\* block list of one file.
SlotsAreSound == SlotsTellTheList /\ OneFillerPerSlot

\* Every page the kernel locks for a read is unlocked: a thread that holds a page and
\* the mutex waits for no page of another, so once no page is asked for all return.
ReadsReturn == <>[][\A h \in Thread : ~Ask(h)]_vars => <>[](\A h \in Thread : pc[h] = "idle")
===============================================================================
