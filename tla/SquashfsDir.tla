------------------------------ MODULE SquashfsDir ------------------------------
(***************************************************************************)
(* The names of a mounted image: readdir, lookup, the index of a directory,*)
(* squashfs_iget and read_inode, and the exported inodes, for images of    *)
(* version 3 (inode.c) and version 2 (squashfs2_0.c).                      *)
(*                                                                         *)
(* The kernel (external) holds the directory's mutex round readdir and     *)
(* lookup, calls lookup for a name it has no dentry of, and gives an inode *)
(* number one inode, locked while it is new.  Reads of metadata keep the   *)
(* promise of SquashfsBlocks: the right bytes, or an error.                *)
(*                                                                         *)
(* A directory is a sequence of items: 0 is a header, a number a name.     *)
(* Names are two digits, and compare as numbers do.  An item takes Item    *)
(* units of the directory table, which has Block units in a block and in   *)
(* which the directory starts at unit Base.                                *)
(***************************************************************************)
EXTENDS Integers, Sequences, FiniteSets, Functions

CONSTANTS
  Thread, None,
  Image,      \* images that can be mounted
  Major, Minor,   \* [Image -> version]
  Dir,        \* [Image -> items of the directory]
  Index,      \* [Image -> items (headers) the directory's index points to]
  Block,      \* SQUASHFS_METADATA_SIZE
  Base,       \* where the directory starts
  Item,       \* size of a header, of an entry with its name
  Name,       \* names looked up
  Ino,        \* [name in a directory -> inode number]
  Kind,       \* [inode number -> "plain", "fragment", "ipc" or "unknown"]
  Export,     \* images with an inode lookup table
  MaxCalls,   \* bound: calls
  MaxFaults   \* bound: reads and allocations that fail

ASSUME SDAssumption ==
  /\ None \notin Thread \cup Image /\ Export \subseteq Image
  /\ Name \subseteq 10 .. 99 /\ Name # {} /\ DOMAIN Ino \subseteq 10 .. 99
  /\ {Block, Item, MaxCalls, MaxFaults} \subseteq Nat /\ Block > 0 /\ Item > 0 /\ Base \in 0 .. Block - 1

\* Images are as the format has them: a directory is headers, each before its names; an
\* index, which only sorted directories have, points at headers.
Ascending(items) ==
  \A i, j \in DOMAIN items : i < j /\ items[i] # 0 /\ items[j] # 0 => items[i] < items[j]
ASSUME SDImages ==
  /\ Ino \in [DOMAIN Ino -> Range(Ino)]
  /\ Kind \in [Range(Ino) -> {"plain", "fragment", "ipc", "unknown"}]
  /\ \A i \in Image :
       /\ Major[i] \in Nat /\ Minor[i] \in Nat
       /\ Dir[i] \in Seq({0} \cup DOMAIN Ino) /\ (Dir[i] # <<>> => Dir[i][1] = 0)
       /\ Index[i] \in Seq(Nat \ {0})
       /\ \A k \in 1 .. Len(Index[i]) :
            /\ Index[i][k] < Len(Dir[i])
            /\ Dir[i][Index[i][k]] = 0 /\ Dir[i][Index[i][k] + 1] # 0
       /\ Index[i] # <<>> \/ Major[i] = 3 \/ Minor[i] >= 1 => Ascending(Dir[i])

VARIABLES
  img,      \* the image that is mounted, or None
  fpos,     \* f_pos of the open directory
  listed,   \* what filldir was given since it was opened
  strayed,  \* a read of the index failed and its bytes were used all the same
  dentry,   \* [name -> what the kernel knows of it]
  icache,   \* [inode number -> "absent", "new", "read" or "half"]
  dirmutex, \* who holds the directory's i_mutex
  pc, t,    \* the threads: where they are, and their locals
  calls, faults
names   == <<fpos, listed, strayed>>
inodes  == <<dentry, icache>>
dirvars == <<img, fpos, listed, strayed, dentry, icache, dirmutex, pc, t, calls, faults>>

Dot == 1  Dotdot == 2
Inode    == Range(Ino)
Answer   == {"none", "read", "bad", "half", "any"}
NoLocals == [name |-> 0, ino |-> 0, len |-> 0, at |-> 0, left |-> 0, then |-> "idle",
             answer |-> "none", hit |-> FALSE, full |-> FALSE]
Ops      == {"dots", "offset", "header", "entry", "listed", "name", "lheader", "lentry", "looked",
             "table", "iget", "await", "base", "rest", "location", "unlock", "exported"}

DirInit ==
  /\ img = None /\ fpos = 0 /\ listed = <<>> /\ strayed = FALSE
  /\ dentry = [n \in Name |-> "unknown"] /\ icache = [i \in Inode |-> "absent"]
  /\ dirmutex = None /\ pc = [h \in Thread |-> "idle"] /\ t = [h \in Thread |-> NoLocals]
  /\ calls = 0 /\ faults = 0

Goto(h, s)   == pc' = [pc EXCEPT ![h] = s]
Set(h, l)    == t' = [t EXCEPT ![h] = l]
Calls        == calls < MaxCalls /\ calls' = calls + 1
NoFault      == UNCHANGED faults
Fault        == faults < MaxFaults /\ faults' = faults + 1
FaultTo(h, s) == Fault /\ Set(h, [t[h] EXCEPT !.hit = TRUE]) /\ Goto(h, s)
V3           == Major[img] = 3
First(n)     == n \div 10

-------------------------------------------------------------------------------
(* Where things are                                                        *)

\* f_pos counts the two dots first in version 3: they are three letters.
Ahead == IF V3 THEN 3 ELSE 0
Size  == Len(Dir[img]) * Item + Ahead       \* i_size
\* The item at unit u of the table, 0 if it is no name.
ItemAt(u) ==
  LET d == u - Base IN
  IF d % Item = 0 /\ d \div Item \in 0 .. Len(Dir[img]) - 1 THEN Dir[img][d \div Item + 1] ELSE 0
\* dirh.count + 1
Count(u) ==
  LET k == (u - Base) \div Item + 1
  IN  Cardinality({j \in k + 1 .. Len(Dir[img]) : \A i \in k + 1 .. j : Dir[img][i] # 0})

\* The index: a header's place, the block of the table it starts in, and the first name.
Place(k)      == (Index[img][k] - 1) * Item
StartBlock(k) == (Place(k) + Base) \div Block
FirstName(k)  == Dir[img][Index[img][k] + 1]
Indexes       == 1 .. Len(Index[img])

\* *next_block and *next_offset after k entries of the index
Landing(k) == (StartBlock(k) * Block) + ((Place(k) + Base) % Block)
Jumped(l, k) == IF k = 0 THEN [l EXCEPT !.len = Ahead, !.at = Base]
                         ELSE [l EXCEPT !.len = Place(k) + Ahead, !.at = Landing(k)]

\* get_dir_index_using_offset and _name: the last entry that is not behind.  The reads'
\* results are not looked at: one that fails leaves what was in memory, which ends the
\* search there or sends it anywhere.
Search(h, fits, next) ==
  LET most == Cardinality({k \in Indexes : 1 .. k \subseteq fits})
      seen == Cardinality({k \in Indexes : k <= most + 1})    \* entries read
  IN
  \/ /\ Set(h, Jumped(t[h], most)) /\ Goto(h, next)
     /\ NoFault /\ UNCHANGED strayed
  \/ /\ seen > 0 /\ Fault
     /\ \E k \in 0 .. seen - 1 : Set(h, [Jumped(t[h], k) EXCEPT !.hit = TRUE])
     /\ Goto(h, next)
     /\ UNCHANGED strayed
  \/ /\ seen > 0 /\ Fault
     /\ Set(h, [t[h] EXCEPT !.hit = TRUE, !.answer = "any"])
     /\ Goto(h, IF next = "header" THEN "listed" ELSE "looked")
     /\ strayed' = (strayed \/ next = "header")

-------------------------------------------------------------------------------
(* readdir                                                                 *)

Readdir(h) ==
  /\ pc[h] = "idle" /\ img # None /\ dirmutex = None /\ Calls /\ ~strayed
  /\ dirmutex' = h
  /\ \/ Set(h, NoLocals) /\ Goto(h, IF V3 THEN "dots" ELSE "offset") /\ NoFault
     \/ FaultTo(h, "listed")
  /\ UNCHANGED <<img, names, inodes>>

\* filldir takes the name, or has no room.
Filldir(h, n, pos, l) ==
  \/ listed' = Append(listed, n) /\ fpos' = pos /\ Set(h, l) /\ UNCHANGED pc
  \/ Set(h, [t[h] EXCEPT !.full = TRUE]) /\ Goto(h, "listed") /\ UNCHANGED <<listed, fpos>>

Dots(h) ==
  /\ pc[h] = "dots" /\ fpos < 3
  /\ IF fpos = 0 THEN Filldir(h, Dot, 1, t[h]) ELSE Filldir(h, Dotdot, fpos + 2, t[h])
  /\ UNCHANGED <<img, strayed, inodes, dirmutex, calls, faults>>

UsingOffset(h) ==
  /\ pc[h] = "offset" \/ (pc[h] = "dots" /\ fpos >= 3)
  /\ IF fpos - Ahead = 0
     THEN Set(h, Jumped(t[h], 0)) /\ Goto(h, "header") /\ NoFault /\ UNCHANGED strayed
     ELSE Search(h, {k \in Indexes : Place(k) <= fpos - Ahead}, "header")
  /\ UNCHANGED <<img, fpos, listed, inodes, dirmutex, calls>>

\* A header, of a directory that is listed or searched.
Header(h, from, to, done) ==
  /\ pc[h] = from
  /\ IF t[h].len >= Size THEN Goto(h, done) /\ NoFault /\ UNCHANGED t
     ELSE \/ /\ Set(h, [t[h] EXCEPT !.left = Count(t[h].at), !.len = @ + Item, !.at = @ + Item])
             /\ Goto(h, to) /\ NoFault
          \/ FaultTo(h, done)
  /\ UNCHANGED <<img, names, inodes, dirmutex, calls>>

\* Mutant: the entry f_pos stands behind comes again.
Known_Again(l) == fpos > l.len + Item
\* file->f_pos >= length: the entry was listed before.
Known(l) == fpos >= l.len + Item

Passed(h) == [t[h] EXCEPT !.len = @ + Item, !.at = @ + Item, !.left = @ - 1]
EndOfHeader(h, from, to) ==
  /\ pc[h] = from /\ t[h].left = 0 /\ Goto(h, to)
  /\ UNCHANGED <<img, names, inodes, dirmutex, t, calls, faults>>

Entry(h) ==
  /\ pc[h] = "entry" /\ t[h].left > 0
  /\ \/ FaultTo(h, "listed") /\ UNCHANGED <<listed, fpos>>
     \/ Known(t[h]) /\ Set(h, Passed(h)) /\ NoFault /\ UNCHANGED <<listed, fpos, pc>>
     \/ ~Known(t[h]) /\ Filldir(h, ItemAt(t[h].at), t[h].len + Item, Passed(h)) /\ NoFault
  /\ UNCHANGED <<img, strayed, inodes, dirmutex, calls>>

-------------------------------------------------------------------------------
(* lookup                                                                  *)

Lookup(h) ==
  /\ pc[h] = "idle" /\ img # None /\ dirmutex = None /\ Calls
  /\ dirmutex' = h
  /\ \E n \in Name : \E ok \in BOOLEAN :
       /\ dentry[n] = "unknown"
       /\ Set(h, [NoLocals EXCEPT !.name = n, !.hit = ~ok])
       /\ IF ok THEN Goto(h, "name") /\ NoFault ELSE Goto(h, "looked") /\ Fault
  /\ UNCHANGED <<img, names, inodes>>

\* By the index, or from the start if there is no memory for it.
UsingName(h) ==
  /\ pc[h] = "name"
  /\ \/ Search(h, {k \in Indexes : FirstName(k) <= t[h].name}, "lheader")
     \/ /\ Fault /\ Set(h, Jumped(t[h], 0)) /\ Goto(h, "lheader")
        /\ UNCHANGED strayed
  /\ UNCHANGED <<img, fpos, listed, inodes, dirmutex, calls>>

\* Mutant: an image of version 2.0, which is not sorted, is taken for sorted.
Sorted_Always(h) == TRUE
Sorted(h) == Major[img] = 3 \/ Minor[img] >= 1
Behind(h, n) == Sorted(h) /\ First(t[h].name) < First(n)

LookupEntry(h) ==
  /\ pc[h] = "lentry" /\ t[h].left > 0
  /\ LET n == ItemAt(t[h].at) IN
     \/ FaultTo(h, "looked")
     \/ Behind(h, n) /\ Goto(h, "looked") /\ NoFault /\ UNCHANGED t
     \/ /\ ~Behind(h, n) /\ n = t[h].name /\ NoFault
        /\ Set(h, [t[h] EXCEPT !.ino = Ino[n], !.then = "looked"]) /\ Goto(h, "iget")
     \/ /\ ~Behind(h, n) /\ n # t[h].name /\ NoFault
        /\ Set(h, Passed(h)) /\ UNCHANGED pc
  /\ UNCHANGED <<img, names, inodes, dirmutex, calls>>

\* The dentry gets the inode, or none: the name does not exist, as far as the kernel knows.
Added(a) == IF a = "none" THEN "negative" ELSE a

Return(h) ==
  /\ pc[h] \in {"listed", "looked", "exported"}
  /\ dirmutex' = IF pc[h] = "exported" THEN dirmutex ELSE None
  /\ dentry' = IF pc[h] = "looked" THEN [dentry EXCEPT ![t[h].name] = Added(t[h].answer)]
               ELSE dentry
  /\ Set(h, NoLocals) /\ Goto(h, "idle")
  /\ UNCHANGED <<img, names, icache, calls, faults>>

-------------------------------------------------------------------------------
(* Inodes                                                                  *)

\* Mutant: every image gets the export operations.
CanExport_All(i) == i # None
\* s_export_op is set if there is an inode lookup table.
CanExport(i) == i \in Export
\* fh_to_dentry, fh_to_parent and get_parent: an inode by its number.
ExportIget(h) ==
  /\ pc[h] = "idle" /\ CanExport(img) /\ Calls
  /\ \E i \in Inode : Set(h, [NoLocals EXCEPT !.ino = i, !.then = "exported"])
  /\ Goto(h, "table")
  /\ UNCHANGED <<img, names, inodes, dirmutex, faults>>
InodeLookup(h) ==
  /\ pc[h] = "table"
  /\ \/ Goto(h, "iget") /\ NoFault /\ UNCHANGED t
     \/ FaultTo(h, "exported")
  /\ UNCHANGED <<img, names, inodes, dirmutex, calls>>

\* Mutant: an inode that is still being read is taken.
Ready_New(i) == TRUE
Ready(i) == icache[i] # "new"

\* iget_locked: a new inode, locked, if there is memory; or the one there is, when whoever
\* reads it is done.
Iget(h) ==
  /\ pc[h] = "iget"
  /\ LET i == t[h].ino IN
     \/ /\ icache[i] = "absent" /\ NoFault
        /\ icache' = [icache EXCEPT ![i] = "new"] /\ Goto(h, "base") /\ UNCHANGED t
     \/ icache[i] = "absent" /\ FaultTo(h, t[h].then) /\ UNCHANGED icache
     \/ /\ icache[i] # "absent" /\ Ready(i) /\ NoFault
        /\ Set(h, [t[h] EXCEPT !.answer = icache[i]]) /\ Goto(h, t[h].then) /\ UNCHANGED icache
     \/ /\ icache[i] # "absent" /\ ~Ready(i) /\ NoFault
        /\ Goto(h, "await") /\ UNCHANGED <<t, icache>>
  /\ UNCHANGED <<img, names, dentry, dirmutex, calls>>

\* The header all inodes have; then the rest, by the type; then where the fragment is.
ReadFrom(h, from, to) ==
  /\ pc[h] = from
  /\ \/ Goto(h, to) /\ NoFault /\ UNCHANGED t
     \/ FaultTo(h, "failed")
  /\ UNCHANGED <<img, names, inodes, dirmutex, calls>>
Type(h) == Kind[t[h].ino]
ReadBase(h) ==
  ReadFrom(h, "base", CASE Type(h) = "unknown" -> "failed"
                        [] Type(h) = "ipc" /\ ~V3 -> "unlock"
                        [] OTHER -> "rest")
ReadRest(h) == ReadFrom(h, "rest", IF Type(h) = "fragment" THEN "location" ELSE "unlock")
FragmentLocation(h) == ReadFrom(h, "location", "unlock")

\* Mutant: who waits for the inode is not woken.
Woken_None(h) == {h}
\* unlock_new_inode: who waits for the inode has it now.
Woken(h) == {q \in Thread : pc[q] = "await" /\ t[q].ino = t[h].ino} \cup {h}
Unlocked(h, state, answer) ==
  LET mine == Woken(h) IN
  /\ icache' = [icache EXCEPT ![t[h].ino] = state]
  /\ t' = [q \in Thread |-> IF q \in mine THEN [t[q] EXCEPT !.answer = answer,
                                                          !.hit = @ \/ answer # "read"] ELSE t[q]]
  /\ pc' = [q \in Thread |-> IF q \in mine THEN t[q].then ELSE pc[q]]
  /\ UNCHANGED <<img, names, dentry, dirmutex, calls, faults>>

Unlock(h) == pc[h] = "unlock" /\ Unlocked(h, "read", "read")

\* failed_read: version 3 makes it a bad inode, which is not found again; version 2 leaves
\* it as it is.
Failed(h) ==
  /\ pc[h] = "failed"
  /\ IF V3 THEN Unlocked(h, "absent", "bad") ELSE Unlocked(h, "half", "half")

ReadInode(h) == ReadBase(h) \/ ReadRest(h) \/ FragmentLocation(h) \/ Unlock(h) \/ Failed(h)
Listing(h) ==
  \/ Dots(h) \/ UsingOffset(h) \/ Header(h, "header", "entry", "listed")
  \/ EndOfHeader(h, "entry", "header") \/ Entry(h)
Looking(h) ==
  \/ UsingName(h) \/ Header(h, "lheader", "lentry", "looked")
  \/ EndOfHeader(h, "lentry", "lheader") \/ LookupEntry(h)
Step(h) == Listing(h) \/ Looking(h) \/ InodeLookup(h) \/ Iget(h) \/ ReadInode(h) \/ Return(h)
Enter(h) == Readdir(h) \/ Lookup(h) \/ ExportIget(h)

-------------------------------------------------------------------------------
(* Properties                                                              *)

\* The names that end by pos, each with its number among all there are: the dots first,
\* which end at 1 and 3, then the directory's in its order.
TwoDots    == IF V3 THEN <<Dot, Dotdot>> ELSE <<>>
Named(i)   == {k \in 1 .. i : Dir[img][k] # 0}
Rank(i)    == Len(TwoDots) + Cardinality(Named(i))
Ended(pos) == {i \in Named(Len(Dir[img])) : i * Item + Ahead <= pos}
Due(pos)   == {<<k, TwoDots[k]>> : k \in {k \in DOMAIN TwoDots : (2 * k) - 1 <= pos}}
                \cup {<<Rank(i), Dir[img][i]>> : i \in Ended(pos)}
Given      == {<<k, listed[k]>> : k \in DOMAIN listed}

\* However often a listing is cut short and taken up again, by the index or from the
\* start, every name up to f_pos was listed, once and in its order, and none behind it
\* (lines 1867-1934 and the same of version 2); but for bytes of the index that could not
\* be read.
ListedOnce == img # None /\ ~strayed => Given = Due(fpos)

\* A readdir that stops for no reason of its reader and no fault has listed all there is.
EmptyMeansEnd ==
  \A h \in Thread :
    pc[h] = "listed" /\ ~t[h].full /\ ~t[h].hit => Given = Due(Size)

\* Whoever lists a directory in pieces gets every name once, and the end only at its end.
ListingIsWhole == ListedOnce /\ EmptyMeansEnd

\* A lookup finds the name's own inode, and says that a name does not exist only if it
\* does not, or if a read failed on the way (lines 1974-2044); the wait for another
\* thread's new inode changes nothing of that.  In version 2 the inode may be one that an
\* earlier call could not read to its end (squashfs2_0.c, lines 383-386).
LookupAnswers ==
  \A h \in Thread : pc[h] = "looked" /\ ~t[h].hit =>
    IF t[h].name \in Range(Dir[img])
    THEN /\ t[h].answer \in {"read"} \cup (IF V3 THEN {} ELSE {"half"})
         /\ icache[Ino[t[h].name]] = t[h].answer
    ELSE t[h].answer = "none"

\* Nobody gets an inode somebody still reads, and one thread reads it.  In version 3 no
\* inode stays that could not be read (lines 692-695 and 958-959).
InodesAreRead ==
  /\ \A i \in Inode :
       /\ icache[i] = "new" <=> \E h \in Thread : t[h].ino = i
                                  /\ pc[h] \in {"base", "rest", "location", "unlock", "failed"}
       /\ icache[i] = "half" => Major[img] = 2
  /\ \A h \in Thread : t[h].answer # "new"
===============================================================================
