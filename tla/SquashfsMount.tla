----------------------------- MODULE SquashfsMount -----------------------------
(***************************************************************************)
(* The life of a volume: the module is loaded, images are mounted step by  *)
(* step, any of which may fail, their names are used (SquashfsDir), and    *)
(* they are unmounted.                                                     *)
(*                                                                         *)
(* What the code allocates is counted in heap; ptr tells what the volume's *)
(* squashfs_sb_info points to.  The kernel (external) calls put_super only *)
(* when nothing of the volume is used, and only if fill_super succeeded.   *)
(***************************************************************************)
EXTENDS SquashfsDir

CONSTANTS
  Broken,     \* images without a superblock of squashfs, or too long for the device
  Fragments,  \* images that have fragments
  MaxMounts   \* bound: mounts

\* Only an image that has fragments has files that end in one.
Reachable(i) == IF i \in Export THEN Inode ELSE {Ino[n] : n \in Range(Dir[i]) \ {0}}
ASSUME SMAssumption ==
  /\ Fragments \subseteq Image /\ None \notin Broken /\ MaxMounts \in Nat
  /\ \A i \in Image \ Fragments : \A n \in Reachable(i) : Kind[n] # "fragment"

VARIABLES
  registered, \* the file system is registered (and squashfs_inode_cache is there)
  mount,      \* where fill_super is
  disk,       \* the image it mounts
  ptr,        \* what squashfs_sb_info has pointers to
  heap,       \* [resource -> allocations that were not freed]
  lapsed,     \* history: [resource -> times the code went where it lets go of one unfreed]
  mounts
mountvars == <<registered, mount, disk, ptr, heap, lapsed, mounts>>
vars      == <<dirvars, mountvars>>

Resource == {"inode_cache", "info", "workspace", "block_cache", "read_page", "uid", "fragment_cache",
             "fragment_index", "fragment_index_2", "inode_lookup_table", "meta_index", "root"}
\* The three ways on which something stays: a volume's state without a zlib workspace, a root
\* that could not be read, and the inode lookup table of an image that is unmounted.
Left     == {"info", "root", "inode_lookup_table"}
Places   == {"none", "info", "workspace", "super", "supported", "block_cache", "read_page", "uid",
             "ids", "fragment_cache", "index", "read_index", "lookup", "read_lookup", "root",
             "read_root", "dentry", "failed", "mounted"}

Init ==
  /\ DirInit
  /\ registered = FALSE /\ mount = "none" /\ disk = None /\ ptr = {}
  /\ heap = [x \in Resource |-> 0] /\ lapsed = [x \in Left |-> 0] /\ mounts = 0

At(s)    == mount = s
To(s)    == mount' = s
Kept     == UNCHANGED <<ptr, heap, lapsed>>
Alloc(x) == ptr' = ptr \cup {x} /\ heap' = [heap EXCEPT ![x] = @ + 1] /\ UNCHANGED lapsed
Free(S)  == heap' = [x \in Resource |-> IF x \in S THEN heap[x] - 1 ELSE heap[x]]
Lapse(x) == lapsed' = [lapsed EXCEPT ![x] = @ + 1]
Still    == UNCHANGED <<img, names, inodes, dirmutex, pc, t, calls, registered, disk, mounts>>

\* An allocation, or -- when there is no memory -- the way out.
Allocate(s, x, next, out) ==
  /\ At(s) /\ Still
  /\ \/ Alloc(x) /\ To(next) /\ NoFault
     \/ Fault /\ To(out) /\ Kept
\* squashfs_read_data of a table, or failed_mount.
Read(s, next) ==
  /\ At(s) /\ Still /\ Kept
  /\ \/ To(next) /\ NoFault
     \/ Fault /\ To("failed")

-------------------------------------------------------------------------------
(* The module                                                              *)

\* init_squashfs_fs: the cache of inodes goes again if the file system is not registered.
InitModule ==
  /\ ~registered /\ At("none")
  /\ \/ registered' = TRUE /\ heap' = [heap EXCEPT !["inode_cache"] = @ + 1] /\ NoFault
     \/ Fault /\ UNCHANGED <<registered, heap>>
  /\ UNCHANGED <<img, names, inodes, dirmutex, pc, t, calls, mount, disk, ptr, lapsed, mounts>>
ExitModule ==
  /\ registered /\ At("none")
  /\ registered' = FALSE /\ heap' = [heap EXCEPT !["inode_cache"] = @ - 1]
  /\ UNCHANGED <<dirvars, mount, disk, ptr, lapsed, mounts>>

-------------------------------------------------------------------------------
(* squashfs_fill_super                                                     *)

GetSb ==
  /\ registered /\ At("none") /\ mounts < MaxMounts /\ mounts' = mounts + 1
  /\ \E d \in Image \cup Broken : disk' = d
  /\ To("info")
  /\ UNCHANGED <<dirvars, registered, ptr, heap, lapsed>>

\* No memory for the volume's own state: nothing is there to free.
SbInfo == Allocate("info", "info", "workspace", "none")

\* Without a zlib workspace the volume's state is left behind: "failure", not
\* "failed_mount", and put_super is not called.
Workspace ==
  /\ At("workspace") /\ Still
  /\ \/ Alloc("workspace") /\ To("super") /\ NoFault
     \/ Fault /\ To("none") /\ ptr' = {} /\ Lapse("info") /\ UNCHANGED heap

SuperBlock == Read("super", IF disk \in Broken THEN "failed" ELSE "supported")

\* supported_squashfs_filesystem and squashfs_2_0_supported: the handlers of the version.
Supported ==
  /\ At("supported") /\ Still /\ Kept /\ NoFault
  /\ To(IF Major[disk] = 2 \/ (Major[disk] = 3 /\ Minor[disk] <= 1) THEN "block_cache" ELSE "failed")

BlockCache == Allocate("block_cache", "block_cache", "read_page", "failed")
ReadPage   == Allocate("read_page", "read_page", "uid", "failed")
Uid        == Allocate("uid", "uid", "ids", "failed")
Ids        == Read("ids", "fragment_cache")
FragmentCache == Allocate("fragment_cache", "fragment_cache", "index", "failed")

AfterIndex == IF disk \in Export THEN "lookup" ELSE "root"
IndexOf(d) == IF Major[d] = 3 THEN "fragment_index" ELSE "fragment_index_2"

\* read_fragment_index_table of either version; there may be nothing to read.
NoFragmentIndex ==
  /\ At("index") /\ Major[disk] = 3 /\ disk \notin Fragments
  /\ To(AfterIndex) /\ Kept /\ NoFault /\ Still
FragmentIndex ==
  /\ At("index") /\ (Major[disk] = 3 => disk \in Fragments)
  /\ Allocate("index", IndexOf(disk), IF disk \in Fragments THEN "read_index" ELSE AfterIndex, "failed")
ReadIndex == Read("read_index", AfterIndex)

Lookups     == Allocate("lookup", "inode_lookup_table", "read_lookup", "failed")
ReadLookups == Read("read_lookup", "root")

\* new_inode is not asked whether there was memory: the failure of this one is not modelled.
NewRoot ==
  /\ At("root") /\ Still /\ NoFault
  /\ Alloc("root") /\ To("read_root")

\* read_inode of the root: who reads it has the tables, and a root that cannot be read is
\* left behind.
ReadRoot ==
  /\ At("read_root") /\ Still
  /\ \/ To("dentry") /\ NoFault /\ Kept
     \/ Fault /\ To("failed") /\ ptr' = ptr \ {"root"} /\ Lapse("root") /\ UNCHANGED heap

\* The root's dentry; without one the root is put.
AllocRoot ==
  /\ At("dentry")
  /\ \/ /\ NoFault /\ Kept /\ To("mounted") /\ img' = disk
     \/ /\ Fault /\ To("failed") /\ UNCHANGED img
        /\ ptr' = ptr \ {"root"} /\ Free({"root"}) /\ UNCHANGED lapsed
  /\ UNCHANGED <<names, inodes, dirmutex, pc, t, calls, registered, disk, mounts>>

\* Mutant: the lookup table is forgotten here as it is in put_super.
Cleaned_NoLookups(p) == p \ {"inode_lookup_table"}
Cleaned(p) == p

\* failed_mount: kfree and vfree of what is there.
FailedMount ==
  /\ At("failed") /\ Still /\ NoFault
  /\ Free(Cleaned(ptr)) /\ UNCHANGED lapsed
  /\ ptr' = {} /\ To("none")

-------------------------------------------------------------------------------
(* The mounted volume                                                      *)

Used == \E h \in Thread : pc[h] # "idle"

\* The directory is opened again, or read from its start.
Rewind ==
  /\ img # None /\ dirmutex = None
  /\ fpos' = 0 /\ listed' = <<>> /\ strayed' = FALSE
  /\ UNCHANGED <<img, inodes, dirmutex, pc, t, calls, faults, mountvars>>

\* Memory is short: dentries nobody uses go, and their inodes.
Prune ==
  /\ img # None /\ ~Used
  /\ dentry' = [n \in Name |-> "unknown"] /\ icache' = [i \in Inode |-> "absent"]
  /\ UNCHANGED <<img, names, dirmutex, pc, t, calls, faults, mountvars>>

\* empty_meta_index: the first large file that is read (SquashfsFile) makes the slots.
MetaIndex ==
  /\ At("mounted") /\ "meta_index" \notin ptr /\ Alloc("meta_index")
  /\ UNCHANGED <<dirvars, registered, mount, disk, mounts>>

\* put_super frees what mounting and reading made, but for the inode lookup table.
Freed(p) == p \ {"inode_lookup_table"}
Unmount ==
  /\ At("mounted") /\ ~Used
  /\ img' = None /\ disk' = None /\ To("none")
  /\ fpos' = 0 /\ listed' = <<>> /\ strayed' = FALSE
  /\ dentry' = [n \in Name |-> "unknown"] /\ icache' = [i \in Inode |-> "absent"]
  /\ ptr' = {} /\ Free(Freed(ptr))
  /\ IF "inode_lookup_table" \in ptr THEN Lapse("inode_lookup_table") ELSE UNCHANGED lapsed
  /\ UNCHANGED <<dirmutex, pc, t, calls, faults, registered, mounts>>

FillSuper ==
  \/ SbInfo \/ Workspace \/ SuperBlock \/ Supported \/ BlockCache \/ ReadPage \/ Uid \/ Ids
  \/ FragmentCache \/ NoFragmentIndex \/ FragmentIndex \/ ReadIndex \/ Lookups \/ ReadLookups
  \/ NewRoot \/ ReadRoot \/ AllocRoot \/ FailedMount
Call == \E h \in Thread : Enter(h)
Work == \E h \in Thread : Step(h)
Next ==
  \/ InitModule \/ ExitModule \/ GetSb \/ FillSuper \/ MetaIndex \/ Unmount
  \/ Rewind \/ Prune
  \/ (Call \/ Work) /\ UNCHANGED mountvars
Spec == Init /\ [][Next]_vars
FairSpec ==
  Spec /\ WF_vars(FillSuper) /\ \A h \in Thread : WF_vars(Step(h) /\ UNCHANGED mountvars)

-------------------------------------------------------------------------------
(* Properties                                                              *)

\* Whatever works on the volume's names finds the tables its version reads, on every path
\* by which the image was mounted and until it is unmounted.
Needs(h) ==
  (CASE pc[h] = "location" -> {"fragment_cache", IndexOf(img)}
     [] pc[h] = "table" -> {"inode_lookup_table"}
     [] pc[h] = "idle" -> {}
     [] OTHER -> {"uid"})
  \cup (IF pc[h] = "idle" THEN {} ELSE {"info", "workspace", "block_cache"})
TablesAreThere ==
  /\ \A h \in Thread : \A x \in Needs(h) : x \in ptr /\ heap[x] > 0
  /\ At("read_root") => {"info", "workspace", "block_cache", "uid"} \subseteq ptr

\* Types, and no table is used that is not there.
TypeOK ==
  /\ img \in Image \cup {None} /\ mount \in Places /\ registered \in BOOLEAN
  /\ ptr \subseteq Resource /\ heap \in [Resource -> Nat] /\ lapsed \in [Left -> Nat]
  /\ dentry \in [Name -> Answer \cup {"unknown", "negative"}]
  /\ icache \in [Inode -> {"absent", "new", "read", "half"}]
  /\ pc \in [Thread -> Ops \cup {"idle", "failed"}]
  /\ fpos \in Nat /\ dirmutex \in Thread \cup {None}
  /\ TablesAreThere

\* Between two mounts nothing is held but what the module has and what lapsed: whatever way
\* out fill_super took, and after whatever was done to a mounted image, each allocation was
\* freed, once (lines 1245, 1252-1263, 2060-2075), and the three that are not are those of
\* Left, each as often as its own way was taken and on no other way.
AllGoesBack ==
  At("none") => /\ ptr = {} /\ img = None
                /\ heap["inode_cache"] = (IF registered THEN 1 ELSE 0)
                /\ \A x \in Resource \ {"inode_cache"} :
                     heap[x] = IF x \in Left THEN lapsed[x] ELSE 0

\* Mounts end, and calls do when no more come.
CallsReturn ==
  <>[][~Call]_vars => <>[](\A h \in Thread : pc[h] = "idle")
===============================================================================
