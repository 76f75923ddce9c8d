---------------------------- MODULE SquashfsCache -----------------------------
(***************************************************************************)
(* The block cache of the squashfs driver: squashfs_cache_get and          *)
(* squashfs_cache_put, and squashfs_get_cached_block, which walks over as  *)
(* many metadata blocks as a structure spans.  The fragment cache is the   *)
(* same code with readers that take one block.                             *)
(*                                                                         *)
(* A step is what one reader does between two points where others may run: *)
(* a section under cache->lock, a test outside it, a sleep, a read of the  *)
(* device.  wait_event is its three parts: the test with the reader on the *)
(* queue, the sleep, and the wake-up that makes it test again.             *)
(***************************************************************************)
EXTENDS Integers, Sequences, FiniteSets

CONSTANTS
  Reader,    \* threads of the kernel
  Entries,   \* cache->entries
  Last,      \* metadata blocks 1 .. Last lie one after the other
  Starts,    \* bound: the blocks a structure starts in
  Span,      \* bound: blocks it runs on into after its first (as far as there are any)
  Flaky,     \* bound: the blocks a read of which may fail
  Error, None

ASSUME SCAssumption ==
  /\ Entries \in Nat \ {0} /\ Last \in Nat \ {0} /\ Span \in Nat
  /\ IsFiniteSet(Reader) /\ Starts \subseteq 1 .. Last /\ Flaky \subseteq 1 .. Last
  /\ Error \notin Nat /\ None \notin [block : Nat, data : Nat \cup {Error}]

VARIABLES
  \* struct squashfs_cache
  nextblk, unused, waiting,
  \* struct squashfs_cache_entry, one function per field
  block,     \* 0 is SQUASHFS_INVALID_BLK
  locked, pending, waiters, error,
  data,      \* the block that data, length and next_index are of; 0 while they are read
  \* the readers
  pc, slot,
  first, want, left, got,  \* squashfs_get_cached_block: where it began, block, length left, buffer
  \* history
  failed     \* blocks a read of which has failed

cache   == <<nextblk, unused, waiting>>
entry   == <<block, locked, pending, waiters, error, data>>
walk    == <<first, want, left, got>>
vars    == <<cache, entry, pc, slot, walk, failed>>

Slot  == 0 .. Entries - 1
Block == 1 .. Last
Pins  == {"fill", "fillwake", "await", "dozing", "have", "put"}   \* has locked its entry
Steps == Pins \cup {"idle", "get", "full", "asleep", "roused", "putwake"}

TypeOK ==
  /\ nextblk \in Slot /\ unused \in 0 .. Entries /\ waiting \in Nat
  /\ block \in [Slot -> 0 .. Last] /\ data \in [Slot -> 0 .. Last]
  /\ locked \in [Slot -> Nat] /\ waiters \in [Slot -> Nat]
  /\ pending \in [Slot -> BOOLEAN] /\ error \in [Slot -> BOOLEAN]
  /\ pc \in [Reader -> Steps] /\ slot \in [Reader -> Slot]
  /\ first \in [Reader -> Block] /\ want \in [Reader -> Block]
  /\ left \in [Reader -> Nat] /\ got \in [Reader -> Seq(Block)]
  /\ failed \in SUBSET Block

\* squashfs_cache_init: every entry is unused and holds no block.
Init ==
  /\ nextblk = 0 /\ unused = Entries /\ waiting = 0
  /\ block = [i \in Slot |-> 0] /\ data = [i \in Slot |-> 0]
  /\ locked = [i \in Slot |-> 0] /\ waiters = [i \in Slot |-> 0]
  /\ pending = [i \in Slot |-> FALSE] /\ error = [i \in Slot |-> FALSE]
  /\ pc = [r \in Reader |-> "idle"] /\ slot = [r \in Reader |-> 0]
  /\ first = [r \in Reader |-> 1] /\ want = [r \in Reader |-> 1]
  /\ left = [r \in Reader |-> 0] /\ got = [r \in Reader |-> <<>>]
  /\ failed = {}

-------------------------------------------------------------------------------
(* squashfs_cache_get                                                      *)

\* A reader comes for something that starts in block b.
Call(r) ==
  /\ pc[r] = "idle"
  /\ \E b \in Starts :
       /\ first' = [first EXCEPT ![r] = b] /\ want' = [want EXCEPT ![r] = b]
       /\ left' = [left EXCEPT ![r] = IF b + Span <= Last THEN Span ELSE Last - b]
  /\ got' = [got EXCEPT ![r] = <<>>]
  /\ pc' = [pc EXCEPT ![r] = "get"]
  /\ UNCHANGED <<cache, entry, slot, failed>>

\* The lock is taken, at first or after a sleep: the sleeper no longer waits.
Enter(r) == pc[r] \in {"get", "roused"}
StillWaiting(r) == IF pc[r] = "roused" THEN waiting - 1 ELSE waiting

Cached(b) == {i \in Slot : block[i] = b}

\* Mutant: after a sleep the reader does not look for its block again.
Missing_Slept(r) == Cached(want[r]) = {} \/ pc[r] = "roused"
Missing(r) == Cached(want[r]) = {}

UnusedLess(i) == IF locked[i] = 0 THEN unused - 1 ELSE unused

\* Mutant: a reader that finds its block being read is not counted.
WaitersMore_Never(i) == waiters[i]
WaitersMore(i) == IF pending[i] THEN waiters[i] + 1 ELSE waiters[i]

\* The block is in the cache, or somebody is reading it.
Hit(r) ==
  /\ Enter(r)
  /\ \E i \in Cached(want[r]) :
       /\ \A j \in Cached(want[r]) : i <= j
       /\ slot' = [slot EXCEPT ![r] = i]
       /\ unused' = UnusedLess(i)
       /\ locked' = [locked EXCEPT ![i] = @ + 1]
       /\ waiters' = [waiters EXCEPT ![i] = WaitersMore(i)]
       /\ pc' = [pc EXCEPT ![r] = IF pending[i] THEN "await" ELSE "have"]
  /\ waiting' = StillWaiting(r)
  /\ UNCHANGED <<nextblk, block, pending, error, data, walk, failed>>

\* Mutant: a reader that finds the cache full is not counted.
Waits_Uncounted(r) == StillWaiting(r)
Waits(r) == StillWaiting(r) + 1

\* Every entry is in use.
Full(r) ==
  /\ Enter(r) /\ Missing(r) /\ unused = 0
  /\ waiting' = Waits(r)
  /\ pc' = [pc EXCEPT ![r] = "full"]
  /\ UNCHANGED <<nextblk, unused, entry, slot, walk, failed>>

\* wait_event(cache->wait_queue, cache->unused_blks): the test, without the lock.
Sleep(r) ==
  /\ pc[r] = "full"
  /\ pc' = [pc EXCEPT ![r] = IF unused = 0 THEN "asleep" ELSE "roused"]
  /\ UNCHANGED <<cache, entry, slot, walk, failed>>

\* The first entry from next_blk on that nobody has; next_blk itself when there is none.
Away(i) == (i - nextblk + Entries) % Entries
\* Mutant: next_blk is taken without a look at locked.
Free_Next(i) == i = nextblk

Free(i) ==
  /\ \A j \in Slot : Away(j) < Away(i) => locked[j] # 0
  /\ (\E j \in Slot : locked[j] = 0) => locked[i] = 0

Claim(r) ==
  /\ Enter(r) /\ Missing(r) /\ unused # 0
  /\ \E i \in Slot :
       /\ Free(i)
       /\ nextblk' = (i + 1) % Entries
       /\ slot' = [slot EXCEPT ![r] = i]
       /\ block' = [block EXCEPT ![i] = want[r]]
       /\ locked' = [locked EXCEPT ![i] = 1]
       /\ pending' = [pending EXCEPT ![i] = TRUE]
       /\ waiters' = [waiters EXCEPT ![i] = 0]
       /\ error' = [error EXCEPT ![i] = FALSE]
       /\ data' = [data EXCEPT ![i] = 0]
  /\ unused' = unused - 1
  /\ waiting' = StillWaiting(r)
  /\ pc' = [pc EXCEPT ![r] = "fill"]
  /\ UNCHANGED <<walk, failed>>

\* squashfs_read_data has returned: the block, or nothing (length 0).
Filled(r) ==
  /\ pc[r] = "fill"
  /\ LET i == slot[r] IN
     /\ pending' = [pending EXCEPT ![i] = FALSE]
     /\ \/ /\ data' = [data EXCEPT ![i] = block[i]]
           /\ UNCHANGED <<error, failed>>
        \/ /\ block[i] \in Flaky
           /\ error' = [error EXCEPT ![i] = TRUE]
           /\ failed' = failed \cup {block[i]}
           /\ UNCHANGED data
  /\ pc' = [pc EXCEPT ![r] = "fillwake"]
  /\ UNCHANGED <<cache, block, locked, waiters, slot, walk>>

\* if (entry->waiting) wake_up_all(&entry->wait_queue), after the unlock
FillWake(r) ==
  /\ pc[r] = "fillwake"
  /\ pc' = [q \in Reader |->
              IF q = r THEN "have"
              ELSE IF pc[q] = "dozing" /\ slot[q] = slot[r] /\ waiters[slot[r]] # 0
                   THEN "await" ELSE pc[q]]
  /\ waiters' = [waiters EXCEPT ![slot[r]] = 0]   \* not read again before a claim resets it
  /\ UNCHANGED <<cache, block, locked, pending, error, data, slot, walk, failed>>

\* wait_event(entry->wait_queue, !entry->pending)
Await(r) ==
  /\ pc[r] = "await"
  /\ pc' = [pc EXCEPT ![r] = IF pending[slot[r]] THEN "dozing" ELSE "have"]
  /\ UNCHANGED <<cache, entry, slot, walk, failed>>

-------------------------------------------------------------------------------
(* squashfs_get_cached_block and squashfs_cache_put                        *)

NextIndex(i) == data[i] + 1

\* An error ends the walk with length 0; else this block's part is copied and
\* next_index is where it goes on.
Copy(r) ==
  /\ pc[r] = "have"
  /\ LET i == slot[r] IN
     IF error[i]
     THEN /\ left' = [left EXCEPT ![r] = 0]
          /\ got' = [got EXCEPT ![r] = <<>>]
          /\ UNCHANGED want
     ELSE /\ got' = [got EXCEPT ![r] = Append(@, data[i])]
          /\ want' = [want EXCEPT ![r] = IF left[r] = 0 THEN @ ELSE NextIndex(i)]
          /\ UNCHANGED left
  /\ pc' = [pc EXCEPT ![r] = "put"]
  /\ UNCHANGED <<cache, entry, slot, first, failed>>

\* Mutant: next_index is read from the entry after it has been given back.
Onward_ReadsLate(r) ==
  IF left[r] = 0
  THEN /\ first' = [first EXCEPT ![r] = 1] /\ want' = [want EXCEPT ![r] = 1]
       /\ got' = [got EXCEPT ![r] = <<>>]
       /\ UNCHANGED left
  ELSE /\ left' = [left EXCEPT ![r] = @ - 1]
       /\ want' = [want EXCEPT ![r] = NextIndex(slot[r])]
       /\ UNCHANGED <<first, got>>

\* The walk goes on in the next block, or is over and its variables are gone.
After(r) == IF left[r] = 0 THEN "idle" ELSE "get"
Onward(r) ==
  IF left[r] = 0
  THEN /\ first' = [first EXCEPT ![r] = 1] /\ want' = [want EXCEPT ![r] = 1]
       /\ got' = [got EXCEPT ![r] = <<>>]
       /\ UNCHANGED left
  ELSE /\ left' = [left EXCEPT ![r] = @ - 1]
       /\ UNCHANGED <<first, want, got>>

Put(r) ==
  /\ pc[r] = "put"
  /\ LET i == slot[r] IN
     /\ locked' = [locked EXCEPT ![i] = @ - 1]
     /\ IF locked[i] = 1
        THEN /\ unused' = unused + 1
             /\ pc' = [pc EXCEPT ![r] = "putwake"]
             /\ UNCHANGED <<walk, slot>>
        ELSE /\ pc' = [pc EXCEPT ![r] = After(r)]
             /\ Onward(r)
             /\ slot' = [slot EXCEPT ![r] = 0]
             /\ UNCHANGED unused
  /\ UNCHANGED <<nextblk, waiting, block, pending, waiters, error, data, failed>>

\* if (cache->waiting) wake_up(&cache->wait_queue), after the unlock: none of the
\* sleepers is exclusive, so all of them wake.
PutWake(r) ==
  /\ pc[r] = "putwake"
  /\ pc' = [q \in Reader |->
              IF q = r THEN After(r)
              ELSE IF pc[q] = "asleep" /\ waiting # 0 THEN "full" ELSE pc[q]]
  /\ Onward(r)
  /\ slot' = [slot EXCEPT ![r] = 0]
  /\ UNCHANGED <<cache, entry, failed>>

Get(r) == Hit(r) \/ Full(r) \/ Sleep(r) \/ Claim(r) \/ Filled(r) \/ FillWake(r) \/ Await(r)
Step(r) == Get(r) \/ Copy(r) \/ Put(r) \/ PutWake(r)

Next == \E r \in Reader : Call(r) \/ Step(r)

Spec == Init /\ [][Next]_vars

\* The kernel runs every thread that can run; nobody has to come and read.
FairSpec == Spec /\ \A r \in Reader : WF_vars(Step(r))

-------------------------------------------------------------------------------
(* Properties                                                              *)

\* A block is in the cache once: two readers of a block share one entry (lines
\* 348-357), also when both slept until an entry became free.
OneEntryPerBlock ==
  \A i, j \in Slot : block[i] = block[j] /\ block[i] # 0 => i = j

Holders(i) == {r \in Reader : pc[r] \in Pins /\ slot[r] = i}

\* locked is the number of readers that have the entry and unused_blks the number
\* of entries nobody has (lines 370-372, 394-396 and 422-424), whatever the order of
\* hits, misses, sleeps and puts.
CountsAgree ==
  /\ \A i \in Slot : locked[i] = Cardinality(Holders(i))
  /\ unused = Cardinality({i \in Slot : locked[i] = 0})

\* A structure that spans blocks is copied from consecutive blocks, each of them
\* whole: next_index and the buffer belong to the block the reader asked for.
CopiesInOrder ==
  \A r \in Reader : \A k \in 1 .. Len(got[r]) : got[r][k] = first[r] + k - 1

\* Each reader has the block it asked for, unchanged from get to put, or an error
\* that a read of this block has met (the abstract specification).
Held == [r \in Reader |->
  IF pc[r] \in {"have", "put"}
  THEN [block |-> block[slot[r]],
        data  |-> IF error[slot[r]] THEN Error ELSE data[slot[r]]]
  ELSE None]
Blocks == INSTANCE SquashfsBlocks WITH held <- Held
BlocksSpec == Blocks!Spec

\* A sleeper has a reason to sleep, or somebody who is about to wake it: the tests of
\* waiting outside the lock (lines 388-389 and 426-427) lose no wake-up.
SleepersAreWoken ==
  \A r \in Reader :
    /\ pc[r] = "asleep" => unused = 0 \/ (waiting # 0 /\ \E q \in Reader : pc[q] = "putwake")
    /\ pc[r] = "dozing" =>
         \/ pending[slot[r]]
         \/ \E q \in Reader : pc[q] = "fillwake" /\ slot[q] = slot[r] /\ waiters[slot[r]] # 0

\* Readers wait for one another only while there is something to wait for: when no
\* more calls come, all calls return (a reader that waits for an entry holds none).
CallsReturn ==
  <>[][\A r \in Reader : ~Call(r)]_vars => <>[](\A r \in Reader : pc[r] = "idle")
===============================================================================
