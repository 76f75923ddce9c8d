-------------------------- MODULE SquashfsCacheProofs --------------------------
(***************************************************************************)
(* Proofs about the block cache for any number of entries, blocks and      *)
(* readers: it keeps its types, holds a block once, counts right, loses no *)
(* wake-up, copies in order, and implements SquashfsBlocks.                *)
(*                                                                         *)
(* The argument: a reader that has locked an entry is one of its holders,  *)
(* and locked counts them, so that Claim, which takes an entry that nobody *)
(* has locked, touches nobody's entry.  The entry of a holder therefore    *)
(* stays the block the holder wants, is pending exactly while it is being  *)
(* filled, and afterwards is the block or an error.                        *)
(***************************************************************************)
EXTENDS SquashfsCache, FiniteSetTheorems, TLAPS

Sleepers == {r \in Reader : pc[r] \in {"full", "asleep", "roused"}}
Unused   == {i \in Slot : locked[i] = 0}

\* waiting is the number of readers between the test of unused_blks and the lock.
WaitingCounted == waiting = Cardinality(Sleepers)

OneFiller ==
  \A r, q \in Reader : pc[r] = "fill" /\ pc[q] = "fill" /\ slot[r] = slot[q] => r = q

\* The entry of a holder is the block the holder wants.
Pinned ==
  \A r \in Reader :
    /\ pc[r] \in Pins => block[slot[r]] # 0
    /\ pc[r] \in Pins \ {"put"} => block[slot[r]] = want[r]
    /\ pc[r] = "fill" => pending[slot[r]]
    /\ pc[r] \in {"fillwake", "have", "put"} => ~pending[slot[r]]

\* An entry that is not being read is its block, or an error this block has met.
Settled ==
  \A i \in Slot :
    /\ pending[i] => ~error[i]
    /\ block[i] # 0 /\ ~pending[i] /\ error[i] => block[i] \in failed
    /\ block[i] # 0 /\ ~pending[i] /\ ~error[i] => data[i] = block[i]

\* Whoever waits for an entry that is being read is counted.
DozersCounted ==
  \A r \in Reader : pc[r] \in {"await", "dozing"} /\ pending[slot[r]] => waiters[slot[r]] # 0

\* Where the walk over the blocks is.
Walking ==
  \A r \in Reader :
    /\ pc[r] \notin {"idle", "put", "putwake"} =>
         want[r] = first[r] + Len(got[r]) /\ want[r] + left[r] <= Last
    /\ pc[r] \in {"put", "putwake"} /\ left[r] # 0 =>
         want[r] = first[r] + Len(got[r]) /\ want[r] + left[r] <= Last + 1

Counts == CountsAgree /\ WaitingCounted
Entry  == OneEntryPerBlock /\ OneFiller /\ Pinned /\ Settled
Waking == DozersCounted /\ SleepersAreWoken
Walks  == Walking /\ CopiesInOrder

\* The inductive invariant.
IInv == TypeOK /\ Counts /\ Entry /\ Waking /\ Walks

-------------------------------------------------------------------------------
(* Counting                                                                *)

\* Adding a new element to a finite set, or taking one away, counts one.
LEMMA OneMore ==
  ASSUME NEW S, NEW x, IsFiniteSet(S), x \notin S
  PROVE  Cardinality(S \cup {x}) = Cardinality(S) + 1
BY FS_AddElement

LEMMA OneLess ==
  ASSUME NEW S, NEW x, IsFiniteSet(S), x \in S
  PROVE  Cardinality(S \ {x}) = Cardinality(S) - 1 /\ Cardinality(S) >= 1
<1>1. Cardinality(S \ {x}) = Cardinality(S) - 1  BY FS_RemoveElement
<1>2. Cardinality(S) \in Nat  BY FS_CardinalityType
<1>3. Cardinality(S) # 0  BY FS_EmptySet
<1> QED  BY <1>1, <1>2, <1>3

\* The entries, the unused ones, an entry's holders and the sleepers are finite sets.
LEMMA Finite ==
  /\ IsFiniteSet(Slot) /\ Cardinality(Slot) = Entries
  /\ IsFiniteSet(Unused) /\ Cardinality(Unused) \in 0 .. Entries
  /\ \A i \in Slot : IsFiniteSet(Holders(i)) /\ Cardinality(Holders(i)) \in Nat
  /\ IsFiniteSet(Sleepers) /\ Cardinality(Sleepers) \in Nat
<1>1. IsFiniteSet(Slot) /\ Cardinality(Slot) = Entries
  <2>1. 0 \in Int /\ Entries - 1 \in Int  BY SCAssumption
  <2>2. IsFiniteSet(0 .. Entries - 1)
        /\ Cardinality(0 .. Entries - 1) = IF 0 > Entries - 1 THEN 0 ELSE (Entries - 1) - 0 + 1
    BY <2>1, FS_Interval
  <2> QED  BY <2>1, <2>2, SCAssumption DEF Slot
<1>2. IsFiniteSet(Unused) /\ Cardinality(Unused) \in 0 .. Entries
  <2>1. Unused \subseteq Slot  BY DEF Unused
  <2>2. IsFiniteSet(Unused) /\ Cardinality(Unused) <= Cardinality(Slot)  BY <1>1, <2>1, FS_Subset
  <2>3. Cardinality(Unused) \in Nat  BY <2>2, FS_CardinalityType
  <2> QED  BY <1>1, <2>2, <2>3, SCAssumption
<1>3. ASSUME NEW i \in Slot
      PROVE  IsFiniteSet(Holders(i)) /\ Cardinality(Holders(i)) \in Nat
  <2>1. Holders(i) \subseteq Reader  BY DEF Holders
  <2> QED  BY <2>1, FS_Subset, FS_CardinalityType, SCAssumption
<1>4. IsFiniteSet(Sleepers) /\ Cardinality(Sleepers) \in Nat
  <2>1. Sleepers \subseteq Reader  BY DEF Sleepers
  <2> QED  BY <2>1, FS_Subset, FS_CardinalityType, SCAssumption
<1> QED  BY <1>1, <1>2, <1>3, <1>4

\* What is free to be claimed when unused_blks is not 0 has no holder.
LEMMA FreeIsUnused ==
  ASSUME TypeOK, CountsAgree, unused # 0, NEW i \in Slot, Free(i)
  PROVE  locked[i] = 0 /\ Holders(i) = {}
<1>1. Cardinality(Unused) # 0  BY DEF CountsAgree, Unused
<1>2. Unused # {}  BY <1>1, FS_EmptySet
<1>3. locked[i] = 0  BY <1>2 DEF Free, Unused
<1>4. Cardinality(Holders(i)) = 0  BY <1>3 DEF CountsAgree
<1> QED  BY <1>3, <1>4, Finite, FS_EmptySet

\* A holder's entry is locked, so unused_blks does not count it.
LEMMA HeldIsLocked ==
  ASSUME TypeOK, CountsAgree, NEW r \in Reader, pc[r] \in Pins
  PROVE  slot[r] \in Slot /\ r \in Holders(slot[r]) /\ locked[slot[r]] >= 1
<1>1. slot[r] \in Slot  BY DEF TypeOK
<1>2. r \in Holders(slot[r])  BY DEF Holders
<1>3. Cardinality(Holders(slot[r])) >= 1  BY <1>1, <1>2, Finite, OneLess
<1> QED  BY <1>1, <1>2, <1>3 DEF CountsAgree

\* A reader that takes an entry becomes a holder of this one, and locked counts it.
LEMMA Pinning ==
  ASSUME TypeOK, CountsAgree, NEW r \in Reader, pc[r] \notin Pins, NEW i \in Slot,
         NEW s \in Pins, pc' = [pc EXCEPT ![r] = s], slot' = [slot EXCEPT ![r] = i],
         locked' = [locked EXCEPT ![i] = @ + 1],
         unused' = IF locked[i] = 0 THEN unused - 1 ELSE unused
  PROVE  CountsAgree'
<1>1. \A j \in Slot : Holders(j)' = IF j = i THEN Holders(j) \cup {r} ELSE Holders(j)
  BY DEF Holders, TypeOK
<1>2. r \notin Holders(i)  BY DEF Holders
<1>3. Cardinality(Holders(i)') = Cardinality(Holders(i)) + 1  BY <1>1, <1>2, OneMore, Finite
<1>4. \A j \in Slot : locked'[j] = Cardinality(Holders(j)')
  BY <1>1, <1>3 DEF CountsAgree, TypeOK
<1>5. unused' = Cardinality(Unused')
  <2>1. CASE locked[i] = 0
    <3>1. Unused' = Unused \ {i}  BY <2>1 DEF Unused, TypeOK
    <3>2. i \in Unused  BY <2>1 DEF Unused
    <3> QED  BY <2>1, <3>1, <3>2, OneLess, Finite DEF CountsAgree, Unused
  <2>2. CASE locked[i] # 0
    <3>1. Unused' = Unused  BY <2>2 DEF Unused, TypeOK
    <3> QED  BY <2>2, <3>1 DEF CountsAgree, Unused
  <2> QED  BY <2>1, <2>2
<1> QED  BY <1>4, <1>5 DEF CountsAgree, Unused

\* Nothing is counted anew while holders stay holders.
LEMMA NoPinning ==
  ASSUME CountsAgree, UNCHANGED <<locked, unused>>, \A j \in Slot : Holders(j)' = Holders(j)
  PROVE  CountsAgree'
BY DEF CountsAgree

-------------------------------------------------------------------------------
(* The invariant holds at first                                            *)

LEMMA InitInv == Init => IInv
<1> SUFFICES ASSUME Init PROVE IInv  OBVIOUS
<1>1. TypeOK
  <2>1. pending \in [Slot -> BOOLEAN] /\ error \in [Slot -> BOOLEAN]  BY Zenon DEF Init
  <2>2. 0 \in Slot /\ 1 \in Block  BY SCAssumption DEF Slot, Block
  <2>3. <<>> \in Seq(Block)  OBVIOUS
  <2>4. got \in [Reader -> Seq(Block)]  BY <2>3 DEF Init
  <2> QED  BY <2>1, <2>2, <2>4, SCAssumption DEF Init, TypeOK, Steps, Pins
<1>2. Counts
  <2>1. \A i \in Slot : Holders(i) = {}  BY DEF Init, Holders, Pins
  <2>2. Unused = Slot /\ Sleepers = {}  BY DEF Init, Unused, Sleepers
  <2> QED  BY <2>1, <2>2, Finite, FS_EmptySet DEF Counts, CountsAgree, WaitingCounted, Init, Unused
<1>3. Entry  BY DEF Init, Entry, OneEntryPerBlock, OneFiller, Pinned, Settled, Pins
<1>4. Waking  BY DEF Init, Waking, DozersCounted, SleepersAreWoken
<1>5. Walks  BY DEF Init, Walks, Walking, CopiesInOrder
<1> QED  BY <1>1, <1>2, <1>3, <1>4, <1>5 DEF IInv

-------------------------------------------------------------------------------
(* Every step keeps the counts                                             *)

\* The actions that change nobody's entry: nobody becomes a holder or ceases to be one.
LEMMA SameHolders ==
  ASSUME TypeOK, NEW r \in Reader,
         Call(r) \/ Full(r) \/ Sleep(r) \/ Filled(r) \/ FillWake(r) \/ Await(r) \/ Copy(r)
  PROVE  UNCHANGED <<locked, unused>> /\ \A j \in Slot : Holders(j)' = Holders(j)
<1>1. CASE Call(r)  BY <1>1 DEF Call, Holders, TypeOK, Pins, cache, entry
<1>2. CASE Full(r)  BY <1>2 DEF Full, Enter, Holders, TypeOK, Pins, cache, entry
<1>3. CASE Sleep(r)  BY <1>3 DEF Sleep, Holders, TypeOK, Pins, cache, entry
<1>4. CASE Filled(r)  BY <1>4 DEF Filled, Holders, TypeOK, Pins, cache, entry
<1>5. CASE FillWake(r)  BY <1>5 DEF FillWake, Holders, TypeOK, Pins, cache, entry
<1>6. CASE Await(r)  BY <1>6 DEF Await, Holders, TypeOK, Pins, cache, entry
<1>7. CASE Copy(r)  BY <1>7 DEF Copy, Holders, TypeOK, Pins, cache, entry
<1> QED  BY <1>1, <1>2, <1>3, <1>4, <1>5, <1>6, <1>7

LEMMA CountsAgreeKept == IInv /\ [Next]_vars => CountsAgree'
<1> SUFFICES ASSUME IInv, [Next]_vars PROVE CountsAgree'  OBVIOUS
<1>a. TypeOK /\ CountsAgree  BY DEF IInv, Counts
<1>1. ASSUME NEW r \in Reader,
             Call(r) \/ Full(r) \/ Sleep(r) \/ Filled(r) \/ FillWake(r) \/ Await(r) \/ Copy(r)
      PROVE  CountsAgree'
  BY <1>a, <1>1, SameHolders, NoPinning
<1>2. ASSUME NEW r \in Reader, Hit(r) PROVE CountsAgree'
  <2>1. PICK i \in Slot : /\ slot' = [slot EXCEPT ![r] = i]
                          /\ unused' = UnusedLess(i)
                          /\ locked' = [locked EXCEPT ![i] = @ + 1]
                          /\ pc' = [pc EXCEPT ![r] = IF pending[i] THEN "await" ELSE "have"]
    BY <1>2 DEF Hit, Cached
  <2>2. pc[r] \notin Pins  BY <1>2 DEF Hit, Enter, Pins
  <2>3. "await" \in Pins /\ "have" \in Pins  BY DEF Pins
  <2> QED  BY <1>a, <2>1, <2>2, <2>3, Pinning DEF UnusedLess
<1>3. ASSUME NEW r \in Reader, Claim(r) PROVE CountsAgree'
  <2>1. PICK i \in Slot : /\ Free(i)
                          /\ slot' = [slot EXCEPT ![r] = i]
                          /\ locked' = [locked EXCEPT ![i] = 1]
    BY <1>3 DEF Claim
  <2>2. unused' = unused - 1 /\ unused # 0 /\ pc' = [pc EXCEPT ![r] = "fill"] /\ pc[r] \notin Pins
    BY <1>3 DEF Claim, Enter, Pins
  <2>3. locked[i] = 0  BY <1>a, <2>1, <2>2, FreeIsUnused
  <2>4. locked' = [locked EXCEPT ![i] = @ + 1]  BY <1>a, <2>1, <2>3 DEF TypeOK
  <2>5. "fill" \in Pins  BY DEF Pins
  <2> QED  BY <1>a, <2>1, <2>2, <2>3, <2>4, <2>5, Pinning
<1>4. ASSUME NEW r \in Reader, Put(r) PROVE CountsAgree'
  <2>0. PICK i \in Slot : i = slot[r]  BY <1>a DEF TypeOK
  <2>1. pc[r] \in Pins /\ locked' = [locked EXCEPT ![i] = @ - 1]  BY <1>4, <2>0 DEF Put, Pins
  <2>2. i \in Slot /\ r \in Holders(i) /\ locked[i] >= 1  BY <1>a, <2>0, <2>1, HeldIsLocked
  <2>3. \A j \in Slot : Holders(j)' = IF j = i THEN Holders(j) \ {r} ELSE Holders(j)
    BY <1>a, <1>4, <2>0, <2>2 DEF Put, Holders, After, TypeOK, Pins
  <2>4. Cardinality(Holders(i)') = Cardinality(Holders(i)) - 1  BY <2>2, <2>3, OneLess, Finite
  <2>5. \A j \in Slot : locked'[j] = Cardinality(Holders(j)')
    BY <1>a, <2>1, <2>2, <2>3, <2>4 DEF CountsAgree, TypeOK
  <2>6. unused' = Cardinality(Unused')
    <3>1. CASE locked[i] = 1
      <4>1. Unused' = Unused \cup {i}  BY <1>a, <2>1, <2>2, <3>1 DEF Unused, TypeOK
      <4>2. i \notin Unused  BY <3>1 DEF Unused
      <4>3. unused' = unused + 1  BY <1>4, <2>0, <3>1 DEF Put
      <4> QED  BY <1>a, <4>1, <4>2, <4>3, OneMore, Finite DEF CountsAgree, Unused
    <3>2. CASE locked[i] # 1
      <4>1. Unused' = Unused  BY <1>a, <2>1, <2>2, <3>2 DEF Unused, TypeOK
      <4>2. unused' = unused  BY <1>4, <2>0, <3>2 DEF Put
      <4> QED  BY <1>a, <4>1, <4>2 DEF CountsAgree, Unused
    <3> QED  BY <3>1, <3>2
  <2> QED  BY <2>5, <2>6 DEF CountsAgree, Unused
<1>5. ASSUME NEW r \in Reader, PutWake(r) PROVE CountsAgree'
  <2>1. UNCHANGED <<locked, unused>>  BY <1>5 DEF PutWake, cache, entry
  <2>2. \A j \in Slot : Holders(j)' = Holders(j)
    BY <1>a, <1>5 DEF PutWake, Holders, After, TypeOK, Pins
  <2> QED  BY <1>a, <2>1, <2>2, NoPinning
<1>6. ASSUME UNCHANGED vars PROVE CountsAgree'
  <2>1. UNCHANGED <<locked, unused, pc, slot>>  BY <1>6 DEF vars, cache, entry
  <2>2. \A j \in Slot : Holders(j)' = Holders(j)  BY <2>1 DEF Holders
  <2> QED  BY <1>a, <2>1, <2>2, NoPinning
<1> QED  BY <1>1, <1>2, <1>3, <1>4, <1>5, <1>6 DEF Next, Step, Get

LEMMA WaitingCountedKept == IInv /\ [Next]_vars => WaitingCounted'
<1> SUFFICES ASSUME IInv, [Next]_vars PROVE WaitingCounted'  OBVIOUS
<1>a. TypeOK /\ WaitingCounted  BY DEF IInv, Counts
<1>b. ASSUME UNCHANGED waiting, Sleepers' = Sleepers PROVE WaitingCounted'
  BY <1>a, <1>b DEF WaitingCounted
<1>c. ASSUME NEW r \in Reader, Enter(r), NEW s \in Steps \ {"full", "asleep", "roused"},
             pc' = [pc EXCEPT ![r] = s], waiting' = StillWaiting(r)
      PROVE  WaitingCounted'
  <2>1. CASE pc[r] = "roused"
    <3>1. Sleepers' = Sleepers \ {r} /\ r \in Sleepers  BY <1>a, <1>c, <2>1 DEF Sleepers, TypeOK
    <3> QED  BY <1>a, <1>c, <2>1, <3>1, OneLess, Finite DEF WaitingCounted, StillWaiting
  <2>2. CASE pc[r] # "roused"
    <3>1. Sleepers' = Sleepers  BY <1>a, <1>c, <2>2 DEF Sleepers, TypeOK, Enter
    <3> QED  BY <1>b, <1>c, <2>2, <3>1 DEF StillWaiting
  <2> QED  BY <2>1, <2>2
<1>1. ASSUME NEW r \in Reader, Call(r) \/ Filled(r) PROVE WaitingCounted'
  BY <1>a, <1>b, <1>1 DEF Call, Filled, Sleepers, TypeOK, cache
<1>2. ASSUME NEW r \in Reader, Hit(r) PROVE WaitingCounted'
  BY <1>c, <1>2 DEF Hit, Steps, Pins
<1>3. ASSUME NEW r \in Reader, Full(r) PROVE WaitingCounted'
  <2>0. pc' = [pc EXCEPT ![r] = "full"] /\ waiting' = Waits(r) /\ pc[r] \in {"get", "roused"}
    BY <1>3 DEF Full, Enter
  <2>1. CASE pc[r] = "roused"
    <3>1. Sleepers' = Sleepers  BY <1>a, <2>0, <2>1 DEF Sleepers, TypeOK
    <3>2. waiting' = waiting  BY <1>a, <2>0, <2>1 DEF Waits, StillWaiting, TypeOK
    <3> QED  BY <1>b, <3>1, <3>2
  <2>2. CASE pc[r] = "get"
    <3>1. Sleepers' = Sleepers \cup {r} /\ r \notin Sleepers
      BY <1>a, <2>0, <2>2 DEF Sleepers, TypeOK
    <3>2. waiting' = waiting + 1  BY <2>0, <2>2 DEF Waits, StillWaiting
    <3> QED  BY <1>a, <3>1, <3>2, OneMore, Finite DEF WaitingCounted
  <2> QED  BY <2>0, <2>1, <2>2
<1>4. ASSUME NEW r \in Reader, Sleep(r) \/ FillWake(r) PROVE WaitingCounted'
  BY <1>a, <1>b, <1>4 DEF Sleep, FillWake, Sleepers, TypeOK, cache
<1>5. ASSUME NEW r \in Reader, Claim(r) PROVE WaitingCounted'
  BY <1>c, <1>5 DEF Claim, Steps, Pins
<1>6. ASSUME NEW r \in Reader, Await(r) \/ Copy(r) PROVE WaitingCounted'
  BY <1>a, <1>b, <1>6 DEF Await, Copy, Sleepers, TypeOK, cache
<1>7. ASSUME NEW r \in Reader, Put(r) \/ PutWake(r) PROVE WaitingCounted'
  BY <1>a, <1>b, <1>7 DEF Put, PutWake, After, Sleepers, TypeOK, cache
<1>8. ASSUME UNCHANGED vars PROVE WaitingCounted'
  BY <1>b, <1>8 DEF vars, cache, Sleepers
<1> QED  BY <1>1, <1>2, <1>3, <1>4, <1>5, <1>6, <1>7, <1>8 DEF Next, Step, Get

-------------------------------------------------------------------------------
(* Every step keeps the types                                              *)

\* Where NextIndex goes on is a block.
LEMMA NextBlock ==
  ASSUME IInv, NEW r \in Reader, pc[r] = "have", ~error[slot[r]]
  PROVE  data[slot[r]] = want[r] /\ data[slot[r]] \in Block
           /\ (left[r] # 0 => NextIndex(slot[r]) \in Block)
<1>1. slot[r] \in Slot /\ want[r] \in Block /\ left[r] \in Nat  BY DEF IInv, TypeOK
<1>2. block[slot[r]] = want[r] /\ block[slot[r]] # 0 /\ ~pending[slot[r]]
  BY DEF IInv, Entry, Pinned, Pins
<1>3. data[slot[r]] = want[r]  BY <1>1, <1>2 DEF IInv, Entry, Settled
<1>4. want[r] + left[r] <= Last  BY DEF IInv, Walks, Walking
<1> QED  BY <1>1, <1>3, <1>4, SCAssumption DEF Block, NextIndex

\* Any set of entries or of readers has a number.
LEMMA Subsets ==
  /\ \A S \in SUBSET Slot : Cardinality(S) \in 0 .. Entries
  /\ \A S \in SUBSET Reader : Cardinality(S) \in Nat
<1>1. ASSUME NEW S \in SUBSET Slot PROVE Cardinality(S) \in 0 .. Entries
  <2>1. IsFiniteSet(S) /\ Cardinality(S) <= Cardinality(Slot)  BY Finite, FS_Subset
  <2>2. Cardinality(S) \in Nat  BY <2>1, FS_CardinalityType
  <2> QED  BY <2>1, <2>2, Finite, SCAssumption
<1>2. ASSUME NEW S \in SUBSET Reader PROVE Cardinality(S) \in Nat
  BY FS_Subset, FS_CardinalityType, SCAssumption
<1> QED  BY <1>1, <1>2

LEMMA TypeKept == IInv /\ [Next]_vars => TypeOK'
<1> SUFFICES ASSUME IInv, [Next]_vars PROVE TypeOK'  OBVIOUS
<1>a. TypeOK /\ CountsAgree  BY DEF IInv, Counts
<1>b. unused' \in 0 .. Entries /\ waiting' \in Nat
  <2>1. CountsAgree' /\ WaitingCounted'  BY CountsAgreeKept, WaitingCountedKept
  <2>2. Unused' \in SUBSET Slot /\ Sleepers' \in SUBSET Reader  BY DEF Unused, Sleepers
  <2> QED  BY <2>1, <2>2, Subsets DEF CountsAgree, WaitingCounted, Unused
<1>1. ASSUME NEW r \in Reader, Call(r) PROVE TypeOK'
  <2>1. PICK b \in Starts :
          /\ first' = [first EXCEPT ![r] = b] /\ want' = [want EXCEPT ![r] = b]
          /\ left' = [left EXCEPT ![r] = IF b + Span <= Last THEN Span ELSE Last - b]
    BY <1>1 DEF Call
  <2>2. first' \in [Reader -> Block] /\ want' \in [Reader -> Block] /\ left' \in [Reader -> Nat]
    BY <1>a, <2>1, SCAssumption DEF TypeOK, Block
  <2>3. got' \in [Reader -> Seq(Block)]
    <3>1. <<>> \in Seq(Block)  OBVIOUS
    <3> QED  BY <1>a, <1>1, <3>1 DEF Call, TypeOK
  <2>4. pc' \in [Reader -> Steps]  BY <1>a, <1>1 DEF Call, TypeOK, Steps
  <2> QED  BY <1>a, <1>b, <1>1, <2>2, <2>3, <2>4 DEF Call, TypeOK, cache, entry
<1>2. ASSUME NEW r \in Reader, Hit(r) PROVE TypeOK'
  <2>1. PICK i \in Slot : /\ slot' = [slot EXCEPT ![r] = i]
                          /\ locked' = [locked EXCEPT ![i] = @ + 1]
                          /\ waiters' = [waiters EXCEPT ![i] = WaitersMore(i)]
                          /\ pc' = [pc EXCEPT ![r] = IF pending[i] THEN "await" ELSE "have"]
    BY <1>2 DEF Hit, Cached
  <2>2. locked' \in [Slot -> Nat] /\ waiters' \in [Slot -> Nat] /\ slot' \in [Reader -> Slot]
    <3>1. WaitersMore(i) \in Nat  BY <1>a DEF TypeOK, WaitersMore
    <3> QED  BY <1>a, <2>1, <3>1 DEF TypeOK
  <2>3. pc' \in [Reader -> Steps]  BY <1>a, <2>1 DEF TypeOK, Steps, Pins
  <2> QED  BY <1>a, <1>b, <1>2, <2>2, <2>3 DEF Hit, TypeOK, walk
<1>3. ASSUME NEW r \in Reader, Full(r) \/ Sleep(r) \/ Await(r) PROVE TypeOK'
  <2>1. pc' \in [Reader -> Steps]
    BY <1>a, <1>3 DEF Full, Sleep, Await, TypeOK, Steps, Pins
  <2>2. UNCHANGED <<nextblk, entry, slot, walk, failed>>
    BY <1>3 DEF Full, Sleep, Await, cache
  <2> QED  BY <1>a, <1>b, <2>1, <2>2 DEF TypeOK, entry, walk
<1>4. ASSUME NEW r \in Reader, Claim(r) PROVE TypeOK'
  <2>1. PICK i \in Slot :
          /\ nextblk' = (i + 1) % Entries /\ slot' = [slot EXCEPT ![r] = i]
          /\ block' = [block EXCEPT ![i] = want[r]] /\ locked' = [locked EXCEPT ![i] = 1]
          /\ pending' = [pending EXCEPT ![i] = TRUE] /\ waiters' = [waiters EXCEPT ![i] = 0]
          /\ error' = [error EXCEPT ![i] = FALSE] /\ data' = [data EXCEPT ![i] = 0]
    BY <1>4 DEF Claim
  <2>2. nextblk' \in Slot  BY <2>1, SCAssumption DEF Slot
  <2>3. want[r] \in 0 .. Last /\ 0 \in 0 .. Last  BY <1>a, SCAssumption DEF TypeOK, Block
  <2>4. block' \in [Slot -> 0 .. Last] /\ data' \in [Slot -> 0 .. Last]
    BY <1>a, <2>1, <2>3 DEF TypeOK
  <2>5. locked' \in [Slot -> Nat] /\ waiters' \in [Slot -> Nat] /\ slot' \in [Reader -> Slot]
    BY <1>a, <2>1 DEF TypeOK
  <2>6. pending' \in [Slot -> BOOLEAN] /\ error' \in [Slot -> BOOLEAN]
    BY <1>a, <2>1, Zenon DEF TypeOK
  <2>7. pc' \in [Reader -> Steps]  BY <1>a, <1>4 DEF Claim, TypeOK, Steps, Pins
  <2> QED  BY <1>a, <1>b, <1>4, <2>2, <2>4, <2>5, <2>6, <2>7 DEF Claim, TypeOK, walk
<1>5. ASSUME NEW r \in Reader, Filled(r) PROVE TypeOK'
  <2>1. PICK i \in Slot : i = slot[r]  BY <1>a DEF TypeOK
  <2>2. pending' \in [Slot -> BOOLEAN] /\ error' \in [Slot -> BOOLEAN]
    <3>1. pending' = [pending EXCEPT ![i] = FALSE]  BY <1>5, <2>1 DEF Filled
    <3>2. error' = error \/ error' = [error EXCEPT ![i] = TRUE]  BY <1>5, <2>1 DEF Filled
    <3> QED  BY <1>a, <3>1, <3>2, Zenon DEF TypeOK
  <2>3. data' \in [Slot -> 0 .. Last] /\ failed' \in SUBSET Block
    BY <1>a, <1>5, <2>1, SCAssumption DEF Filled, TypeOK, Block
  <2>4. pc' \in [Reader -> Steps]  BY <1>a, <1>5 DEF Filled, TypeOK, Steps, Pins
  <2> QED  BY <1>a, <1>b, <1>5, <2>2, <2>3, <2>4 DEF Filled, TypeOK, cache, walk
<1>6. ASSUME NEW r \in Reader, FillWake(r) PROVE TypeOK'
  <2>1. pc' \in [Reader -> Steps] /\ waiters' \in [Slot -> Nat]
    BY <1>a, <1>6 DEF FillWake, TypeOK, Steps, Pins
  <2> QED  BY <1>a, <1>b, <1>6, <2>1 DEF FillWake, TypeOK, cache, walk
<1>7. ASSUME NEW r \in Reader, Copy(r) PROVE TypeOK'
  <2>1. pc' \in [Reader -> Steps]  BY <1>a, <1>7 DEF Copy, TypeOK, Steps, Pins
  <2>2. pc[r] = "have" /\ got[r] \in Seq(Block)  BY <1>a, <1>7 DEF Copy, TypeOK
  <2>3. CASE error[slot[r]]
    <3>1. <<>> \in Seq(Block)  OBVIOUS
    <3>2. left' = [left EXCEPT ![r] = 0] /\ got' = [got EXCEPT ![r] = <<>>] /\ want' = want
      BY <1>7, <2>3 DEF Copy
    <3>3. left' \in [Reader -> Nat] /\ got' \in [Reader -> Seq(Block)]
      BY <1>a, <3>1, <3>2 DEF TypeOK
    <3> QED  BY <1>a, <1>b, <1>7, <2>1, <3>2, <3>3 DEF Copy, TypeOK, cache, entry
  <2>4. CASE ~error[slot[r]]
    <3>1. data[slot[r]] \in Block /\ (left[r] # 0 => NextIndex(slot[r]) \in Block)
      BY <2>2, <2>4, NextBlock
    <3>2. Append(got[r], data[slot[r]]) \in Seq(Block)  BY <2>2, <3>1
    <3>3. /\ got' = [got EXCEPT ![r] = Append(got[r], data[slot[r]])] /\ left' = left
          /\ want' = [want EXCEPT ![r] = IF left[r] = 0 THEN want[r] ELSE NextIndex(slot[r])]
      BY <1>7, <2>4 DEF Copy
    <3>4. got' \in [Reader -> Seq(Block)]  BY <1>a, <3>2, <3>3 DEF TypeOK
    <3>5. want' \in [Reader -> Block]  BY <1>a, <3>1, <3>3 DEF TypeOK
    <3> QED  BY <1>a, <1>b, <1>7, <2>1, <3>3, <3>4, <3>5 DEF Copy, TypeOK, cache, entry
  <2> QED  BY <2>3, <2>4
<1>8. ASSUME NEW r \in Reader, Put(r) \/ PutWake(r) PROVE TypeOK'
  <2>1. pc' \in [Reader -> Steps] /\ slot' \in [Reader -> Slot]
    <3>1. 0 \in Slot  BY SCAssumption DEF Slot
    <3>2. After(r) \in Steps /\ "putwake" \in Steps /\ "full" \in Steps  BY DEF After, Steps, Pins
    <3>3. CASE Put(r)
      <4>1. pc' = [pc EXCEPT ![r] = After(r)] \/ pc' = [pc EXCEPT ![r] = "putwake"]
        BY <3>3 DEF Put
      <4>2. slot' = slot \/ slot' = [slot EXCEPT ![r] = 0]  BY <3>3 DEF Put
      <4> QED  BY <1>a, <3>1, <3>2, <4>1, <4>2 DEF TypeOK
    <3>4. CASE PutWake(r)  BY <1>a, <3>1, <3>2, <3>4 DEF PutWake, TypeOK
    <3> QED  BY <1>8, <3>3, <3>4
  <2>2. first' \in [Reader -> Block] /\ want' \in [Reader -> Block]
        /\ left' \in [Reader -> Nat] /\ got' \in [Reader -> Seq(Block)]
    <3>1. <<>> \in Seq(Block) /\ 1 \in Block  BY SCAssumption DEF Block
    <3>2. Onward(r) \/ UNCHANGED walk  BY <1>8 DEF Put, PutWake
    <3>3. CASE UNCHANGED walk  BY <1>a, <3>3 DEF walk, TypeOK
    <3>4. CASE Onward(r) /\ left[r] = 0
      <4>1. /\ first' = [first EXCEPT ![r] = 1] /\ want' = [want EXCEPT ![r] = 1]
            /\ got' = [got EXCEPT ![r] = <<>>] /\ left' = left
        BY <3>4 DEF Onward
      <4> QED  BY <1>a, <3>1, <4>1 DEF TypeOK
    <3>5. CASE Onward(r) /\ left[r] # 0
      <4>1. /\ left' = [left EXCEPT ![r] = left[r] - 1] /\ UNCHANGED <<first, want, got>>
        BY <3>5 DEF Onward
      <4>2. left[r] - 1 \in Nat  BY <1>a, <3>5 DEF TypeOK
      <4> QED  BY <1>a, <4>1, <4>2 DEF TypeOK
    <3> QED  BY <3>2, <3>3, <3>4, <3>5
  <2>3. locked' \in [Slot -> Nat]
    <3>1. CASE Put(r)
      <4>1. slot[r] \in Slot /\ locked[slot[r]] >= 1  BY <1>a, <3>1, HeldIsLocked DEF Put, Pins
      <4> QED  BY <1>a, <3>1, <4>1 DEF Put, TypeOK
    <3>2. CASE PutWake(r)  BY <1>a, <3>2 DEF PutWake, TypeOK, entry
    <3> QED  BY <1>8, <3>1, <3>2
  <2>4. UNCHANGED <<nextblk, block, pending, waiters, error, data, failed>>
    BY <1>8 DEF Put, PutWake, cache, entry
  <2> QED  BY <1>a, <1>b, <2>1, <2>2, <2>3, <2>4 DEF TypeOK
<1>9. ASSUME UNCHANGED vars PROVE TypeOK'
  BY <1>a, <1>9 DEF vars, cache, entry, walk, TypeOK
<1> QED  BY <1>1, <1>2, <1>3, <1>4, <1>5, <1>6, <1>7, <1>8, <1>9 DEF Next, Step, Get

-------------------------------------------------------------------------------
(* Every step keeps the entries                                            *)

\* The reader that is filling an entry is the only one that has its data in its hands.
LEMMA AloneWhileFilling ==
  ASSUME IInv, NEW r \in Reader, pc[r] = "fill", NEW q \in Reader, q # r, slot[q] = slot[r]
  PROVE  pc[q] \notin {"fill", "fillwake", "have", "put"}
BY DEF IInv, Entry, OneFiller, Pinned

LEMMA ClaimedHasNoHolder ==
  ASSUME IInv, unused # 0, NEW i \in Slot, Free(i), NEW q \in Reader, pc[q] \in Pins
  PROVE  slot[q] # i
<1>1. Holders(i) = {}  BY FreeIsUnused DEF IInv, Counts
<1> QED  BY <1>1 DEF Holders

LEMMA EntryKept == IInv /\ [Next]_vars => Entry'
<1> SUFFICES ASSUME IInv, [Next]_vars PROVE Entry'  OBVIOUS
<1>a. TypeOK /\ OneEntryPerBlock /\ OneFiller /\ Pinned /\ Settled  BY DEF IInv, Entry
<1>1. ASSUME NEW r \in Reader, Claim(r) PROVE Entry'
  <2>0. PICK i \in Slot :
          /\ Free(i) /\ slot' = [slot EXCEPT ![r] = i]
          /\ block' = [block EXCEPT ![i] = want[r]]
          /\ pending' = [pending EXCEPT ![i] = TRUE]
          /\ error' = [error EXCEPT ![i] = FALSE] /\ data' = [data EXCEPT ![i] = 0]
    BY <1>1 DEF Claim
  <2>1. /\ pc' = [pc EXCEPT ![r] = "fill"] /\ unused # 0 /\ Cached(want[r]) = {}
        /\ want' = want /\ failed' = failed /\ pc[r] \notin Pins /\ want[r] # 0
    <3>1. want[r] # 0  BY <1>a, SCAssumption DEF TypeOK, Block
    <3> QED  BY <1>1, <3>1 DEF Claim, Missing, Enter, Pins, walk
  <2>2. \A q \in Reader : pc[q] \in Pins => slot[q] # i
    BY <2>0, <2>1, ClaimedHasNoHolder
  <2>3. OneEntryPerBlock'
    BY <1>a, <2>0, <2>1 DEF OneEntryPerBlock, Cached, TypeOK
  <2>4. OneFiller'  BY <1>a, <2>0, <2>1, <2>2 DEF OneFiller, TypeOK, Pins
  <2>5. Pinned'
    <3> SUFFICES ASSUME NEW q \in Reader PROVE Pinned!(q)'  BY DEF Pinned
    <3>1. CASE q = r  BY <1>a, <2>0, <2>1, <3>1 DEF TypeOK, Pins
    <3>2. CASE q # r
      <4>1. pc'[q] = pc[q] /\ slot'[q] = slot[q] /\ slot[q] \in Slot
        BY <1>a, <2>0, <2>1, <3>2 DEF TypeOK
      <4>2. pc[q] \in Pins => block'[slot[q]] = block[slot[q]] /\ pending'[slot[q]] = pending[slot[q]]
        BY <1>a, <2>0, <2>2, <4>1 DEF TypeOK
      <4> QED  BY <1>a, <2>1, <4>1, <4>2 DEF Pinned, Pins
    <3> QED  BY <3>1, <3>2
  <2>6. Settled'
    <3> SUFFICES ASSUME NEW j \in Slot PROVE Settled!(j)'  BY DEF Settled
    <3>1. CASE j = i  BY <1>a, <2>0, <3>1 DEF TypeOK
    <3>2. CASE j # i
      <4>1. block'[j] = block[j] /\ pending'[j] = pending[j] /\ error'[j] = error[j] /\ data'[j] = data[j]
        BY <1>a, <2>0, <3>2 DEF TypeOK
      <4> QED  BY <1>a, <2>1, <4>1 DEF Settled
    <3> QED  BY <3>1, <3>2
  <2> QED  BY <2>3, <2>4, <2>5, <2>6 DEF Entry
<1>2. ASSUME NEW r \in Reader, Hit(r) PROVE Entry'
  <2>0. PICK i \in Slot :
          /\ block[i] = want[r] /\ slot' = [slot EXCEPT ![r] = i]
          /\ pc' = [pc EXCEPT ![r] = IF pending[i] THEN "await" ELSE "have"]
    BY <1>2 DEF Hit, Cached
  <2>1. UNCHANGED <<block, pending, error, data, failed, want>>  /\ want[r] # 0
    <3>1. want[r] # 0  BY <1>a, SCAssumption DEF TypeOK, Block
    <3> QED  BY <1>2, <3>1 DEF Hit, walk
  <2>2. OneEntryPerBlock' /\ Settled'  BY <1>a, <2>1 DEF OneEntryPerBlock, Settled
  <2>3. OneFiller'  BY <1>a, <2>0 DEF OneFiller, TypeOK
  <2>4. Pinned'
    <3> SUFFICES ASSUME NEW q \in Reader PROVE Pinned!(q)'  BY DEF Pinned
    <3>1. CASE q = r  BY <1>a, <2>0, <2>1, <3>1 DEF TypeOK, Pins
    <3>2. CASE q # r  BY <1>a, <2>0, <2>1, <3>2 DEF TypeOK, Pinned
    <3> QED  BY <3>1, <3>2
  <2> QED  BY <2>2, <2>3, <2>4 DEF Entry
<1>3. ASSUME NEW r \in Reader, Filled(r) PROVE Entry'
  <2>0. PICK i \in Slot : i = slot[r]  BY <1>a DEF TypeOK
  <2>1. /\ pc[r] = "fill" /\ pc' = [pc EXCEPT ![r] = "fillwake"]
        /\ pending' = [pending EXCEPT ![i] = FALSE]
        /\ UNCHANGED <<block, slot, want>>
    BY <1>3, <2>0 DEF Filled, walk
  <2>2. \/ data' = [data EXCEPT ![i] = block[i]] /\ error' = error /\ failed' = failed
        \/ error' = [error EXCEPT ![i] = TRUE] /\ failed' = failed \cup {block[i]} /\ data' = data
    BY <1>3, <2>0 DEF Filled
  <2>3. OneEntryPerBlock'  BY <1>a, <2>1 DEF OneEntryPerBlock
  <2>4. OneFiller'  BY <1>a, <2>1 DEF OneFiller, TypeOK
  <2>5. Pinned'
    <3> SUFFICES ASSUME NEW q \in Reader PROVE Pinned!(q)'  BY DEF Pinned
    <3>1. CASE q = r  BY <1>a, <2>0, <2>1, <3>1 DEF TypeOK, Pins, Pinned
    <3>2. CASE q # r
      <4>1. pc'[q] = pc[q] /\ slot[q] \in Slot  BY <1>a, <2>1, <3>2 DEF TypeOK
      <4>2. slot[q] = i => pc[q] # "fill"  BY <2>0, <2>1, <3>2, AloneWhileFilling
      <4>3. slot[q] # i => pending'[slot[q]] = pending[slot[q]]  BY <1>a, <2>1, <4>1 DEF TypeOK
      <4>4. slot[q] = i => ~pending'[slot[q]]  BY <1>a, <2>1 DEF TypeOK
      <4> QED  BY <1>a, <2>1, <4>1, <4>2, <4>3, <4>4 DEF Pinned
    <3> QED  BY <3>1, <3>2
  <2>6. Settled'
    <3> SUFFICES ASSUME NEW j \in Slot PROVE Settled!(j)'  BY DEF Settled
    <3>1. CASE j = i
      <4>1. ~error[i]  BY <1>a, <2>0, <2>1 DEF Pinned, Settled
      <4> QED  BY <1>a, <2>1, <2>2, <3>1, <4>1 DEF TypeOK
    <3>2. CASE j # i
      <4>1. block'[j] = block[j] /\ pending'[j] = pending[j] /\ error'[j] = error[j] /\ data'[j] = data[j]
        BY <1>a, <2>1, <2>2, <3>2 DEF TypeOK
      <4> QED  BY <1>a, <2>2, <4>1 DEF Settled
    <3> QED  BY <3>1, <3>2
  <2> QED  BY <2>3, <2>4, <2>5, <2>6 DEF Entry
<1>4. ASSUME NEW r \in Reader, Await(r) PROVE Entry'
  <2>0. /\ pc' = [pc EXCEPT ![r] = IF pending[slot[r]] THEN "dozing" ELSE "have"] /\ pc[r] = "await"
        /\ UNCHANGED <<block, pending, error, data, failed, slot, want>>
    BY <1>4 DEF Await, entry, walk
  <2>1. OneEntryPerBlock' /\ Settled'  BY <1>a, <2>0 DEF OneEntryPerBlock, Settled
  <2>2. OneFiller'  BY <1>a, <2>0 DEF OneFiller, TypeOK
  <2>3. Pinned'
    <3> SUFFICES ASSUME NEW q \in Reader PROVE Pinned!(q)'  BY DEF Pinned
    <3>1. CASE q = r  BY <1>a, <2>0, <3>1 DEF TypeOK, Pins, Pinned
    <3>2. CASE q # r  BY <1>a, <2>0, <3>2 DEF TypeOK, Pinned
    <3> QED  BY <3>1, <3>2
  <2> QED  BY <2>1, <2>2, <2>3 DEF Entry
<1>5. ASSUME NEW r \in Reader, FillWake(r) PROVE Entry'
  <2>0. /\ \A q \in Reader : \/ pc'[q] = pc[q]
                             \/ pc'[q] = "await" /\ pc[q] = "dozing"
                             \/ pc'[q] = "have" /\ pc[q] = "fillwake"
        /\ UNCHANGED <<block, pending, error, data, failed, slot, want>>
    BY <1>a, <1>5 DEF FillWake, walk, TypeOK
  <2>1. OneEntryPerBlock' /\ Settled'  BY <1>a, <2>0 DEF OneEntryPerBlock, Settled
  <2>2. OneFiller'  BY <1>a, <2>0 DEF OneFiller
  <2>3. Pinned'
    <3> SUFFICES ASSUME NEW q \in Reader PROVE Pinned!(q)'  BY DEF Pinned
    <3> QED  BY <1>a, <2>0 DEF Pins, Pinned
  <2> QED  BY <2>1, <2>2, <2>3 DEF Entry
<1>6. ASSUME NEW r \in Reader, Copy(r) PROVE Entry'
  <2>0. /\ pc' = [pc EXCEPT ![r] = "put"] /\ pc[r] = "have"
        /\ \A q \in Reader : q # r => want'[q] = want[q]
        /\ UNCHANGED <<block, pending, error, data, failed, slot>>
    <3>1. want' = want \/ want' = [want EXCEPT ![r] = IF left[r] = 0 THEN @ ELSE NextIndex(slot[r])]
      BY <1>6 DEF Copy
    <3> QED  BY <1>a, <1>6, <3>1 DEF Copy, entry, TypeOK
  <2>1. OneEntryPerBlock' /\ Settled'  BY <1>a, <2>0 DEF OneEntryPerBlock, Settled
  <2>2. OneFiller'  BY <1>a, <2>0 DEF OneFiller, TypeOK
  <2>3. Pinned'
    <3> SUFFICES ASSUME NEW q \in Reader PROVE Pinned!(q)'  BY DEF Pinned
    <3>1. CASE q = r  BY <1>a, <2>0, <3>1 DEF TypeOK, Pins, Pinned
    <3>2. CASE q # r  BY <1>a, <2>0, <3>2 DEF TypeOK, Pinned
    <3> QED  BY <3>1, <3>2
  <2> QED  BY <2>1, <2>2, <2>3 DEF Entry
<1>7. ASSUME NEW r \in Reader,
             Call(r) \/ Full(r) \/ Sleep(r) \/ Put(r) \/ PutWake(r)
      PROVE  Entry'
  <2>0. UNCHANGED <<block, pending, error, data, failed>>
    BY <1>7 DEF Call, Full, Sleep, Put, PutWake, cache, entry
  <2>1. \A q \in Reader : pc'[q] \in Pins =>
          pc[q] \in Pins /\ pc'[q] = pc[q] /\ slot'[q] = slot[q] /\ (pc[q] # "put" => want'[q] = want[q])
    <3>1. CASE Call(r)  BY <1>a, <1>7, <3>1 DEF Call, TypeOK, Pins
    <3>2. CASE Full(r) \/ Sleep(r)  BY <1>a, <1>7, <3>2 DEF Full, Sleep, TypeOK, Pins, walk
    <3>3. CASE Put(r)  BY <1>a, <1>7, <3>3 DEF Put, Onward, After, TypeOK, Pins, walk
    <3>4. CASE PutWake(r)  BY <1>a, <1>7, <3>4 DEF PutWake, Onward, After, TypeOK, Pins
    <3> QED  BY <1>7, <3>1, <3>2, <3>3, <3>4
  <2>2. OneEntryPerBlock' /\ Settled'  BY <1>a, <2>0 DEF OneEntryPerBlock, Settled
  <2>3. OneFiller'
    <3>1. \A q \in Reader : pc'[q] = "fill" => pc[q] = "fill" /\ slot'[q] = slot[q]  BY <2>1 DEF Pins
    <3> QED  BY <1>a, <3>1 DEF OneFiller
  <2>4. Pinned'
    <3> SUFFICES ASSUME NEW q \in Reader, pc'[q] \in Pins PROVE Pinned!(q)'  BY DEF Pinned, Pins
    <3> QED  BY <1>a, <2>0, <2>1 DEF Pinned
  <2> QED  BY <2>2, <2>3, <2>4 DEF Entry
<1>8. ASSUME UNCHANGED vars PROVE Entry'
  <2>1. UNCHANGED <<block, pending, error, data, failed, slot, want, pc>>
    BY <1>8 DEF vars, entry, walk
  <2> QED  BY <1>a, <2>1 DEF Entry, OneEntryPerBlock, OneFiller, Pinned, Settled
<1> QED  BY <1>1, <1>2, <1>3, <1>4, <1>5, <1>6, <1>7, <1>8 DEF Next, Step, Get

-------------------------------------------------------------------------------
(* Every step keeps the wake-ups                                           *)

LEMMA AsleepIsCounted ==
  ASSUME WaitingCounted, NEW r \in Reader, pc[r] = "asleep"
  PROVE  waiting # 0
<1>1. r \in Sleepers  BY DEF Sleepers
<1>2. Cardinality(Sleepers) >= 1  BY <1>1, Finite, OneLess
<1> QED  BY <1>2 DEF WaitingCounted

\* Whoever sleeps is one that slept already or has just found no entry; what could wake it
\* is still there.
AsleepWoken == \A r \in Reader :
  pc[r] = "asleep" => unused = 0 \/ (waiting # 0 /\ \E q \in Reader : pc[q] = "putwake")
DozingWoken == \A r \in Reader :
  pc[r] = "dozing" =>
    \/ pending[slot[r]]
    \/ \E q \in Reader : pc[q] = "fillwake" /\ slot[q] = slot[r] /\ waiters[slot[r]] # 0

LEMMA AsleepKept == IInv /\ [Next]_vars => AsleepWoken'
<1> SUFFICES ASSUME IInv, [Next]_vars PROVE AsleepWoken'  OBVIOUS
<1>a. TypeOK /\ WaitingCounted /\ AsleepWoken
  BY DEF IInv, Counts, Waking, SleepersAreWoken, AsleepWoken
<1>b. TypeOK' /\ WaitingCounted'  BY TypeKept, WaitingCountedKept
<1>w. ASSUME NEW q \in Reader, pc'[q] = "asleep" PROVE waiting' # 0
  <2>1. q \in Sleepers' /\ Sleepers' \in SUBSET Reader  BY <1>w DEF Sleepers
  <2>2. IsFiniteSet(Sleepers')  BY <2>1, FS_Subset, SCAssumption
  <2>3. Cardinality(Sleepers') >= 1  BY <2>1, <2>2, OneLess
  <2> QED  BY <1>b, <2>3 DEF WaitingCounted
<1> SUFFICES ASSUME NEW q \in Reader, pc'[q] = "asleep"
             PROVE  unused' = 0 \/ \E p \in Reader : pc'[p] = "putwake"
  BY <1>w DEF AsleepWoken
<1>c. ASSUME unused' = unused, pc[q] = "asleep",
             \A p \in Reader : pc[p] = "putwake" => pc'[p] = "putwake"
      PROVE  unused' = 0 \/ \E p \in Reader : pc'[p] = "putwake"
  BY <1>a, <1>c DEF AsleepWoken
<1>1. ASSUME NEW r \in Reader, Sleep(r) PROVE unused' = 0 \/ \E p \in Reader : pc'[p] = "putwake"
  <2>1. unused' = unused  BY <1>1 DEF Sleep, cache
  <2>2. CASE unused = 0  BY <2>1, <2>2
  <2>3. CASE unused # 0
    <3>1. pc' = [pc EXCEPT ![r] = "roused"] /\ pc[r] = "full"  BY <1>1, <2>3 DEF Sleep
    <3>2. pc[q] = "asleep" /\ \A p \in Reader : pc[p] = "putwake" => pc'[p] = "putwake"
      BY <1>a, <3>1 DEF TypeOK
    <3> QED  BY <1>c, <2>1, <3>2
  <2> QED  BY <2>2, <2>3
<1>2. ASSUME NEW r \in Reader,
             Call(r) \/ Full(r) \/ Filled(r) \/ Await(r) \/ Copy(r) \/ FillWake(r)
      PROVE  unused' = 0 \/ \E p \in Reader : pc'[p] = "putwake"
  <2>1. unused' = unused
    BY <1>2 DEF Call, Full, Filled, Await, Copy, FillWake, cache
  <2>2. pc[q] = "asleep" /\ \A p \in Reader : pc[p] = "putwake" => pc'[p] = "putwake"
    BY <1>a, <1>2 DEF Call, Full, Enter, Filled, Await, Copy, FillWake, TypeOK
  <2> QED  BY <1>c, <2>1, <2>2
<1>3. ASSUME NEW r \in Reader, Hit(r) \/ Claim(r)
      PROVE  unused' = 0 \/ \E p \in Reader : pc'[p] = "putwake"
  <2>1. unused' \in {unused, unused - 1} /\ unused' \in Nat
    BY <1>b, <1>3 DEF Hit, Claim, UnusedLess, TypeOK
  <2>2. pc[q] = "asleep" /\ \A p \in Reader : pc[p] = "putwake" => pc'[p] = "putwake"
    BY <1>a, <1>3 DEF Hit, Claim, Enter, TypeOK
  <2>3. CASE unused = 0  BY <1>a, <2>1, <2>3 DEF TypeOK
  <2>4. CASE unused # 0  BY <1>a, <2>2, <2>4 DEF AsleepWoken
  <2> QED  BY <2>3, <2>4
<1>4. ASSUME NEW r \in Reader, Put(r) PROVE unused' = 0 \/ \E p \in Reader : pc'[p] = "putwake"
  <2>1. CASE locked[slot[r]] = 1  BY <1>a, <1>4, <2>1 DEF Put, TypeOK
  <2>2. CASE locked[slot[r]] # 1
    <3>1. unused' = unused /\ pc[q] = "asleep"
          /\ \A p \in Reader : pc[p] = "putwake" => pc'[p] = "putwake"
      BY <1>a, <1>4, <2>2 DEF Put, After, TypeOK
    <3> QED  BY <1>c, <3>1
  <2> QED  BY <2>1, <2>2
<1>5. ASSUME NEW r \in Reader, PutWake(r) PROVE unused' = 0 \/ \E p \in Reader : pc'[p] = "putwake"
  <2>1. pc[q] = "asleep" /\ waiting = 0  BY <1>a, <1>5 DEF PutWake, After, TypeOK
  <2> QED  BY <1>a, <2>1, AsleepIsCounted
<1>6. ASSUME UNCHANGED vars PROVE unused' = 0 \/ \E p \in Reader : pc'[p] = "putwake"
  BY <1>c, <1>6 DEF vars, cache
<1> QED  BY <1>1, <1>2, <1>3, <1>4, <1>5, <1>6 DEF Next, Step, Get

LEMMA DozingKept == IInv /\ [Next]_vars => DozingWoken' /\ DozersCounted'
<1> SUFFICES ASSUME IInv, [Next]_vars PROVE DozingWoken' /\ DozersCounted'  OBVIOUS
<1>a. TypeOK /\ Pinned /\ DozingWoken /\ DozersCounted
  BY DEF IInv, Entry, Waking, SleepersAreWoken, DozingWoken
\* Nothing that concerns the waiting for an entry changes.
<1>b. ASSUME UNCHANGED <<pending, waiters>>,
             \A q \in Reader : pc'[q] \in {"dozing", "await"} => pc'[q] = pc[q] /\ slot'[q] = slot[q],
             \A q \in Reader : pc[q] = "fillwake" => pc'[q] = "fillwake" /\ slot'[q] = slot[q]
      PROVE  DozingWoken' /\ DozersCounted'
  BY <1>a, <1>b DEF DozingWoken, DozersCounted
<1>1. ASSUME NEW r \in Reader, Call(r) \/ Full(r) \/ Sleep(r) \/ Copy(r) \/ Put(r) \/ PutWake(r)
      PROVE  DozingWoken' /\ DozersCounted'
  <2>1. UNCHANGED <<pending, waiters>>
    BY <1>1 DEF Call, Full, Sleep, Copy, Put, PutWake, entry
  <2>2. CASE Call(r) \/ Full(r) \/ Sleep(r) \/ Copy(r)
    BY <1>a, <1>b, <2>1, <2>2 DEF Call, Full, Enter, Sleep, Copy, TypeOK
  <2>3. CASE Put(r)  BY <1>a, <1>b, <2>1, <2>3 DEF Put, After, TypeOK
  <2>4. CASE PutWake(r)  BY <1>a, <1>b, <2>1, <2>4 DEF PutWake, After, TypeOK
  <2> QED  BY <1>1, <2>2, <2>3, <2>4
<1>2. ASSUME NEW r \in Reader, Hit(r) PROVE DozingWoken' /\ DozersCounted'
  <2>1. PICK i \in Slot :
          /\ slot' = [slot EXCEPT ![r] = i]
          /\ waiters' = [waiters EXCEPT ![i] = WaitersMore(i)]
          /\ pc' = [pc EXCEPT ![r] = IF pending[i] THEN "await" ELSE "have"]
    BY <1>2 DEF Hit, Cached
  <2>2. pending' = pending /\ pc[r] \in {"get", "roused"}  BY <1>2 DEF Hit, Enter
  <2>3. \A j \in Slot : waiters[j] # 0 => waiters'[j] # 0
    BY <1>a, <2>1 DEF WaitersMore, TypeOK
  <2>4. pending[i] => waiters'[i] # 0
    BY <1>a, <2>1 DEF WaitersMore, TypeOK
  <2>5. \A q \in Reader : q # r => pc'[q] = pc[q] /\ slot'[q] = slot[q] /\ slot[q] \in Slot
    BY <1>a, <2>1 DEF TypeOK
  <2>6. slot'[r] = i /\ pc'[r] = IF pending[i] THEN "await" ELSE "have"
    BY <1>a, <2>1 DEF TypeOK
  <2>7. DozingWoken'
    <3> SUFFICES ASSUME NEW q \in Reader, pc'[q] = "dozing" PROVE DozingWoken!(q)'  BY DEF DozingWoken
    <3>1. q # r /\ pc[q] = "dozing" /\ slot'[q] = slot[q] /\ slot[q] \in Slot
      BY <2>5, <2>6
    <3>2. ASSUME NEW p \in Reader, pc[p] = "fillwake"
          PROVE  pc'[p] = "fillwake" /\ slot'[p] = slot[p]
      BY <2>2, <2>5, <3>2
    <3> QED  BY <1>a, <2>2, <2>3, <3>1, <3>2 DEF DozingWoken
  <2>8. DozersCounted'
    BY <1>a, <2>2, <2>3, <2>4, <2>5, <2>6 DEF DozersCounted
  <2> QED  BY <2>7, <2>8
<1>3. ASSUME NEW r \in Reader, Claim(r) PROVE DozingWoken' /\ DozersCounted'
  <2>1. PICK i \in Slot :
          /\ Free(i) /\ slot' = [slot EXCEPT ![r] = i]
          /\ pending' = [pending EXCEPT ![i] = TRUE] /\ waiters' = [waiters EXCEPT ![i] = 0]
    BY <1>3 DEF Claim
  <2>2. pc' = [pc EXCEPT ![r] = "fill"] /\ unused # 0 /\ pc[r] \in {"get", "roused"}
    BY <1>3 DEF Claim, Enter
  <2>3. \A q \in Reader : pc[q] \in Pins => slot[q] # i  BY <2>1, <2>2, ClaimedHasNoHolder
  <2>4. \A q \in Reader : q # r => pc'[q] = pc[q] /\ slot'[q] = slot[q]
    BY <1>a, <2>1, <2>2 DEF TypeOK
  <2>5. \A j \in Slot : j # i => pending'[j] = pending[j] /\ waiters'[j] = waiters[j]
    BY <1>a, <2>1 DEF TypeOK
  <2>6. pc'[r] = "fill"  BY <1>a, <2>2 DEF TypeOK
  <2>7. \A q \in Reader : slot[q] \in Slot  BY <1>a DEF TypeOK
  <2>8. DozingWoken'  BY <1>a, <2>2, <2>3, <2>4, <2>5, <2>6, <2>7 DEF DozingWoken, Pins
  <2>9. DozersCounted'  BY <1>a, <2>2, <2>3, <2>4, <2>5, <2>6, <2>7 DEF DozersCounted, Pins
  <2> QED  BY <2>8, <2>9
<1>4. ASSUME NEW r \in Reader, Filled(r) PROVE DozingWoken' /\ DozersCounted'
  <2>0. PICK i \in Slot : i = slot[r]  BY <1>a DEF TypeOK
  <2>1. /\ pending' = [pending EXCEPT ![i] = FALSE] /\ waiters' = waiters /\ slot' = slot
        /\ pc[r] = "fill" /\ pc' = [pc EXCEPT ![r] = "fillwake"] /\ pending[i]
    BY <1>a, <1>4, <2>0 DEF Filled, Pinned
  <2>2. \A q \in Reader : slot[q] \in Slot /\ (q # r => pc'[q] = pc[q])  BY <1>a, <2>1 DEF TypeOK
  <2>3. pc'[r] = "fillwake"  BY <1>a, <2>1 DEF TypeOK
  <2>4. \A j \in Slot : pending'[j] <=> pending[j] /\ j # i  BY <1>a, <2>1 DEF TypeOK
  <2>5. DozersCounted'  BY <1>a, <2>1, <2>2, <2>3, <2>4 DEF DozersCounted
  <2>6. DozingWoken'
    <3> SUFFICES ASSUME NEW q \in Reader, pc'[q] = "dozing" PROVE DozingWoken!(q)'  BY DEF DozingWoken
    <3>1. pc[q] = "dozing" /\ q # r  BY <2>2, <2>3
    <3>2. CASE slot[q] = i
      <4>1. waiters[i] # 0  BY <1>a, <2>1, <3>1, <3>2 DEF DozersCounted
      <4> QED  BY <2>0, <2>1, <2>3, <3>2, <4>1
    <3>3. CASE slot[q] # i  BY <1>a, <2>1, <2>2, <2>4, <3>1, <3>3 DEF DozingWoken
    <3> QED  BY <3>2, <3>3
  <2> QED  BY <2>5, <2>6
<1>5. ASSUME NEW r \in Reader, FillWake(r) PROVE DozingWoken' /\ DozersCounted'
  <2>0. PICK i \in Slot : i = slot[r]  BY <1>a DEF TypeOK
  <2>1. /\ UNCHANGED <<pending, slot>> /\ waiters' = [waiters EXCEPT ![i] = 0]
        /\ pc[r] = "fillwake" /\ ~pending[i]
    BY <1>a, <1>5, <2>0 DEF FillWake, Pinned
  <2>2. \A q \in Reader : /\ pc'[q] = "dozing" =>
                               pc[q] = "dozing" /\ ~(slot[q] = i /\ waiters[i] # 0)
                          /\ pc'[q] = "await" => pc[q] \in {"dozing", "await"}
                          /\ q # r /\ pc[q] = "fillwake" => pc'[q] = "fillwake"
    BY <1>a, <1>5, <2>0 DEF FillWake, TypeOK
  <2>3. \A j \in Slot : j # i => waiters'[j] = waiters[j]  BY <1>a, <2>1 DEF TypeOK
  <2>4. \A q \in Reader : slot[q] \in Slot  BY <1>a DEF TypeOK
  <2>5. DozersCounted'  BY <1>a, <2>1, <2>2, <2>3, <2>4 DEF DozersCounted
  <2>6. DozingWoken'
    <3> SUFFICES ASSUME NEW q \in Reader, pc'[q] = "dozing" PROVE DozingWoken!(q)'  BY DEF DozingWoken
    <3>1. pc[q] = "dozing" /\ slot[q] # i  BY <1>a, <2>1, <2>2 DEF DozingWoken
    <3> QED  BY <1>a, <2>0, <2>1, <2>2, <2>3, <2>4, <3>1 DEF DozingWoken
  <2> QED  BY <2>5, <2>6
<1>6. ASSUME NEW r \in Reader, Await(r) PROVE DozingWoken' /\ DozersCounted'
  <2>1. /\ UNCHANGED <<pending, waiters, slot>> /\ pc[r] = "await"
        /\ pc' = [pc EXCEPT ![r] = IF pending[slot[r]] THEN "dozing" ELSE "have"]
    BY <1>6 DEF Await, entry
  <2> QED  BY <1>a, <2>1 DEF DozingWoken, DozersCounted, TypeOK
<1>7. ASSUME UNCHANGED vars PROVE DozingWoken' /\ DozersCounted'
  BY <1>b, <1>7 DEF vars, entry
<1> QED  BY <1>1, <1>2, <1>3, <1>4, <1>5, <1>6, <1>7 DEF Next, Step, Get

LEMMA WakingKept == IInv /\ [Next]_vars => Waking'
BY AsleepKept, DozingKept DEF Waking, SleepersAreWoken, AsleepWoken, DozingWoken

-------------------------------------------------------------------------------
(* Every step keeps the walks                                              *)

LEMMA WalksKept == IInv /\ [Next]_vars => Walks'
<1> SUFFICES ASSUME IInv, [Next]_vars PROVE Walks'  OBVIOUS
<1>a. TypeOK /\ Walking /\ CopiesInOrder  BY DEF IInv, Walks
\* What one reader does changes no other's walk.
<1>b. ASSUME NEW q \in Reader, pc'[q] = pc[q],
             want'[q] = want[q], first'[q] = first[q], left'[q] = left[q], got'[q] = got[q]
      PROVE  Walking!(q)' /\ (\A k \in 1 .. Len(got[q]) : got[q][k] = first[q] + k - 1)'
  BY <1>a, <1>b DEF Walking, CopiesInOrder
<1>1. ASSUME UNCHANGED walk,
             \A q \in Reader : \/ pc'[q] = pc[q]
                               \/ /\ pc[q] \notin {"idle", "put", "putwake"}
                                  /\ pc'[q] \notin {"idle", "put", "putwake"}
                               \/ pc[q] = "put" /\ pc'[q] = "putwake"
      PROVE  Walks'
  BY <1>a, <1>1 DEF walk, Walks, Walking, CopiesInOrder
<1>2. ASSUME NEW r \in Reader,
             Hit(r) \/ Full(r) \/ Sleep(r) \/ Claim(r) \/ Filled(r) \/ FillWake(r) \/ Await(r)
      PROVE  Walks'
  <2>1. UNCHANGED walk
    BY <1>2 DEF Hit, Full, Sleep, Claim, Filled, FillWake, Await
  <2>2. ASSUME NEW q \in Reader
        PROVE  \/ pc'[q] = pc[q]
               \/ /\ pc[q] \notin {"idle", "put", "putwake"}
                  /\ pc'[q] \notin {"idle", "put", "putwake"}
    <3>1. CASE Hit(r) \/ Full(r) \/ Claim(r)
      BY <1>a, <3>1 DEF Hit, Full, Claim, Enter, TypeOK
    <3>2. CASE Sleep(r) \/ Filled(r) \/ FillWake(r) \/ Await(r)
      BY <1>a, <3>2 DEF Sleep, Filled, FillWake, Await, TypeOK
    <3> QED  BY <1>2, <3>1, <3>2
  <2> QED  BY <1>1, <2>1, <2>2
<1>3. ASSUME NEW r \in Reader, Call(r) PROVE Walks'
  <2>1. PICK b \in Starts :
          /\ first' = [first EXCEPT ![r] = b] /\ want' = [want EXCEPT ![r] = b]
          /\ left' = [left EXCEPT ![r] = IF b + Span <= Last THEN Span ELSE Last - b]
    BY <1>3 DEF Call
  <2>2. got' = [got EXCEPT ![r] = <<>>] /\ pc' = [pc EXCEPT ![r] = "get"]  BY <1>3 DEF Call
  <2>3. b \in 1 .. Last  BY SCAssumption
  <2>4. Walking!(r)' /\ (\A k \in 1 .. Len(got[r]) : got[r][k] = first[r] + k - 1)'
    BY <1>a, <2>1, <2>2, <2>3, SCAssumption DEF TypeOK
  <2>5. ASSUME NEW q \in Reader, q # r
        PROVE  Walking!(q)' /\ (\A k \in 1 .. Len(got[q]) : got[q][k] = first[q] + k - 1)'
    BY <1>a, <1>b, <2>1, <2>2, <2>5 DEF TypeOK
  <2> QED  BY <2>4, <2>5 DEF Walks, Walking, CopiesInOrder
<1>4. ASSUME NEW r \in Reader, Copy(r) PROVE Walks'
  <2>0. pc' = [pc EXCEPT ![r] = "put"] /\ first' = first /\ pc[r] = "have"  BY <1>4 DEF Copy
  <2>1. CASE error[slot[r]]
    <3>1. left' = [left EXCEPT ![r] = 0] /\ got' = [got EXCEPT ![r] = <<>>] /\ want' = want
      BY <1>4, <2>1 DEF Copy
    <3>2. Walking!(r)' /\ (\A k \in 1 .. Len(got[r]) : got[r][k] = first[r] + k - 1)'
      BY <1>a, <2>0, <3>1 DEF TypeOK
    <3>3. ASSUME NEW q \in Reader, q # r
          PROVE  Walking!(q)' /\ (\A k \in 1 .. Len(got[q]) : got[q][k] = first[q] + k - 1)'
      BY <1>a, <1>b, <2>0, <3>1, <3>3 DEF TypeOK
    <3> QED  BY <3>2, <3>3 DEF Walks, Walking, CopiesInOrder
  <2>2. CASE ~error[slot[r]]
    <3> DEFINE d == want[r]
               w == IF left[r] = 0 THEN want[r] ELSE want[r] + 1
    <3>1. data[slot[r]] = d /\ d \in Block  BY <2>0, <2>2, NextBlock
    <3>2. /\ got' = [got EXCEPT ![r] = Append(got[r], d)] /\ left' = left
          /\ want' = [want EXCEPT ![r] = w]
      BY <1>4, <2>2, <3>1 DEF Copy, NextIndex
    <3>3. d = first[r] + Len(got[r]) /\ d + left[r] <= Last  BY <1>a, <2>0 DEF Walking
    <3>4. got[r] \in Seq(Block) /\ first[r] \in Nat /\ left[r] \in Nat /\ d \in Nat
      BY <1>a, SCAssumption DEF TypeOK, Block
    <3>5. /\ got'[r] = Append(got[r], d) /\ want'[r] = w /\ pc'[r] = "put"
          /\ first'[r] = first[r] /\ left'[r] = left[r]
      BY <1>a, <2>0, <3>2 DEF TypeOK
    <3>6. Len(got'[r]) = Len(got[r]) + 1  BY <3>4, <3>5
    <3>7. Walking!(r)'
      BY <3>3, <3>4, <3>5, <3>6, SCAssumption
    <3>8. ASSUME NEW k \in 1 .. Len(got'[r]) PROVE got'[r][k] = first'[r] + k - 1
      <4>1. CASE k = Len(got[r]) + 1
        <5>1. got'[r][k] = d  BY <3>4, <3>5, <4>1
        <5> QED  BY <3>3, <3>4, <3>5, <4>1, <5>1
      <4>2. CASE k # Len(got[r]) + 1
        <5>1. k \in 1 .. Len(got[r])  BY <3>4, <3>6, <4>2
        <5>2. got'[r][k] = got[r][k]  BY <3>4, <3>5, <5>1
        <5> QED  BY <1>a, <3>5, <5>1, <5>2 DEF CopiesInOrder
      <4> QED  BY <4>1, <4>2
    <3>9. ASSUME NEW q \in Reader, q # r
          PROVE  Walking!(q)' /\ (\A k \in 1 .. Len(got[q]) : got[q][k] = first[q] + k - 1)'
      BY <1>a, <1>b, <2>0, <3>2, <3>9 DEF TypeOK
    <3> QED  BY <3>7, <3>8, <3>9 DEF Walks, Walking, CopiesInOrder
  <2> QED  BY <2>1, <2>2
<1>5. ASSUME NEW r \in Reader, Put(r) \/ PutWake(r) PROVE Walks'
  <2>1. CASE UNCHANGED walk /\ Put(r) /\ locked[slot[r]] = 1
    <3>1. pc' = [pc EXCEPT ![r] = "putwake"] /\ pc[r] = "put"  BY <2>1 DEF Put
    <3> QED  BY <1>a, <1>1, <2>1, <3>1 DEF TypeOK
  <2>2. CASE Onward(r) /\ pc'[r] = After(r) /\ pc[r] \in {"put", "putwake"}
             /\ \A q \in Reader : q # r => pc'[q] = pc[q] \/ (pc[q] = "asleep" /\ pc'[q] = "full")
    <3>1. ASSUME NEW q \in Reader, q # r
          PROVE  Walking!(q)' /\ (\A k \in 1 .. Len(got[q]) : got[q][k] = first[q] + k - 1)'
      <4>1. /\ first'[q] = first[q] /\ want'[q] = want[q] /\ left'[q] = left[q] /\ got'[q] = got[q]
        BY <1>a, <2>2, <3>1 DEF Onward, TypeOK
      <4> QED  BY <1>a, <2>2, <3>1, <4>1 DEF Walking, CopiesInOrder
    <3>2. Walking!(r)' /\ (\A k \in 1 .. Len(got[r]) : got[r][k] = first[r] + k - 1)'
      <4>1. CASE left[r] = 0
        BY <1>a, <2>2, <4>1 DEF Onward, After, TypeOK
      <4>2. CASE left[r] # 0
        <5>1. /\ left'[r] = left[r] - 1 /\ first' = first /\ want' = want /\ got' = got
              /\ pc'[r] = "get"
          BY <1>a, <2>2, <4>2 DEF Onward, After, TypeOK
        <5>2. left[r] \in Nat /\ want[r] \in Nat  BY <1>a, SCAssumption DEF TypeOK, Block
        <5> QED  BY <1>a, <2>2, <4>2, <5>1, <5>2, SCAssumption DEF Walking, CopiesInOrder
      <4> QED  BY <4>1, <4>2
    <3> QED  BY <3>1, <3>2 DEF Walks, Walking, CopiesInOrder
  <2>3. CASE Put(r) /\ locked[slot[r]] # 1  BY <1>a, <2>2, <2>3 DEF Put, TypeOK
  <2>4. CASE PutWake(r)  BY <1>a, <2>2, <2>4 DEF PutWake, TypeOK
  <2>5. CASE Put(r) /\ locked[slot[r]] = 1  BY <2>1, <2>5 DEF Put
  <2> QED  BY <1>5, <2>3, <2>4, <2>5
<1>6. ASSUME UNCHANGED vars PROVE Walks'
  BY <1>1, <1>6 DEF vars
<1> QED  BY <1>2, <1>3, <1>4, <1>5, <1>6 DEF Next, Step, Get

-------------------------------------------------------------------------------
(* The theorems                                                            *)

LEMMA Inductive == Spec => []IInv
<1>1. IInv /\ [Next]_vars => IInv'
  BY TypeKept, CountsAgreeKept, WaitingCountedKept, EntryKept, WakingKept, WalksKept
  DEF IInv, Counts
<1> QED  BY InitInv, <1>1, PTL DEF Spec

\* The cache keeps its types: unused_blks stays within the entries, locked and waiting do
\* not fall below zero, and a walk asks for blocks there are.
THEOREM TypeCorrect == Spec => []TypeOK
BY Inductive, PTL DEF IInv

\* Two readers of a block share one entry.
THEOREM BlockHasOneEntry == Spec => []OneEntryPerBlock
<1>1. IInv => OneEntryPerBlock  BY DEF IInv, Entry
<1> QED  BY Inductive, <1>1, PTL

\* locked and unused_blks are what they count.
THEOREM CountsAreTrue == Spec => []CountsAgree
<1>1. IInv => CountsAgree  BY DEF IInv, Counts
<1> QED  BY Inductive, <1>1, PTL

\* No wake-up is lost, though waiting is tested without the lock.
THEOREM NoLostWakeup == Spec => []SleepersAreWoken
<1>1. IInv => SleepersAreWoken  BY DEF IInv, Waking
<1> QED  BY Inductive, <1>1, PTL

\* A structure that spans blocks is copied from consecutive blocks.
THEOREM WalkInOrder == Spec => []CopiesInOrder
<1>1. IInv => CopiesInOrder  BY DEF IInv, Walks
<1> QED  BY Inductive, <1>1, PTL

-------------------------------------------------------------------------------
(* The refinement                                                          *)

Has(q) == pc[q] \in {"have", "put"}

\* A reader that has a block keeps it as it was; one that has none gets none.
Keeps(q) ==
  /\ Has(q)' <=> Has(q)
  /\ Has(q) => /\ slot'[q] = slot[q]
               /\ block'[slot[q]] = block[slot[q]]
               /\ error'[slot[q]] = error[slot[q]]
               /\ data'[slot[q]] = data[slot[q]]

LEMMA KeptIsHeld ==
  ASSUME NEW q \in Reader, Keeps(q)
  PROVE  Held'[q] = Held[q]
<1>1. CASE Has(q)  BY <1>1 DEF Keeps, Held, Has
<1>2. CASE ~Has(q)  BY <1>2 DEF Keeps, Held, Has
<1> QED  BY <1>1, <1>2

\* What a reader has is a block, or an error that a read of it has met.
LEMMA HeldIsSound ==
  ASSUME IInv, NEW r \in Reader, Has(r)
  PROVE  /\ Held[r] = [block |-> block[slot[r]],
                       data |-> IF error[slot[r]] THEN Error ELSE block[slot[r]]]
         /\ block[slot[r]] \in Block /\ Held[r] # None
         /\ error[slot[r]] => block[slot[r]] \in failed
<1>1. slot[r] \in Slot  BY DEF IInv, TypeOK
<1>2. block[slot[r]] # 0 /\ ~pending[slot[r]]  BY DEF IInv, Entry, Pinned, Has, Pins
<1>3. block[slot[r]] \in Block /\ block[slot[r]] \in Nat
  BY <1>1, <1>2, SCAssumption DEF IInv, TypeOK, Block
<1>4. error[slot[r]] => block[slot[r]] \in failed
  BY <1>1, <1>2 DEF IInv, Entry, Settled
<1>5. ~error[slot[r]] => data[slot[r]] = block[slot[r]]
  BY <1>1, <1>2 DEF IInv, Entry, Settled
<1>6. Held[r] = [block |-> block[slot[r]],
                 data |-> IF error[slot[r]] THEN Error ELSE block[slot[r]]]
  BY <1>5 DEF Held, Has
<1>7. Held[r] \in [block : Nat, data : Nat \cup {Error}]
  <2>1. CASE error[slot[r]]  BY <1>3, <1>6, <2>1
  <2>2. CASE ~error[slot[r]]  BY <1>3, <1>6, <2>2
  <2> QED  BY <2>1, <2>2
<1> QED  BY <1>3, <1>4, <1>6, <1>7, SCAssumption

\* A reader that comes to have its block gets it in the abstract specification.
LEMMA GetImplemented ==
  ASSUME IInv', NEW r \in Reader, ~Has(r), Has(r)', failed' = failed,
         \A q \in Reader \ {r} : Keeps(q)
  PROVE  Blocks!Get(r)
<1>a. IInv' /\ Has(r)' /\ failed' = failed  OBVIOUS
<1>1. /\ (Held[r])' = [block |-> (block[slot[r]])',
                     data |-> IF (error[slot[r]])' THEN Error ELSE (block[slot[r]])']
      /\ (block[slot[r]])' \in Block
      /\ (error[slot[r]])' => (block[slot[r]])' \in failed
  <2>1. slot'[r] \in Slot  BY <1>a DEF IInv, TypeOK
  <2>2. block'[slot'[r]] # 0 /\ ~pending'[slot'[r]]  BY <1>a DEF IInv, Entry, Pinned, Has, Pins
  <2>3. block'[slot'[r]] \in Block
    BY <1>a, <2>1, <2>2, SCAssumption DEF IInv, TypeOK, Block
  <2>4. error'[slot'[r]] => block'[slot'[r]] \in failed'
    BY <1>a, <2>1, <2>2 DEF IInv, Entry, Settled
  <2>5. ~error'[slot'[r]] => data'[slot'[r]] = block'[slot'[r]]
    BY <1>a, <2>1, <2>2 DEF IInv, Entry, Settled
  <2> QED  BY <1>a, <2>3, <2>4, <2>5 DEF Held, Has
<1>2. Held[r] = None  BY DEF Held, Has
<1>3. Held' = [Held EXCEPT ![r] = Held'[r]]
  <2>1. \A q \in Reader \ {r} : Held'[q] = Held[q]  BY KeptIsHeld
  <2>2. Held = [q \in Reader |-> Held[q]] /\ Held' = [q \in Reader |-> Held'[q]]  BY DEF Held
  <2> QED  BY <2>1, <2>2
<1> DEFINE b == (block[slot[r]])'
           d == IF (error[slot[r]])' THEN Error ELSE b
<1>4. b \in Block /\ d \in Block \cup {Error} /\ (d = b \/ (d = Error /\ b \in failed))
  BY <1>1
<1>5. Held' = [Held EXCEPT ![r] = [block |-> b, data |-> d]]  BY <1>1, <1>3
<1> QED  BY <1>a, <1>2, <1>4, <1>5 DEF Blocks!Get

\* A step in which every reader keeps what it has is none, or a failure.
LEMMA StutterImplemented ==
  ASSUME \A q \in Reader : Keeps(q)
  PROVE  Held' = Held
<1>1. \A q \in Reader : Held'[q] = Held[q]  BY KeptIsHeld
<1>2. Held = [q \in Reader |-> Held[q]] /\ Held' = [q \in Reader |-> Held'[q]]  BY DEF Held
<1> QED  BY <1>1, <1>2

LEMMA StepImplemented ==
  IInv /\ IInv' /\ [Next]_vars => [Blocks!Next]_(Blocks!vars)
<1> SUFFICES ASSUME IInv, IInv', [Next]_vars PROVE [Blocks!Next]_(Blocks!vars)  OBVIOUS
<1>a. TypeOK  BY DEF IInv
<1>b. ASSUME failed' = failed, \A q \in Reader : Keeps(q) PROVE [Blocks!Next]_(Blocks!vars)
  BY <1>b, StutterImplemented DEF Blocks!vars
<1>c. ASSUME NEW r \in Reader, ~Has(r), Has(r)', failed' = failed,
             \A q \in Reader \ {r} : Keeps(q)
      PROVE  [Blocks!Next]_(Blocks!vars)
  BY <1>c, GetImplemented DEF Blocks!Next
<1>1. ASSUME NEW r \in Reader, Call(r) \/ Full(r) \/ Sleep(r) \/ Copy(r)
      PROVE  [Blocks!Next]_(Blocks!vars)
  <2>1. UNCHANGED <<block, error, data, slot, failed>>
    BY <1>1 DEF Call, Full, Sleep, Copy, entry
  <2>2. \A q \in Reader : Has(q)' <=> Has(q)
    BY <1>a, <1>1 DEF Call, Full, Enter, Sleep, Copy, Has, TypeOK
  <2> QED  BY <1>b, <2>1, <2>2 DEF Keeps
<1>2. ASSUME NEW r \in Reader, Hit(r) PROVE [Blocks!Next]_(Blocks!vars)
  <2>1. PICK i \in Slot : /\ slot' = [slot EXCEPT ![r] = i]
                          /\ pc' = [pc EXCEPT ![r] = IF pending[i] THEN "await" ELSE "have"]
    BY <1>2 DEF Hit, Cached
  <2>2. UNCHANGED <<block, error, data, failed>> /\ ~Has(r)  BY <1>2 DEF Hit, Enter, Has
  <2>3. \A q \in Reader \ {r} : Keeps(q)  BY <1>a, <2>1, <2>2 DEF Keeps, Has, TypeOK
  <2>4. CASE pending[i]
    <3>1. ~Has(r)'  BY <1>a, <2>1, <2>4 DEF Has, TypeOK
    <3>2. Keeps(r)  BY <2>2, <3>1 DEF Keeps
    <3> QED  BY <1>b, <2>2, <2>3, <3>2
  <2>5. CASE ~pending[i]
    <3>1. Has(r)'  BY <1>a, <2>1, <2>5 DEF Has, TypeOK
    <3> QED  BY <1>c, <2>2, <2>3, <3>1
  <2> QED  BY <2>4, <2>5
<1>3. ASSUME NEW r \in Reader, Claim(r) PROVE [Blocks!Next]_(Blocks!vars)
  <2>1. PICK i \in Slot :
          /\ Free(i) /\ slot' = [slot EXCEPT ![r] = i]
          /\ block' = [block EXCEPT ![i] = want[r]]
          /\ error' = [error EXCEPT ![i] = FALSE] /\ data' = [data EXCEPT ![i] = 0]
    BY <1>3 DEF Claim
  <2>2. pc' = [pc EXCEPT ![r] = "fill"] /\ unused # 0 /\ pc[r] \in {"get", "roused"} /\ failed' = failed
    BY <1>3 DEF Claim, Enter
  <2>3. \A q \in Reader : pc[q] \in Pins => slot[q] # i  BY <2>1, <2>2, ClaimedHasNoHolder
  <2>4. \A j \in Slot : j # i => block'[j] = block[j] /\ error'[j] = error[j] /\ data'[j] = data[j]
    BY <1>a, <2>1 DEF TypeOK
  <2>5. ASSUME NEW q \in Reader PROVE Keeps(q)
    <3>1. CASE q = r  BY <1>a, <2>2, <3>1 DEF Keeps, Has, TypeOK
    <3>2. CASE q # r
      <4>1. pc'[q] = pc[q] /\ slot'[q] = slot[q] /\ slot[q] \in Slot
        BY <1>a, <2>1, <2>2, <3>2 DEF TypeOK
      <4> QED  BY <2>3, <2>4, <4>1 DEF Keeps, Has, Pins
    <3> QED  BY <3>1, <3>2
  <2> QED  BY <1>b, <2>2, <2>5
<1>4. ASSUME NEW r \in Reader, Filled(r) PROVE [Blocks!Next]_(Blocks!vars)
  <2>0. PICK i \in Slot : i = slot[r]  BY <1>a DEF TypeOK
  <2>1. pc[r] = "fill" /\ pc' = [pc EXCEPT ![r] = "fillwake"] /\ UNCHANGED <<block, slot>>
    BY <1>4 DEF Filled
  <2>2. \/ data' = [data EXCEPT ![i] = block[i]] /\ error' = error /\ failed' = failed
        \/ /\ error' = [error EXCEPT ![i] = TRUE] /\ data' = data
           /\ block[i] \in Flaky /\ failed' = failed \cup {block[i]}
    BY <1>4, <2>0 DEF Filled
  <2>3. \A j \in Slot : j # i => error'[j] = error[j] /\ data'[j] = data[j]
    BY <1>a, <2>2 DEF TypeOK
  <2>4. ASSUME NEW q \in Reader PROVE Keeps(q)
    <3>1. CASE q = r  BY <1>a, <2>1, <3>1 DEF Keeps, Has, TypeOK
    <3>2. CASE q # r
      <4>1. pc'[q] = pc[q] /\ slot[q] \in Slot  BY <1>a, <2>1, <3>2 DEF TypeOK
      <4>2. slot[q] = i => pc[q] \notin {"have", "put"}  BY <2>0, <2>1, <3>2, AloneWhileFilling
      <4> QED  BY <2>1, <2>3, <4>1, <4>2 DEF Keeps, Has
    <3> QED  BY <3>1, <3>2
  <2>5. Held' = Held  BY <2>4, StutterImplemented
  <2>6. CASE failed' = failed  BY <2>5, <2>6 DEF Blocks!vars
  <2>7. CASE block[i] \in Flaky /\ failed' = failed \cup {block[i]}
    <3>1. block[i] \in Block  BY <2>7, SCAssumption DEF Block
    <3> QED  BY <2>5, <2>7, <3>1 DEF Blocks!Fails, Blocks!Next
  <2> QED  BY <2>2, <2>6, <2>7
<1>5. ASSUME NEW r \in Reader, FillWake(r) \/ Await(r) PROVE [Blocks!Next]_(Blocks!vars)
  <2>1. UNCHANGED <<block, error, data, slot, failed>> /\ ~Has(r)
    BY <1>5 DEF FillWake, Await, entry, Has
  <2>2. \A q \in Reader \ {r} : Has(q)' <=> Has(q)
    BY <1>a, <1>5 DEF FillWake, Await, Has, TypeOK
  <2>3. \A q \in Reader \ {r} : Keeps(q)  BY <2>1, <2>2 DEF Keeps
  <2>4. CASE Has(r)'  BY <1>c, <2>1, <2>3, <2>4
  <2>5. CASE ~Has(r)'
    <3>1. Keeps(r)  BY <2>1, <2>5 DEF Keeps
    <3> QED  BY <1>b, <2>1, <2>3, <3>1
  <2> QED  BY <2>4, <2>5
<1>6. ASSUME NEW r \in Reader, Put(r) PROVE [Blocks!Next]_(Blocks!vars)
  <2>1. UNCHANGED <<block, error, data, failed>> /\ Has(r)  BY <1>6 DEF Put, Has
  <2>2. ~Has(r)' /\ \A q \in Reader \ {r} : pc'[q] = pc[q] /\ slot'[q] = slot[q]
    BY <1>a, <1>6 DEF Put, After, Has, TypeOK
  <2>3. \A q \in Reader \ {r} : Held'[q] = Held[q]
    BY <2>1, <2>2, KeptIsHeld DEF Keeps, Has
  <2>4. Held'[r] = None  BY <2>2 DEF Held, Has
  <2>5. Held = [q \in Reader |-> Held[q]] /\ Held' = [q \in Reader |-> Held'[q]]  BY DEF Held
  <2>6. Held' = [Held EXCEPT ![r] = None]  BY <2>3, <2>4, <2>5
  <2>7. Held[r] # None  BY <2>1, HeldIsSound
  <2> QED  BY <2>1, <2>6, <2>7 DEF Blocks!Put, Blocks!Next
<1>7. ASSUME NEW r \in Reader, PutWake(r) PROVE [Blocks!Next]_(Blocks!vars)
  <2>1. UNCHANGED <<block, error, data, failed>> /\ slot' = [slot EXCEPT ![r] = 0]
    BY <1>7 DEF PutWake, entry
  <2>2. ~Has(r) /\ ~Has(r)'  BY <1>a, <1>7 DEF PutWake, After, Has, TypeOK
  <2>3. \A q \in Reader \ {r} : (Has(q)' <=> Has(q)) /\ slot'[q] = slot[q]
    BY <1>a, <1>7, <2>1 DEF PutWake, Has, TypeOK
  <2> QED  BY <1>b, <2>1, <2>2, <2>3 DEF Keeps
<1>8. ASSUME UNCHANGED vars PROVE [Blocks!Next]_(Blocks!vars)
  <2>1. UNCHANGED <<block, error, data, slot, pc, failed>>  BY <1>8 DEF vars, entry
  <2> QED  BY <1>b, <2>1 DEF Keeps, Has
<1> QED  BY <1>1, <1>2, <1>3, <1>4, <1>5, <1>6, <1>7, <1>8 DEF Next, Step, Get

\* The cache gives every reader the block it asked for, whole and unchanged from get to
\* put, or an error that a read of this block has met.
THEOREM CacheImplementsBlocks == Spec => BlocksSpec
<1>1. Init => Blocks!Init
  <2> SUFFICES ASSUME Init PROVE Blocks!Init  OBVIOUS
  <2>1. \A r \in Reader : pc[r] \notin {"have", "put"}  BY DEF Init
  <2> QED  BY <2>1 DEF Init, Blocks!Init, Held
<1> QED  BY <1>1, Inductive, StepImplemented, PTL DEF Spec, BlocksSpec, Blocks!Spec

===============================================================================
