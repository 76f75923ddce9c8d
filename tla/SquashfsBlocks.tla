---------------------------- MODULE SquashfsBlocks ----------------------------
(***************************************************************************)
(* What the squashfs cache promises its readers: between get and put a     *)
(* reader has one block in its hands, whole and unchanged, or an error     *)
(* that some read of that very block has really met.                       *)
(***************************************************************************)
CONSTANTS Reader, Block, Error, None

VARIABLES
  held,    \* what each reader has: nothing, or [block, data]
  failed   \* the blocks a read of which has failed

vars == <<held, failed>>

Init == held = [r \in Reader |-> None] /\ failed = {}

Fails == \E b \in Block : failed' = failed \cup {b} /\ UNCHANGED held

Get(r) ==
  /\ held[r] = None
  /\ \E b \in Block, d \in Block \cup {Error} :
       /\ d = b \/ (d = Error /\ b \in failed)
       /\ held' = [held EXCEPT ![r] = [block |-> b, data |-> d]]
  /\ UNCHANGED failed

Put(r) ==
  /\ held[r] # None
  /\ held' = [held EXCEPT ![r] = None]
  /\ UNCHANGED failed

Next == Fails \/ \E r \in Reader : Get(r) \/ Put(r)

Spec == Init /\ [][Next]_vars
===============================================================================
