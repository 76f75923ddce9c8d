---------------------------- MODULE MCSquashfsFile ----------------------------
(***************************************************************************)
(* File 1 has seven blocks and a tail block, and two blocks between the    *)
(* entries of the meta index; its block 6 is asked for.  File 2 has four   *)
(* blocks, the last a hole, and a fragment, and one block between entries; *)
(* its pages 5 (block 2), 7 (the hole), 8 (the fragment) and 9 (beyond the *)
(* end) are asked for.  File 3 is a symbolic link.                         *)
(***************************************************************************)
EXTENDS SquashfsFile, TLC

MCSize  == (1 :> 31) @@ (2 :> 17) @@ (3 :> 1)
MCHole  == (1 :> {}) @@ (2 :> {3}) @@ (3 :> {})
MCAsked == (1 :> {12, 13}) @@ (2 :> {5, 7, 8, 9}) @@ (3 :> {0})
===============================================================================
