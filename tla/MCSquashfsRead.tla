---------------------------- MODULE MCSquashfsRead ----------------------------
(***************************************************************************)
(* The image, on a device with blocks of four bytes:                       *)
(*   a, metadata: its length straddles two of the device's blocks          *)
(*   b, metadata: its marker is the first byte of a device block           *)
(*   c, metadata that is longer than a block of data: its length and       *)
(*      marker end a device block                                          *)
(*   d, data in three device blocks                                        *)
(*   e, a table, not compressed, that is longer than a block of data       *)
(*   f, metadata whose marker is wrong                                     *)
(*   h, data that goes on behind the end of the image                      *)
(***************************************************************************)
EXTENDS SquashfsRead, TLC

MCAt   == "a" :> 3 @@ "b" :> 10 @@ "c" :> 17 @@ "d" :> 29 @@ "e" :> 38 @@ "f" :> 51 @@ "h" :> 56
MCSize == "a" :> 4 @@ "b" :> 3 @@ "c" :> 9 @@ "d" :> 8 @@ "e" :> 13 @@ "f" :> 2 @@ "h" :> 6
MCSrc  == [x \in DOMAIN MCAt |-> IF x \in {"d", "h"} THEN 8 ELSE 16]
===============================================================================
