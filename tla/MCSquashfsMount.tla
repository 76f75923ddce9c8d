---------------------------- MODULE MCSquashfsMount ----------------------------
(***************************************************************************)
(* Four images: version 3 with all tables, a small one with none, 2.1, and *)
(* version 2.0, whose directories are neither sorted nor indexed; and one  *)
(* of version 4, which is refused.  Names 11 and 31 are one inode.         *)
(***************************************************************************)
EXTENDS SquashfsMount, TLC

MCMajor == "v3" :> 3 @@ "v3b" :> 3 @@ "v21" :> 2 @@ "v20" :> 2 @@ "v4" :> 4
MCMinor == "v3" :> 1 @@ "v3b" :> 0 @@ "v21" :> 1 @@ "v20" :> 0 @@ "v4" :> 0
Sorted1 == <<0, 11, 12, 0, 31>>
MCDir   == "v3" :> Sorted1 @@ "v3b" :> <<0, 12>> @@ "v21" :> Sorted1 @@ "v20" :> <<0, 31, 0, 11, 12>> @@ "v4" :> <<>>
MCIndex == "v3" :> <<4>> @@ "v3b" :> <<>> @@ "v21" :> <<4>> @@ "v20" :> <<>> @@ "v4" :> <<>>
MCIno   == 11 :> 1 @@ 12 :> 2 @@ 31 :> 1
MCKind  == 1 :> "fragment" @@ 2 :> "ipc"
===============================================================================
