---------------------------- MODULE MtpGadgetProofs ----------------------------
(***************************************************************************)
(* Proofs about the MTP gadget's scripts, for any number of starts, of     *)
(* faults and of pids: what the state holds, what a host sees of a gadget  *)
(* that is bound, that Android's gadget comes back as it was, and that     *)
(* the UDC is changed under the marker only.                               *)
(*                                                                         *)
(* The argument: which commands belong to which phase of the unit          *)
(* (Phases), what the script's variables and the files say meanwhile       *)
(* (Variables, Recorded), and that nothing is edited while it is bound     *)
(* (Owned), so that the order of the commands alone gives the layout       *)
(* (Ordered, Layout).  Of Android's gadget the files say all that cleanup  *)
(* needs, or nothing has been done to it yet (AndroidNoted); each of its   *)
(* IDs is in the gadget or in a file (AndroidIds); and adb is in it but    *)
(* for the two commands at which the end of bind does harm (AndroidWhole). *)
(* Our own gadget is bound only while the files name it (Luneos).  The pid *)
(* in the marker is none of an older timer's (Covered).                    *)
(***************************************************************************)
EXTENDS MtpGadget, SequenceTheorems, WellFoundedInduction, TLAPS

-------------------------------------------------------------------------------
(* The functions linked in a gadget                                        *)

\* What the links of a gadget can be.
Layouts == {<<>>, <<"adb">>, <<"mtp">>, <<"mtp", "adb">>}

\* Short sequences, entry by entry.
LEMMA Pair ==
  ASSUME NEW a, NEW b
  PROVE  <<a, b>> \in Seq({a, b}) /\ Len(<<a, b>>) = 2 /\ <<a, b>>[1] = a /\ <<a, b>>[2] = b
OBVIOUS

LEMMA One ==
  ASSUME NEW a, NEW b
  PROVE  <<a>> \in Seq({a, b}) /\ Len(<<a>>) = 1 /\ <<a>>[1] = a
OBVIOUS

\* The layouts are four.
LEMMA LayoutsDiffer ==
  /\ <<>> # <<"adb">> /\ <<>> # <<"mtp">> /\ <<>> # <<"mtp", "adb">>
  /\ <<"adb">> # <<"mtp">> /\ <<"adb">> # <<"mtp", "adb">> /\ <<"mtp">> # <<"mtp", "adb">>
  /\ <<"mtp">>[1] = "mtp" /\ <<"mtp", "adb">>[1] = "mtp"
OBVIOUS

\* Appending to a short sequence.
LEMMA AppendOne ==
  ASSUME NEW a
  PROVE  Append(<<>>, a) = <<a>>
OBVIOUS

LEMMA AppendTwo ==
  ASSUME NEW a, NEW b
  PROVE  Append(<<a>>, b) = <<a, b>>
<1> DEFINE S == {a, b}
<1>1. /\ Append(<<a>>, b) \in Seq(S) /\ Len(Append(<<a>>, b)) = 2
      /\ Append(<<a>>, b)[1] = a /\ Append(<<a>>, b)[2] = b
  <2>1. <<a>> \in Seq(S) /\ b \in S
    BY One
  <2>2. /\ Append(<<a>>, b) \in Seq(S)
        /\ Len(Append(<<a>>, b)) = Len(<<a>>) + 1
        /\ \A i \in 1 .. Len(<<a>>) : Append(<<a>>, b)[i] = <<a>>[i]
        /\ Append(<<a>>, b)[Len(<<a>>) + 1] = b
    BY <2>1, AppendProperties, Zenon
  <2> QED
    BY <2>2, One
<1>2. <<a, b>> \in Seq(S) /\ Len(<<a, b>>) = 2 /\ <<a, b>>[1] = a /\ <<a, b>>[2] = b
  BY Pair
<1>3. \A i \in 1 .. 2 : Append(<<a>>, b)[i] = <<a, b>>[i]
  BY <1>1, <1>2
<1> HIDE DEF S
<1> QED
  BY <1>1, <1>2, <1>3, SeqEqual

\* Taking out a name that is there once.
LEMMA RemoveOne ==
  ASSUME NEW l, NEW x, NEW i \in 1 .. Len(l), l[i] = x, \A j \in 1 .. Len(l) : l[j] = x => j = i
  PROVE  RemoveFirst(l, x) = SubSeq(l, 1, i - 1) \o SubSeq(l, i + 1, Len(l))
<1>1. {j \in 1 .. Len(l) : l[j] = x} = {i}
  OBVIOUS
<1>2. Min({i}) = i
  BY DEF Min
<1> QED
  BY <1>1, <1>2 DEF RemoveFirst, RemoveAt, SelectInSeq

\* A piece of one entry.
LEMMA SubSeqOne ==
  ASSUME NEW S, NEW l \in Seq(S), NEW k \in 1 .. Len(l)
  PROVE  SubSeq(l, k, k) = <<l[k]>> /\ SubSeq(l, k, k) \in Seq(S)
<1>1. l[k] \in S /\ k \in Int
  OBVIOUS
<1>2. \A i \in k .. k : l[i] \in S
  BY <1>1
<1>3. /\ SubSeq(l, k, k) \in Seq(S)
      /\ Len(SubSeq(l, k, k)) = 1
      /\ SubSeq(l, k, k)[1] = l[k]
  <2> SUFFICES ASSUME NEW m \in Int, m = k
               PROVE  /\ SubSeq(l, k, m) \in Seq(S)
                      /\ Len(SubSeq(l, k, m)) = 1
                      /\ SubSeq(l, k, m)[1] = l[k]
    BY <1>1
  <2>1. \A i \in k .. m : l[i] \in S
    BY <1>2
  <2>2. /\ SubSeq(l, k, m) \in Seq(S)
        /\ Len(SubSeq(l, k, m)) = IF k <= m THEN m - k + 1 ELSE 0
        /\ \A i \in 1 .. m - k + 1 : SubSeq(l, k, m)[i] = l[k + i - 1]
    BY <1>1, <2>1, SubSeqProperties
  <2> QED
    BY <2>2
<1>5. <<l[k]>> \in Seq(S) /\ Len(<<l[k]>>) = 1 /\ <<l[k]>>[1] = l[k]
  BY <1>1
<1>6. \A i \in 1 .. 1 : SubSeq(l, k, k)[i] = <<l[k]>>[i]
  BY <1>3, <1>5
<1> QED
  BY <1>3, <1>5, <1>6, SeqEqual

\* Taking a name out of each layout that has it, and of those that do not.
LEMMA RemoveOnly ==
  ASSUME NEW a
  PROVE  RemoveFirst(<<a>>, a) = <<>>
<1> DEFINE l == <<a>>
<1>1. Len(l) = 1 /\ l[1] = a
  OBVIOUS
<1>2. \A j \in 1 .. Len(l) : l[j] = a => j = 1
  BY <1>1
<1>3. 1 \in 1 .. Len(l)
  BY <1>1
<1> HIDE DEF l
<1>4. RemoveFirst(l, a) = SubSeq(l, 1, 1 - 1) \o SubSeq(l, 1 + 1, Len(l))
  BY <1>1, <1>2, <1>3, RemoveOne, Zenon
<1>5. SubSeq(l, 1, 1 - 1) = <<>> /\ SubSeq(l, 1 + 1, Len(l)) = <<>>
  BY <1>1, SubSeqEmpty
<1>6. <<>> \o <<>> = <<>>
  OBVIOUS
<1> QED
  BY <1>4, <1>5, <1>6, Zenon DEF l

LEMMA RemoveOfTwo ==
  ASSUME NEW a, NEW b, a # b
  PROVE  RemoveFirst(<<a, b>>, a) = <<b>> /\ RemoveFirst(<<a, b>>, b) = <<a>>
<1> DEFINE l == <<a, b>>
           S == {a, b}
<1>1. l \in Seq(S) /\ Len(l) = 2 /\ l[1] = a /\ l[2] = b
  BY Pair
<1>2. 1 \in 1 .. Len(l) /\ 2 \in 1 .. Len(l)
  BY <1>1
<1> HIDE DEF l, S
<1>3. SubSeq(l, 1, 1) = <<a>> /\ SubSeq(l, 2, 2) = <<b>>
      /\ SubSeq(l, 1, 1) \in Seq(S) /\ SubSeq(l, 2, 2) \in Seq(S)
  BY <1>1, <1>2, SubSeqOne
<1>4. RemoveFirst(l, a) = <<b>>
  <2>1. \A j \in 1 .. Len(l) : l[j] = a => j = 1
    BY <1>1
  <2>2. RemoveFirst(l, a) = SubSeq(l, 1, 1 - 1) \o SubSeq(l, 1 + 1, Len(l))
    BY <1>1, <1>2, <2>1, RemoveOne, Zenon
  <2>3. SubSeq(l, 1, 1 - 1) = <<>>
    BY SubSeqEmpty
  <2>4. 1 + 1 = 2
    OBVIOUS
  <2>5. <<>> \o SubSeq(l, 2, 2) = SubSeq(l, 2, 2)
    BY <1>3, ConcatEmptySeq, Zenon
  <2> QED
    BY <1>1, <1>3, <2>2, <2>3, <2>4, <2>5, Zenon
<1>5. RemoveFirst(l, b) = <<a>>
  <2> SUFFICES ASSUME NEW i \in 1 .. Len(l), i = 2
               PROVE  RemoveFirst(l, b) = <<a>>
    BY <1>2
  <2>1. l[i] = b /\ \A j \in 1 .. Len(l) : l[j] = b => j = i
    BY <1>1
  <2>2. RemoveFirst(l, b) = SubSeq(l, 1, i - 1) \o SubSeq(l, i + 1, Len(l))
    BY <2>1, RemoveOne, Zenon
  <2>3. SubSeq(l, i + 1, Len(l)) = <<>>
    BY <1>1, SubSeqEmpty
  <2>4. i - 1 = 1
    OBVIOUS
  <2>5. SubSeq(l, 1, 1) \o <<>> = SubSeq(l, 1, 1)
    BY <1>3, ConcatEmptySeq, Zenon
  <2> QED
    BY <1>3, <2>2, <2>3, <2>4, <2>5, Zenon
<1> QED
  BY <1>4, <1>5 DEF l

LEMMA RemoveNone ==
  ASSUME NEW l, NEW x, ~Contains(l, x)
  PROVE  RemoveFirst(l, x) = l
BY DEF RemoveFirst, Contains

\* Which functions a layout has, and what the commands make of it.
LEMMA InLayout ==
  ASSUME NEW l \in Layouts
  PROVE  /\ Contains(l, "adb") <=> l \in {<<"adb">>, <<"mtp", "adb">>}
         /\ Contains(l, "mtp") <=> l \in {<<"mtp">>, <<"mtp", "adb">>}
         /\ IsInjective(l) /\ ToSet(l) \subseteq {"adb", "mtp"}
<1>1. CASE l = <<>>
  <2>1. Contains(l, "adb") = FALSE /\ Contains(l, "mtp") = FALSE
    BY <1>1 DEF Contains
  <2>2. IsInjective(l) /\ ToSet(l) \subseteq {"adb", "mtp"}
    BY <1>1 DEF IsInjective, ToSet
  <2> QED
    BY <1>1, <2>1, <2>2, LayoutsDiffer
<1>2. CASE l = <<"adb">>
  <2>1. Contains(l, "adb") = TRUE /\ Contains(l, "mtp") = FALSE
    BY <1>2 DEF Contains
  <2>2. IsInjective(l) /\ ToSet(l) \subseteq {"adb", "mtp"}
    BY <1>2 DEF IsInjective, ToSet
  <2> QED
    BY <1>2, <2>1, <2>2, LayoutsDiffer
<1>3. CASE l = <<"mtp">>
  <2>1. Contains(l, "adb") = FALSE /\ Contains(l, "mtp") = TRUE
    BY <1>3 DEF Contains
  <2>2. IsInjective(l) /\ ToSet(l) \subseteq {"adb", "mtp"}
    BY <1>3 DEF IsInjective, ToSet
  <2> QED
    BY <1>3, <2>1, <2>2, LayoutsDiffer
<1>4. CASE l = <<"mtp", "adb">>
  <2>1. Contains(l, "adb") = TRUE /\ Contains(l, "mtp") = TRUE
    BY <1>4 DEF Contains
  <2>2. IsInjective(l) /\ ToSet(l) \subseteq {"adb", "mtp"}
    BY <1>4 DEF IsInjective, ToSet
  <2> QED
    BY <1>4, <2>1, <2>2, LayoutsDiffer
<1> QED
  BY <1>1, <1>2, <1>3, <1>4 DEF Layouts

LEMMA Relayout ==
  ASSUME NEW l \in Layouts
  PROVE  /\ RemoveFirst(l, "adb") = (IF l \in {<<>>, <<"adb">>} THEN <<>> ELSE <<"mtp">>)
         /\ RemoveFirst(l, "mtp") = (IF l \in {<<>>, <<"mtp">>} THEN <<>> ELSE <<"adb">>)
         /\ l = <<>> => Append(l, "mtp") = <<"mtp">>
         /\ l = <<"mtp">> => Append(l, "adb") = <<"mtp", "adb">>
<1>1. l = <<>> => Append(l, "mtp") = <<"mtp">>
  BY AppendOne
<1>2. l = <<"mtp">> => Append(l, "adb") = <<"mtp", "adb">>
  BY AppendTwo
<1>3. RemoveFirst(<<"adb">>, "adb") = <<>> /\ RemoveFirst(<<"mtp">>, "mtp") = <<>>
  BY RemoveOnly
<1>4. /\ RemoveFirst(<<"mtp", "adb">>, "mtp") = <<"adb">>
      /\ RemoveFirst(<<"mtp", "adb">>, "adb") = <<"mtp">>
  BY RemoveOfTwo
<1>5. /\ ~Contains(l, "adb") => RemoveFirst(l, "adb") = l
      /\ ~Contains(l, "mtp") => RemoveFirst(l, "mtp") = l
  BY RemoveNone
<1>6. l = <<>> \/ l = <<"adb">> \/ l = <<"mtp">> \/ l = <<"mtp", "adb">>
  BY DEF Layouts
<1> QED
  BY <1>1, <1>2, <1>3, <1>4, <1>5, <1>6, InLayout, LayoutsDiffer

\* The fresh pid of a script is a pid.
LEMMA MinOfNat ==
  ASSUME NEW S, S \subseteq Nat, S # {}
  PROVE  Min(S) \in S
<1> DEFINE R == OpToRel(<, Nat)
<1>1. IsWellFoundedOn(R, Nat)
  BY NatLessThanWellFounded
<1> HIDE DEF R
<1>2. \E x \in S : \A y \in S : ~(<<y, x>> \in R)
  BY <1>1, WFMin, Zenon
<1>3. PICK x \in S : \A y \in S : ~(y < x)
  BY <1>2, Zenon DEF R, OpToRel
<1>4. \A y \in S : x <= y
  BY <1>3
<1> QED
  BY <1>4 DEF Min

-------------------------------------------------------------------------------
(* The invariant                                                           *)

Opt(S)   == S \cup {None}
Locals   == [gadget : Opt(Gadget), config : Opt(Gadget), udc : Opt({"udc"}),
             mode : Opt({"halium", "mainline"}), adb : BOOLEAN, tries : 0 .. 4, busy : BOOLEAN]
Vendors  == {"old", "mtp"}
Products == {"old", "mtp", "mtp+adb"}
Contents == Gadget \cup Products \cup {"udc", "halium", "mainline", "adb"}
Timers   == [tok : Opt(Token), at : {"set", "mine", "rmdir"}, bg : BOOLEAN]

Typed ==
  /\ {halium, want, own, mounted, dir, raced} \subseteq BOOLEAN
  /\ s \in Locals
  /\ links \in [Gadget -> Layouts]
  /\ ids \in [Gadget -> [vendor : Vendors, product : Products]]
  /\ file \in [File -> Opt(Contents)]
  /\ file["gadget"] \in Opt(Gadget) /\ file["config"] \in Opt(Gadget)
  /\ file["udc"] \in Opt({"udc"})
  /\ file["mode"] \in Opt({"halium", "mainline"}) /\ file["adb_links"] \in Opt({"adb"})
  /\ file["idVendor"] \in Opt(Vendors) /\ file["idProduct"] \in Opt(Products)
  /\ timers \subseteq Timers /\ harmed \subseteq {"gadget", "marker"}

\* Which commands belong to which phase of the unit.
Found     == {"gadget", "config", "udc", "function", "mount"}
Preparing == {"mkdir", "find"} \cup Found
Noting    == {"adb_links", "idVendor", "idProduct", "vendor", "product"}
Relinking == {"adb", "link", "relink"} \cup Noting
Undoing   == {"unlink", "umount", "rmdir", "rm_gadget", "restore_vendor", "restore_product"}
Edits     == Relinking \cup Undoing \cup {"bind"}
Marked    == {"unbind", "forget", "release"} \cup Edits
Informed  == {"hold", "unbind"} \cup Edits
Places(u) ==
  CASE u = "start_pre"  -> Preparing
    [] u = "start_post" -> {"read", "hold", "unbind", "bind", "release"} \cup Relinking
    [] u = "stop_post"  ->
         {"none", "read_back", "hold", "unbind", "bind", "forget", "release"} \cup Undoing
    [] OTHER            -> {"none"}
Phases ==
  /\ pc \in Places(unit)
  /\ umtprd = "ready" => unit \in {"start_post", "running", "stop_post"}

\* What the script's variables say; while the UDC is edited they are what the files say.
Variables ==
  /\ pc \in {"none", "mkdir", "find", "read", "read_back"} => s = NoVars
  /\ pc \in Found => s.gadget = (IF bound # None THEN bound ELSE "luneos")
  /\ unit # "start_post" => ~s.adb
  /\ pc \in Informed \cup {"forget"} => s.gadget # None
  /\ pc \in Informed =>
       /\ s.gadget = file["gadget"] /\ s.config = file["config"]
       /\ s.udc = file["udc"] /\ s.mode = file["mode"]

\* The files are written one after the other, and those of a run that was killed stay.
Recorded ==
  /\ file["udc"] # None => file["config"] # None
  /\ file["config"] # None => file["gadget"] # None
  /\ file["gadget"] # None => file["mode"] # None
  /\ pc \in Found /\ dir => file["mode"] = IF bound # None THEN "halium" ELSE "mainline"
  /\ pc \in Found \ {"gadget"} /\ dir => file["gadget"] = s.gadget
  /\ pc \in Found \ {"gadget", "config"} /\ dir => file["config"] = s.gadget
  /\ pc \in {"function", "mount"} /\ dir => file["udc"] = "udc"
  /\ unit \in {"start", "start_post", "running"} /\ file["gadget"] # None =>
       file["config"] = file["gadget"] /\ file["udc"] = "udc"

\* A gadget that is bound is the one that was found, and nothing is edited under the UDC.
Owned ==
  /\ bound # None => {file["gadget"], file["config"]} \subseteq {None, bound}
  /\ bound = "luneos" => own
  /\ file["config"] \notin {None, file["gadget"]} => bound = None /\ file["mode"] = "mainline"
  /\ pc \in Informed => IsDir(s.gadget)
  /\ pc \in Edits => bound = None
  /\ unit = "stop_post" /\ pc \in {"restore_vendor", "restore_product", "bind"} => s.mode = "halium"

\* How far the links and the IDs have come.
Ordered ==
  /\ pc = "link" => links[s.config] \in {<<>>, <<"mtp">>}
  /\ pc = "relink" => links[s.config] = <<"mtp">>
  /\ unit = "start_post" /\ pc \in Noting \cup {"bind"} =>
       links[s.config] = IF s.adb THEN <<"mtp", "adb">> ELSE <<"mtp">>
  /\ unit = "start_post" /\ pc \in (Noting \ {"adb_links"}) \cup {"bind"} =>
       file["adb_links"] = IF s.adb THEN "adb" ELSE None
  /\ unit = "start_post" /\ pc \in {"product", "bind"} => ids[s.gadget].vendor = "mtp"
  /\ unit = "start_post" /\ pc = "bind" =>
       ids[s.gadget].product = IF s.adb THEN "mtp+adb" ELSE "mtp"
  /\ unit = "stop_post" /\ pc \in (Undoing \ {"unlink"}) \cup {"bind"} =>
       (s.config # None => links[s.config] \in {<<>>, <<"adb">>})

-------------------------------------------------------------------------------
(* Types                                                                   *)

\* What the assumptions say of the sets of values.
LEMMA Constants ==
  /\ None \notin Token /\ None \notin {"android", "luneos", "udc", "halium", "mainline", "adb"}
  /\ None \notin Vendors \cup Products /\ Token \subseteq Nat
BY MGAssumption DEF Token, Vendors, Products

\* The first state is typed.
LEMMA TypedInit == Init => Typed
<1> SUFFICES ASSUME Init PROVE Typed
  OBVIOUS
<1>1. NoVars \in Locals
  BY DEF NoVars, Locals, Opt
<1>2. links \in [Gadget -> Layouts]
  BY DEF Init, Layouts, Gadget
<1>3. ids \in [Gadget -> [vendor : Vendors, product : Products]]
  BY DEF Init, Old, Mtp, Vendors, Products
<1> QED
  BY <1>1, <1>2, <1>3 DEF Init, Typed, Opt, File, Contents

\* What a command does to the variables, the files, the links and the IDs keeps their types.
LEMMA LinksStep ==
  ASSUME Typed, NEW g \in Gadget, NEW l \in Layouts, links' = [links EXCEPT ![g] = l]
  PROVE  links' \in [Gadget -> Layouts]
BY DEF Typed

LEMMA IdsVendor ==
  ASSUME Typed, NEW g \in Gadget, NEW v \in Vendors, ids' = [ids EXCEPT ![g]["vendor"] = v]
  PROVE  /\ ids' \in [Gadget -> [vendor : Vendors, product : Products]]
         /\ ids'[g].vendor = v /\ ids'[g].product = ids[g].product
         /\ \A h \in Gadget \ {g} : ids'[h] = ids[h]
BY DEF Typed

LEMMA IdsProduct ==
  ASSUME Typed, NEW g \in Gadget, NEW p \in Products, ids' = [ids EXCEPT ![g]["product"] = p]
  PROVE  /\ ids' \in [Gadget -> [vendor : Vendors, product : Products]]
         /\ ids'[g].vendor = ids[g].vendor /\ ids'[g].product = p
         /\ \A h \in Gadget \ {g} : ids'[h] = ids[h]
BY DEF Typed

LEMMA WriteStep ==
  ASSUME Typed, NEW f \in File, NEW c \in Opt(Contents), Write(f, c)
  PROVE  /\ file' \in [File -> Opt(Contents)]
         /\ file'[f] = (IF dir THEN c ELSE file[f])
         /\ \A g \in File : g # f => file'[g] = file[g]
BY DEF Typed, Write

\* What lies in the files is what can be written.
LEMMA FileContents ==
  ASSUME Typed
  PROVE  /\ Opt(Gadget) \subseteq Opt(Contents)
         /\ {"udc", "halium", "mainline", "adb", None} \subseteq Opt(Contents)
         /\ Opt(Vendors) \subseteq Opt(Contents) /\ Opt(Products) \subseteq Opt(Contents)
         /\ {"gadget", "config", "udc", "mode", "idVendor", "idProduct", "adb_links"} = File
BY DEF Opt, Contents, Vendors, Products, File

\* The steps of Notes, SetIds and RestoreIds, by name.
NoteGadget     == Note("gadget", s.gadget, "config")
NoteConfig     == Note("config", s.gadget, "udc")
NoteUdc        == Note("udc", "udc", "function")
SetVendor      == Ids("vendor", "vendor", "mtp", "product")
SetProduct     ==
  Ids("product", "product", IF file["adb_links"] = "adb" THEN "mtp+adb" ELSE "mtp", "bind")
RestoreVendor  == Ids("restore_vendor", "vendor", Saved("idVendor", "vendor"), "restore_product")
RestoreProduct == Ids("restore_product", "product", Saved("idProduct", "product"), "bind")

\* What a step is.
LEMMA Steps ==
  ASSUME [Next]_vars
  PROVE
    \/ MakeState \/ Find \/ NoteGadget \/ NoteConfig \/ NoteUdc \/ MakeFunction
    \/ MountFfs \/ ReadState \/ Hold \/ Unbind \/ TakeAdb \/ LinkMtp
    \/ LinkAdb \/ NoteAdb \/ SaveVendor \/ SaveProduct \/ SetVendor \/ SetProduct
    \/ Bind \/ BindAgain \/ BindFails \/ Release \/ ReadBack \/ UnlinkMtp
    \/ UnmountFfs \/ RemoveFunction \/ RemoveGadget \/ RestoreVendor \/ RestoreProduct \/ Forget
    \/ Start \/ Restart \/ Ready \/ StopPost \/ Crash \/ Stop
    \/ Kill \/ (\E t \in timers : TimerTests(t)) \/ (\E t \in timers : TimerRemoves(t))
    \/ (\E t \in timers : TimerRmdir(t))
    \/ UNCHANGED vars
BY DEF NoteGadget, NoteConfig, NoteUdc, SetVendor, SetProduct, RestoreVendor, RestoreProduct,
       Next, Script, Systemd, Prepare, Notes, DoBind, SetIds, Cleanup, RestoreIds, TimerStep

\* Which commands change what.
LEMMA Effects ==
  ASSUME [Next]_vars
  PROVE  /\ links' = links \/ TakeAdb \/ LinkMtp \/ LinkAdb \/ UnlinkMtp
         /\ ids' = ids \/ Find \/ SetVendor \/ SetProduct \/ RestoreVendor \/ RestoreProduct
         /\ \/ file' = file \/ Find \/ NoteGadget \/ NoteConfig \/ NoteUdc
            \/ NoteAdb \/ SaveVendor \/ SaveProduct \/ ReadBack \/ Forget
         /\ dir' = dir \/ MakeState \/ Hold \/ (\E t \in timers : TimerRmdir(t)) \/ ReadBack
         /\ marker' = marker \/ Hold \/ BindFails \/ (\E t \in timers : TimerRemoves(t)) \/ ReadBack
         /\ \/ timers' = timers \/ Release \/ StopPost
            \/ (\E t \in timers : TimerTests(t)) \/ (\E t \in timers : TimerRemoves(t))
            \/ (\E t \in timers : TimerRmdir(t))
         /\ bound' = bound \/ Unbind \/ Bind \/ StopPost \/ Crash
         /\ harmed' = harmed \/ BindFails \/ Release \/ Stop \/ Kill
         /\ own' = own \/ Find \/ RemoveGadget
         /\ func' = func \/ MakeFunction \/ RemoveFunction
         /\ raced' = raced \/ Hold
         /\ want' = want \/ Start \/ Stop
         /\ mounted' = mounted \/ MountFfs \/ UnmountFfs
         /\ halium' = halium
         /\ umtprd' = umtprd \/ Ready \/ StopPost \/ Crash
<1> USE DEF At, To, Set, history, unitvars, usbvars, runvars
<1>1. CASE MakeState
  BY <1>1 DEF MakeState
<1>2. CASE Find
  BY <1>2 DEF Find, Fault, NoFault, Die, Exit, Write
<1>3. CASE NoteGadget
  BY <1>3 DEF NoteGadget, Note, Write
<1>4. CASE NoteConfig
  BY <1>4 DEF NoteConfig, Note, Write
<1>5. CASE NoteUdc
  BY <1>5 DEF NoteUdc, Note, Write
<1>6. CASE MakeFunction
  BY <1>6 DEF MakeFunction, HasFunction, Fault, NoFault, Die, Exit
<1>7. CASE MountFfs
  BY <1>7 DEF MountFfs, Exit, Fault, NoFault, Die
<1>8. CASE ReadState
  BY <1>8 DEF ReadState, NoFault, Die, Exit, Read
<1>9. CASE Hold
  BY <1>9 DEF Hold
<1>10. CASE Unbind
  BY <1>10 DEF Unbind
<1>11. CASE TakeAdb
  BY <1>11 DEF TakeAdb, Relink, TakeOut
<1>12. CASE LinkMtp
  BY <1>12 DEF LinkMtp, Relink, Link
<1>13. CASE LinkAdb
  BY <1>13 DEF LinkAdb, Relink, Link
<1>14. CASE NoteAdb
  BY <1>14 DEF NoteAdb, Note, Write
<1>15. CASE SaveVendor
  BY <1>15 DEF SaveVendor, Write
<1>16. CASE SaveProduct
  BY <1>16 DEF SaveProduct, Note, Write
<1>17. CASE SetVendor
  BY <1>17 DEF SetVendor, Ids
<1>18. CASE SetProduct
  BY <1>18 DEF SetProduct, Ids
<1>19. CASE Bind
  BY <1>19 DEF Bind, Binding, NoFault
<1>20. CASE BindAgain
  BY <1>20 DEF BindAgain, Refused, Fault, NoFault
<1>21. CASE BindFails
  BY <1>21 DEF BindFails, Refused, Fault, NoFault, Binding, Die, Exit
<1>22. CASE Release
  BY <1>22 DEF Release, Fault, NoFault, Binding, Exit, Rest, Timer
<1>23. CASE ReadBack
  BY <1>23 DEF ReadBack, Exit, Rest, Read
<1>24. CASE UnlinkMtp
  BY <1>24 DEF UnlinkMtp, Relink
<1>25. CASE UnmountFfs
  BY <1>25 DEF UnmountFfs
<1>26. CASE RemoveFunction
  BY <1>26 DEF RemoveFunction
<1>27. CASE RemoveGadget
  BY <1>27 DEF RemoveGadget
<1>28. CASE RestoreVendor
  BY <1>28 DEF RestoreVendor, Ids, Saved
<1>29. CASE RestoreProduct
  BY <1>29 DEF RestoreProduct, Ids, Saved
<1>30. CASE Forget
  BY <1>30 DEF Forget
<1>31. CASE Start
  BY <1>31 DEF Start, Begin
<1>32. CASE Restart
  BY <1>32 DEF Restart, Begin
<1>33. CASE Ready
  BY <1>33 DEF Ready, Begin
<1>34. CASE StopPost
  BY <1>34 DEF StopPost, Gone, Begin
<1>35. CASE Crash
  BY <1>35 DEF Crash, Fault, Gone
<1>36. CASE Stop
  BY <1>36 DEF Stop, Die, Exit
<1>37. CASE Kill
  BY <1>37 DEF Kill, Fault, NoFault, Die, Exit, Rest
<1>38. CASE \E t \in timers : TimerTests(t)
  BY <1>38 DEF TimerTests, Fire
<1>39. CASE \E t \in timers : TimerRemoves(t)
  BY <1>39 DEF TimerRemoves, Fire
<1>40. CASE \E t \in timers : TimerRmdir(t)
  BY <1>40 DEF TimerRmdir, Fire
<1>41. CASE UNCHANGED vars
  BY <1>41 DEF vars
<1> QED
  BY <1>1, <1>2, <1>3, <1>4, <1>5, <1>6, <1>7, <1>8, <1>9, <1>10, <1>11, <1>12, <1>13, <1>14,
     <1>15, <1>16, <1>17, <1>18, <1>19, <1>20, <1>21, <1>22, <1>23, <1>24, <1>25, <1>26, <1>27,
     <1>28, <1>29, <1>30, <1>31, <1>32, <1>33, <1>34, <1>35, <1>36, <1>37, <1>38, <1>39, <1>40,
     <1>41, Steps

\* What a command makes of the script's variables.
LEMMA LocalsSteps ==
  ASSUME s \in Locals
  PROVE  /\ NoVars \in Locals
         /\ NoVars.gadget = None /\ NoVars.config = None /\ NoVars.udc = None /\ NoVars.mode = None
         /\ ~NoVars.adb /\ NoVars.tries = 0
         /\ \A g \in Opt(Gadget) :
              /\ [s EXCEPT !.gadget = g] \in Locals
              /\ [s EXCEPT !.gadget = g].gadget = g /\ [s EXCEPT !.gadget = g].adb = s.adb
         /\ \A b \in BOOLEAN :
              /\ [s EXCEPT !.adb = b] \in Locals /\ [s EXCEPT !.adb = b].adb = b
              /\ [s EXCEPT !.adb = b].gadget = s.gadget /\ [s EXCEPT !.adb = b].config = s.config
              /\ [s EXCEPT !.adb = b].udc = s.udc /\ [s EXCEPT !.adb = b].mode = s.mode
<1>1. /\ NoVars \in Locals
      /\ NoVars.gadget = None /\ NoVars.config = None /\ NoVars.udc = None /\ NoVars.mode = None
      /\ ~NoVars.adb /\ NoVars.tries = 0
  BY DEF NoVars, Locals, Opt
<1>2. ASSUME NEW g \in Opt(Gadget)
      PROVE  /\ [s EXCEPT !.gadget = g] \in Locals
             /\ [s EXCEPT !.gadget = g].gadget = g /\ [s EXCEPT !.gadget = g].adb = s.adb
  BY DEF Locals
<1>3. ASSUME NEW b \in BOOLEAN
      PROVE  /\ [s EXCEPT !.adb = b] \in Locals /\ [s EXCEPT !.adb = b].adb = b
             /\ [s EXCEPT !.adb = b].gadget = s.gadget /\ [s EXCEPT !.adb = b].config = s.config
             /\ [s EXCEPT !.adb = b].udc = s.udc /\ [s EXCEPT !.adb = b].mode = s.mode
  BY DEF Locals
<1> QED
  BY <1>1, <1>2, <1>3, Zenon

LEMMA LocalsTries ==
  ASSUME Typed, BindAgain
  PROVE  /\ s' \in Locals /\ s'.gadget = s.gadget /\ s'.config = s.config
         /\ s'.udc = s.udc /\ s'.mode = s.mode /\ s'.adb = s.adb
<1>1. /\ s' = [s EXCEPT !.tries = s.tries + 1, !.busy = CanBind(s.gadget)] /\ s.tries < 4
      /\ CanBind(s.gadget) \in BOOLEAN /\ s \in Locals
  BY DEF BindAgain, Set, CanBind, Typed
<1>2. s.tries + 1 \in 0 .. 4
  BY <1>1 DEF Locals
<1>3. PICK n \in 0 .. 4, b \in BOOLEAN : s' = [s EXCEPT !.tries = n, !.busy = b]
  BY <1>1, <1>2, Zenon
<1> QED
  BY <1>1, <1>3 DEF Locals

LEMMA LocalsRead ==
  ASSUME Typed
  PROVE  /\ Read \in Locals /\ Read.adb = s.adb /\ Read.tries = s.tries
         /\ Read.gadget = file["gadget"] /\ Read.config = file["config"]
         /\ Read.udc = file["udc"] /\ Read.mode = file["mode"]
<1>1. s \in Locals
  BY DEF Typed
<1>2. /\ file["gadget"] \in Opt(Gadget) /\ file["config"] \in Opt(Gadget)
      /\ file["udc"] \in Opt({"udc"}) /\ file["mode"] \in Opt({"halium", "mainline"})
  BY DEF Typed
<1> QED
  BY <1>1, <1>2 DEF Read, Locals

\* s changes in these ways only.
LEMMA LocalsEffect ==
  ASSUME [Next]_vars
  PROVE  \/ s' = s
         \/ s' = NoVars /\ pc' = "none"
         \/ Find /\ pc' = "gadget"
         \/ ReadState /\ pc' = "hold"
         \/ ReadBack /\ pc' = "hold"
         \/ TakeAdb \/ BindAgain
<1> USE DEF At, To, Set, history, unitvars, usbvars, runvars
<1>1. CASE MakeState
  BY <1>1 DEF MakeState
<1>2. CASE Find
  BY <1>2 DEF Find, Fault, NoFault, Die, Exit, Write
<1>3. CASE NoteGadget
  BY <1>3 DEF NoteGadget, Note, Write
<1>4. CASE NoteConfig
  BY <1>4 DEF NoteConfig, Note, Write
<1>5. CASE NoteUdc
  BY <1>5 DEF NoteUdc, Note, Write
<1>6. CASE MakeFunction
  BY <1>6 DEF MakeFunction, HasFunction, Fault, NoFault, Die, Exit
<1>7. CASE MountFfs
  BY <1>7 DEF MountFfs, Exit, Fault, NoFault, Die
<1>8. CASE ReadState
  BY <1>8 DEF ReadState, NoFault, Die, Exit, Read
<1>9. CASE Hold
  BY <1>9 DEF Hold
<1>10. CASE Unbind
  BY <1>10 DEF Unbind
<1>11. CASE TakeAdb
  BY <1>11 DEF TakeAdb, Relink, TakeOut
<1>12. CASE LinkMtp
  BY <1>12 DEF LinkMtp, Relink, Link
<1>13. CASE LinkAdb
  BY <1>13 DEF LinkAdb, Relink, Link
<1>14. CASE NoteAdb
  BY <1>14 DEF NoteAdb, Note, Write
<1>15. CASE SaveVendor
  BY <1>15 DEF SaveVendor, Write
<1>16. CASE SaveProduct
  BY <1>16 DEF SaveProduct, Note, Write
<1>17. CASE SetVendor
  BY <1>17 DEF SetVendor, Ids
<1>18. CASE SetProduct
  BY <1>18 DEF SetProduct, Ids
<1>19. CASE Bind
  BY <1>19 DEF Bind, Binding, NoFault
<1>20. CASE BindAgain
  BY <1>20 DEF BindAgain, Refused, Fault, NoFault
<1>21. CASE BindFails
  BY <1>21 DEF BindFails, Refused, Fault, NoFault, Binding, Die, Exit
<1>22. CASE Release
  BY <1>22 DEF Release, Fault, NoFault, Binding, Exit, Rest, Timer
<1>23. CASE ReadBack
  BY <1>23 DEF ReadBack, Exit, Rest, Read
<1>24. CASE UnlinkMtp
  BY <1>24 DEF UnlinkMtp, Relink
<1>25. CASE UnmountFfs
  BY <1>25 DEF UnmountFfs
<1>26. CASE RemoveFunction
  BY <1>26 DEF RemoveFunction
<1>27. CASE RemoveGadget
  BY <1>27 DEF RemoveGadget
<1>28. CASE RestoreVendor
  BY <1>28 DEF RestoreVendor, Ids, Saved
<1>29. CASE RestoreProduct
  BY <1>29 DEF RestoreProduct, Ids, Saved
<1>30. CASE Forget
  BY <1>30 DEF Forget
<1>31. CASE Start
  BY <1>31 DEF Start, Begin
<1>32. CASE Restart
  BY <1>32 DEF Restart, Begin
<1>33. CASE Ready
  BY <1>33 DEF Ready, Begin
<1>34. CASE StopPost
  BY <1>34 DEF StopPost, Gone, Begin
<1>35. CASE Crash
  BY <1>35 DEF Crash, Fault, Gone
<1>36. CASE Stop
  BY <1>36 DEF Stop, Die, Exit
<1>37. CASE Kill
  BY <1>37 DEF Kill, Fault, NoFault, Die, Exit, Rest
<1>38. CASE \E t \in timers : TimerTests(t)
  BY <1>38 DEF TimerTests, Fire
<1>39. CASE \E t \in timers : TimerRemoves(t)
  BY <1>39 DEF TimerRemoves, Fire
<1>40. CASE \E t \in timers : TimerRmdir(t)
  BY <1>40 DEF TimerRmdir, Fire
<1>41. CASE UNCHANGED vars
  BY <1>41 DEF vars
<1> QED
  BY <1>1, <1>2, <1>3, <1>4, <1>5, <1>6, <1>7, <1>8, <1>9, <1>10, <1>11, <1>12, <1>13, <1>14,
     <1>15, <1>16, <1>17, <1>18, <1>19, <1>20, <1>21, <1>22, <1>23, <1>24, <1>25, <1>26, <1>27,
     <1>28, <1>29, <1>30, <1>31, <1>32, <1>33, <1>34, <1>35, <1>36, <1>37, <1>38, <1>39, <1>40,
     <1>41, Steps

LEMMA LocalsTyped ==
  ASSUME TypeOK, Typed, [Next]_vars
  PROVE  s' \in Locals
<1>1. s \in Locals
  BY DEF Typed
<1>2. CASE s' = s \/ s' = NoVars
  BY <1>1, <1>2, LocalsSteps
<1>3. CASE Find /\ pc' = "gadget"
  <2>1. bound \in Opt(Gadget)
    BY DEF TypeOK, Opt
  <2>2. s' \in {[s EXCEPT !.gadget = bound], [s EXCEPT !.gadget = "luneos"]}
    BY <1>3 DEF Find, Set, To, Die, Exit
  <2> QED
    BY <1>1, <2>1, <2>2, LocalsSteps DEF Opt, Gadget
<1>4. CASE (ReadState \/ ReadBack) /\ pc' = "hold"
  <2>1. s' = Read
    BY <1>4 DEF ReadState, ReadBack, Set, To, Die, Exit
  <2> QED
    BY <2>1, LocalsRead
<1>5. CASE TakeAdb
  <2>1. s' = [s EXCEPT !.adb = Linked("adb", s.config)] /\ Linked("adb", s.config) \in BOOLEAN
    BY <1>5 DEF TakeAdb, Set, Linked, Contains
  <2> QED
    BY <1>1, <2>1, LocalsSteps
<1>6. CASE BindAgain
  BY <1>6, LocalsTries
<1> QED
  BY <1>2, <1>3, <1>4, <1>5, <1>6, LocalsEffect

\* A script that is past its reading knows its gadget, and bind its configuration and UDC.
LEMMA InScript ==
  ASSUME Typed, Phases, Variables, Recorded
  PROVE  /\ pc \in Informed \cup {"forget"} \cup Found => s.gadget \in Gadget
         /\ unit = "start_post" /\ pc \in Informed =>
              s.config = s.gadget /\ s.udc = "udc"
         /\ pc \in Relinking => unit = "start_post"
         /\ pc \in Undoing \cup {"read_back", "forget"} => unit = "stop_post"
         /\ pc \in Preparing => unit = "start_pre"
<1>1. s \in Locals
  BY DEF Typed
<1>2. s.gadget \in Opt(Gadget)
  BY <1>1 DEF Locals
<1>3. pc \in Informed \cup {"forget"} => s.gadget # None
  BY DEF Variables
<1>4. pc \in Found => s.gadget # None
  BY Constants DEF Variables, Opt, Gadget
<1>5. unit = "start_post" /\ pc \in Informed => s.config = s.gadget /\ s.udc = "udc"
  BY <1>3 DEF Variables, Recorded
<1>6. /\ pc \in Relinking => unit = "start_post"
      /\ pc \in Undoing \cup {"read_back", "forget"} => unit = "stop_post"
      /\ pc \in Preparing => unit = "start_pre"
  BY DEF Phases, Places, Preparing, Found, Relinking, Noting, Undoing
<1> QED
  BY <1>2, <1>3, <1>4, <1>5, <1>6 DEF Opt

LEMMA LinksTyped ==
  ASSUME Typed, Phases, Variables, Recorded, Ordered, [Next]_vars
  PROVE  links' \in [Gadget -> Layouts]
<1>1. links \in [Gadget -> Layouts]
  BY DEF Typed
<1>2. /\ <<>> \in Layouts /\ <<"adb">> \in Layouts /\ <<"mtp">> \in Layouts
      /\ <<"mtp", "adb">> \in Layouts
  BY DEF Layouts
<1>3. CASE links' = links
  BY <1>1, <1>3
<1>4. CASE TakeAdb
  <2>1. /\ s.config \in Gadget
        /\ links' = [links EXCEPT ![s.config] = RemoveFirst(links[s.config], "adb")]
    BY <1>4, InScript DEF TakeAdb, At, Relink, TakeOut, Informed, Edits, Relinking
  <2>2. RemoveFirst(links[s.config], "adb") \in Layouts
    BY <1>1, <1>2, <2>1, Relayout
  <2> QED
    BY <1>1, <2>1, <2>2
<1>5. CASE LinkMtp
  <2>1. s.config \in Gadget /\ links' = [links EXCEPT ![s.config] = Link(s.config, "mtp")]
    BY <1>5, InScript DEF LinkMtp, At, Relink, Informed, Edits, Relinking
  <2>2. links[s.config] \in {<<>>, <<"mtp">>}
    BY <1>5 DEF LinkMtp, At, Ordered
  <2>3. Link(s.config, "mtp") = <<"mtp">>
    BY <2>2, InLayout, Relayout, LayoutsDiffer DEF Link, Linked, Layouts
  <2> QED
    BY <1>1, <1>2, <2>1, <2>3
<1>6. CASE LinkAdb
  <2>1. s.config \in Gadget
        /\ links' = [links EXCEPT ![s.config] =
                        IF s.adb THEN Link(s.config, "adb") ELSE links[s.config]]
    BY <1>6, InScript DEF LinkAdb, At, Relink, Informed, Edits, Relinking
  <2>2. links[s.config] = <<"mtp">>
    BY <1>6 DEF LinkAdb, At, Ordered
  <2>3. Link(s.config, "adb") \in Layouts
    BY <1>2, <2>2, InLayout, Relayout, LayoutsDiffer DEF Link, Linked
  <2> QED
    BY <1>1, <2>1, <2>3
<1>7. CASE UnlinkMtp
  <2>1. CASE s.config = None
    BY <1>1, <1>7, <2>1 DEF UnlinkMtp
  <2>2. CASE s.config # None
    <3>1. s.config \in Gadget
      BY <2>2 DEF Typed, Locals, Opt
    <3>2. links' = [links EXCEPT ![s.config] = RemoveFirst(links[s.config], "mtp")]
      BY <1>7, <2>2 DEF UnlinkMtp, Relink
    <3>3. RemoveFirst(links[s.config], "mtp") \in Layouts
      BY <1>1, <1>2, <3>1, Relayout
    <3> QED
      BY <1>1, <3>1, <3>2, <3>3
  <2> QED
    BY <2>1, <2>2
<1> QED
  BY <1>3, <1>4, <1>5, <1>6, <1>7, Effects

LEMMA IdsTyped ==
  ASSUME Typed, Phases, Variables, Recorded, [Next]_vars
  PROVE  ids' \in [Gadget -> [vendor : Vendors, product : Products]]
<1>1. /\ {"old", "mtp"} = Vendors /\ {"old", "mtp", "mtp+adb"} = Products
      /\ file["idVendor"] \in Opt(Vendors) /\ file["idProduct"] \in Opt(Products)
      /\ ids \in [Gadget -> [vendor : Vendors, product : Products]]
  BY DEF Vendors, Products, Typed
<1>2. pc \in {"vendor", "product", "restore_vendor", "restore_product"} => s.gadget \in Gadget
  BY InScript DEF Informed, Edits, Relinking, Noting, Undoing
<1>3. CASE ids' = ids
  BY <1>1, <1>3
<1>4. CASE Find
  BY <1>1, <1>4 DEF Find, Mtp, Gadget
<1>5. CASE SetVendor
  BY <1>1, <1>2, <1>5, IdsVendor DEF SetVendor, Ids, At
<1>6. CASE SetProduct
  BY <1>1, <1>2, <1>6, IdsProduct DEF SetProduct, Ids, At
<1>7. CASE RestoreVendor
  <2>1. s.gadget \in Gadget
    BY <1>2, <1>7 DEF RestoreVendor, Ids, At
  <2>2. Saved("idVendor", "vendor") \in Vendors
    BY <1>1, <2>1 DEF Saved, Opt
  <2> QED
    BY <1>1, <1>7, <2>1, <2>2, IdsVendor DEF RestoreVendor, Ids
<1>8. CASE RestoreProduct
  <2>1. s.gadget \in Gadget
    BY <1>2, <1>8 DEF RestoreProduct, Ids, At
  <2>2. Saved("idProduct", "product") \in Products
    BY <1>1, <2>1 DEF Saved, Opt
  <2> QED
    BY <1>1, <1>8, <2>1, <2>2, IdsProduct DEF RestoreProduct, Ids
<1> QED
  BY <1>3, <1>4, <1>5, <1>6, <1>7, <1>8, Effects

FilesTyped ==
  /\ file \in [File -> Opt(Contents)]
  /\ file["gadget"] \in Opt(Gadget) /\ file["config"] \in Opt(Gadget)
  /\ file["udc"] \in Opt({"udc"})
  /\ file["mode"] \in Opt({"halium", "mainline"}) /\ file["adb_links"] \in Opt({"adb"})
  /\ file["idVendor"] \in Opt(Vendors) /\ file["idProduct"] \in Opt(Products)

LEMMA FilesTypedNext ==
  ASSUME TypeOK, Typed, Phases, Variables, Recorded, [Next]_vars
  PROVE  FilesTyped'
<1>1. FilesTyped
  BY DEF Typed, FilesTyped
<1>2. /\ Opt(Gadget) \subseteq Opt(Contents)
      /\ {"udc", "halium", "mainline", "adb", None} \subseteq Opt(Contents)
      /\ Opt(Vendors) \subseteq Opt(Contents) /\ Opt(Products) \subseteq Opt(Contents)
      /\ {"gadget", "config", "udc", "mode", "idVendor", "idProduct", "adb_links"} = File
  BY FileContents
<1>3. /\ None \in Opt({"udc"}) /\ None \in Opt({"adb"}) /\ "udc" \in Opt({"udc"})
      /\ "adb" \in Opt({"adb"})
      /\ "halium" \in Opt({"halium", "mainline"}) /\ "mainline" \in Opt({"halium", "mainline"})
  BY DEF Opt
<1>4. CASE file' = file
  BY <1>1, <1>4 DEF FilesTyped
<1>5. CASE file' = [f \in File |-> None]
  BY <1>2, <1>5 DEF FilesTyped, Opt
<1>6. CASE Find
  <2>1. \E c \in {"halium", "mainline"} : Write("mode", c)
    BY <1>6 DEF Find
  <2> QED
    BY <1>1, <1>2, <1>3, <2>1, WriteStep DEF FilesTyped
<1>7. CASE NoteGadget \/ NoteConfig
  <2>1. s.gadget \in Opt(Gadget)
    BY DEF Typed, Locals
  <2>2. Write("gadget", s.gadget) \/ Write("config", s.gadget)
    BY <1>7 DEF NoteGadget, NoteConfig, Note
  <2> QED
    BY <1>1, <1>2, <2>1, <2>2, WriteStep DEF FilesTyped
<1>8. CASE NoteUdc
  <2>1. Write("udc", "udc")
    BY <1>8 DEF NoteUdc, Note
  <2> QED
    BY <1>1, <1>2, <1>3, <2>1, WriteStep DEF FilesTyped
<1>9. CASE NoteAdb
  <2>1. \E c \in {"adb", None} : Write("adb_links", c)
    BY <1>9 DEF NoteAdb, Note
  <2> QED
    BY <1>1, <1>2, <1>3, <2>1, WriteStep DEF FilesTyped
<1>10. CASE SaveVendor \/ SaveProduct
  <2>1. s.gadget \in Gadget
    BY <1>10, InScript DEF SaveVendor, SaveProduct, Note, At, Informed, Edits, Relinking, Noting
  <2>2. ids[s.gadget].vendor \in Opt(Vendors) /\ ids[s.gadget].product \in Opt(Products)
    BY <2>1 DEF Typed, Opt
  <2>3. \/ Write("idVendor", ids[s.gadget].vendor)
        \/ Write("idProduct", ids[s.gadget].product)
        \/ file' = file
    BY <1>10 DEF SaveVendor, SaveProduct, Note
  <2> QED
    BY <1>1, <1>2, <1>4, <2>2, <2>3, WriteStep DEF FilesTyped
<1>11. CASE ReadBack \/ Forget
  <2>1. file' = file \/ file' = [f \in File |-> None]
    BY <1>11 DEF ReadBack, Forget, runvars
  <2> QED
    BY <1>4, <1>5, <2>1
<1> QED
  BY <1>4, <1>6, <1>7, <1>8, <1>9, <1>10, <1>11, Effects

LEMMA MarkerTyped ==
  ASSUME TypeOK, [Next]_vars
  PROVE  marker' \in Opt(Token)
<1>1. CASE Hold
  <2>1. Token \ Used # {} /\ marker' = Min(Token \ Used)
    BY <1>1 DEF Hold
  <2>2. Token \ Used \subseteq Nat
    BY Constants
  <2> QED
    BY <2>1, <2>2, MinOfNat DEF Opt
<1>2. CASE marker' = marker \/ BindFails \/ ReadBack \/ \E t \in timers : TimerRemoves(t)
  BY <1>2 DEF TypeOK, Opt, BindFails, ReadBack, TimerRemoves, runvars
<1> QED
  BY <1>1, <1>2, Effects

LEMMA TimersTyped ==
  ASSUME TypeOK, Typed, [Next]_vars
  PROVE  timers' \subseteq Timers
<1>1. timers \subseteq Timers
  BY DEF Typed
<1>2. CASE timers' = timers \/ StopPost
  BY <1>1, <1>2 DEF StopPost
<1>3. CASE Release
  <2>1. \A b \in BOOLEAN : Timer(b) \in Timers
    BY DEF Timer, Timers, TypeOK, Opt
  <2>2. timers' \subseteq timers \cup {Timer(TRUE), Timer(FALSE)}
    BY <1>3 DEF Release
  <2> QED
    BY <1>1, <2>1, <2>2
<1>4. CASE \E t \in timers : TimerTests(t) \/ TimerRemoves(t) \/ TimerRmdir(t)
  <2>1. PICK t \in timers : TimerTests(t) \/ TimerRemoves(t) \/ TimerRmdir(t)
    BY <1>4
  <2>2. \A a \in {"mine", "rmdir"} : [t EXCEPT !.at = a] \in Timers
    BY <1>1, <2>1 DEF Timers
  <2>3. timers' \subseteq timers \cup {[t EXCEPT !.at = "mine"], [t EXCEPT !.at = "rmdir"]}
    BY <2>1 DEF TimerTests, TimerRemoves, TimerRmdir, Fire
  <2> QED
    BY <1>1, <2>2, <2>3
<1> QED
  BY <1>2, <1>3, <1>4, Effects

LEMMA FlagsTyped ==
  ASSUME Typed, [Next]_vars
  PROVE  /\ {halium', want', own', mounted', dir', raced'} \subseteq BOOLEAN
         /\ harmed' \subseteq {"gadget", "marker"}
<1> USE DEF Typed
<1>1. halium' \in BOOLEAN /\ want' \in BOOLEAN /\ own' \in BOOLEAN /\ mounted' \in BOOLEAN
  BY Effects DEF Find, RemoveGadget, Start, Stop, MountFfs, UnmountFfs
<1>2. dir' \in BOOLEAN /\ raced' \in BOOLEAN
  BY Effects DEF MakeState, Hold, TimerRmdir, ReadBack, runvars
<1>3. harmed' \subseteq {"gadget", "marker"}
  BY Effects DEF BindFails, Release, Stop, Kill, Harm
<1> QED
  BY <1>1, <1>2, <1>3

\* Types are kept.
LEMMA TypedNext ==
  ASSUME TypeOK, Typed, Phases, Variables, Recorded, Ordered, [Next]_vars
  PROVE  Typed'
<1>1. s' \in Locals
  BY LocalsTyped
<1>2. links' \in [Gadget -> Layouts]
  BY LinksTyped
<1>3. ids' \in [Gadget -> [vendor : Vendors, product : Products]]
  BY IdsTyped
<1>4. FilesTyped'
  BY FilesTypedNext
<1>5. timers' \subseteq Timers
  BY TimersTyped
<1>6. /\ {halium', want', own', mounted', dir', raced'} \subseteq BOOLEAN
      /\ harmed' \subseteq {"gadget", "marker"}
  BY FlagsTyped
<1> QED
  BY <1>1, <1>2, <1>3, <1>4, <1>5, <1>6 DEF Typed, FilesTyped

-------------------------------------------------------------------------------
(* Phases, and the rest of the types                                       *)

Units == {"dead", "start_pre", "start", "start_post", "running", "stop_post", "wait"}

\* The service of umtprd runs scripts only from where it is told to.
LEMMA PhasesNext ==
  ASSUME TypeOK, Phases, [Next]_vars
  PROVE  unit' \in Units /\ Phases' /\ (umtprd' = "ready" /\ pc' # "none" => unit' = "start_post")
<1> DEFINE Running == umtprd = "ready" /\ pc # "none" => unit = "start_post"
<1>a. unit \in Units /\ umtprd \in {"off", "ready"} /\ Running
  BY DEF TypeOK, Units
<1> USE <1>a DEF Phases, Places, Preparing, Found, Relinking, Noting, Undoing, Units
<1> USE DEF At, To, Set, history, unitvars, usbvars, runvars
<1>1. CASE MakeState
  BY <1>1 DEF MakeState
<1>2. CASE Find
  BY <1>2 DEF Find, Fault, NoFault, Die, Exit, Write
<1>3. CASE NoteGadget
  BY <1>3 DEF NoteGadget, Note, Write
<1>4. CASE NoteConfig
  BY <1>4 DEF NoteConfig, Note, Write
<1>5. CASE NoteUdc
  BY <1>5 DEF NoteUdc, Note, Write
<1>6. CASE MakeFunction
  BY <1>6 DEF MakeFunction, HasFunction, Fault, NoFault, Die, Exit
<1>7. CASE MountFfs
  BY <1>7 DEF MountFfs, Exit, Fault, NoFault, Die
<1>8. CASE ReadState
  BY <1>8 DEF ReadState, NoFault, Die, Exit, Read
<1>9. CASE Hold
  BY <1>9 DEF Hold
<1>10. CASE Unbind
  BY <1>10 DEF Unbind
<1>11. CASE TakeAdb
  BY <1>11 DEF TakeAdb, Relink, TakeOut
<1>12. CASE LinkMtp
  BY <1>12 DEF LinkMtp, Relink, Link
<1>13. CASE LinkAdb
  BY <1>13 DEF LinkAdb, Relink, Link
<1>14. CASE NoteAdb
  BY <1>14 DEF NoteAdb, Note, Write
<1>15. CASE SaveVendor
  BY <1>15 DEF SaveVendor, Write
<1>16. CASE SaveProduct
  BY <1>16 DEF SaveProduct, Note, Write
<1>17. CASE SetVendor
  BY <1>17 DEF SetVendor, Ids
<1>18. CASE SetProduct
  BY <1>18 DEF SetProduct, Ids
<1>19. CASE Bind
  BY <1>19 DEF Bind, Binding, NoFault
<1>20. CASE BindAgain
  BY <1>20 DEF BindAgain, Refused, Fault, NoFault
<1>21. CASE BindFails
  BY <1>21 DEF BindFails, Refused, Fault, NoFault, Binding, Die, Exit
<1>22. CASE Release
  BY <1>22 DEF Release, Fault, NoFault, Binding, Exit, Rest, Timer
<1>23. CASE ReadBack
  BY <1>23 DEF ReadBack, Exit, Rest, Read
<1>24. CASE UnlinkMtp
  BY <1>24 DEF UnlinkMtp, Relink
<1>25. CASE UnmountFfs
  BY <1>25 DEF UnmountFfs
<1>26. CASE RemoveFunction
  BY <1>26 DEF RemoveFunction
<1>27. CASE RemoveGadget
  BY <1>27 DEF RemoveGadget
<1>28. CASE RestoreVendor
  BY <1>28 DEF RestoreVendor, Ids, Saved
<1>29. CASE RestoreProduct
  BY <1>29 DEF RestoreProduct, Ids, Saved
<1>30. CASE Forget
  BY <1>30 DEF Forget
<1>31. CASE Start
  BY <1>31 DEF Start, Begin
<1>32. CASE Restart
  BY <1>32 DEF Restart, Begin
<1>33. CASE Ready
  BY <1>33 DEF Ready, Begin
<1>34. CASE StopPost
  BY <1>34 DEF StopPost, Gone, Begin
<1>35. CASE Crash
  BY <1>35 DEF Crash, Fault, Gone
<1>36. CASE Stop
  BY <1>36 DEF Stop, Die, Exit
<1>37. CASE Kill
  BY <1>37 DEF Kill, Fault, NoFault, Die, Exit, Rest
<1>38. CASE \E t \in timers : TimerTests(t)
  BY <1>38 DEF TimerTests, Fire
<1>39. CASE \E t \in timers : TimerRemoves(t)
  BY <1>39 DEF TimerRemoves, Fire
<1>40. CASE \E t \in timers : TimerRmdir(t)
  BY <1>40 DEF TimerRmdir, Fire
<1>41. CASE UNCHANGED vars
  BY <1>41 DEF vars
<1> QED
  BY <1>1, <1>2, <1>3, <1>4, <1>5, <1>6, <1>7, <1>8, <1>9, <1>10, <1>11, <1>12, <1>13, <1>14,
     <1>15, <1>16, <1>17, <1>18, <1>19, <1>20, <1>21, <1>22, <1>23, <1>24, <1>25, <1>26, <1>27,
     <1>28, <1>29, <1>30, <1>31, <1>32, <1>33, <1>34, <1>35, <1>36, <1>37, <1>38, <1>39, <1>40,
     <1>41, Steps

\* What the UDC and the function are bound to, and umtprd.
LEMMA UsbTyped ==
  ASSUME TypeOK, Typed, Phases, Variables, Recorded, [Next]_vars
  PROVE  /\ bound' \in Gadget \cup {None} /\ func' \in Gadget \cup {None}
         /\ umtprd' \in {"off", "ready"}
<1>1. bound \in Gadget \cup {None} /\ func \in Gadget \cup {None} /\ umtprd \in {"off", "ready"}
  BY DEF TypeOK
<1>2. pc \in {"bind", "function"} => s.gadget \in Gadget
  BY InScript DEF Informed, Edits, Found
<1>3. bound' \in Gadget \cup {None}
  <2>1. CASE bound' = bound \/ Unbind \/ StopPost \/ Crash
    BY <1>1, <2>1 DEF Unbind, StopPost, Crash, Gone
  <2>2. CASE Bind
    BY <1>2, <2>2 DEF Bind, At
  <2> QED
    BY <2>1, <2>2, Effects
<1>4. func' \in Gadget \cup {None}
  <2>1. CASE func' = func \/ RemoveFunction
    BY <1>1, <2>1 DEF RemoveFunction
  <2>2. CASE MakeFunction
    BY <1>1, <1>2, <2>2 DEF MakeFunction, At
  <2> QED
    BY <2>1, <2>2, Effects
<1>5. umtprd' \in {"off", "ready"}
  BY <1>1, Effects DEF Ready, StopPost, Crash, Gone
<1> QED
  BY <1>3, <1>4, <1>5

\* Without the directory there is nothing in it.
LEMMA EmptyNext ==
  ASSUME TypeOK, [Next]_vars, ~dir'
  PROVE  marker' = None /\ \A f \in File : file'[f] = None
<1>1. CASE ~dir
  <2>1. marker = None /\ \A f \in File : file[f] = None
    BY <1>1 DEF TypeOK
  <2>2. ~Hold
    BY DEF Hold
  <2>3. marker' = None
    BY <2>1, <2>2, Effects DEF BindFails, TimerRemoves, ReadBack, runvars
  <2>4. file' = file \/ file' = [f \in File |-> None]
    BY <1>1, Effects DEF Find, NoteGadget, NoteConfig, NoteUdc, NoteAdb, SaveVendor, SaveProduct,
       Note,
                         Write, ReadBack, Forget, runvars
  <2> QED
    BY <2>1, <2>3, <2>4
<1>2. CASE dir
  <2>1. ReadBack \/ \E t \in timers : TimerRmdir(t)
    BY <1>2, Effects DEF MakeState, Hold
  <2>2. CASE ReadBack
    BY <1>2, <2>2 DEF ReadBack, runvars
  <2>3. CASE \E t \in timers : TimerRmdir(t)
    BY <1>2, <2>3 DEF TimerRmdir
  <2> QED
    BY <2>1, <2>2, <2>3
<1> QED
  BY <1>1, <1>2

\* The type invariant is kept.
LEMMA TypeOKNext ==
  ASSUME TypeOK, Typed, Phases, Variables, Recorded, Ordered, [Next]_vars
  PROVE  TypeOK'
<1>1. unit' \in Units /\ Phases' /\ (umtprd' = "ready" /\ pc' # "none" => unit' = "start_post")
  BY PhasesNext
<1>2. unit' \in {"dead", "start", "running", "wait"} => pc' = "none"
  BY <1>1 DEF Phases, Places
<1>3. bound' \in Gadget \cup {None} /\ func' \in Gadget \cup {None} /\ umtprd' \in {"off", "ready"}
  BY UsbTyped
<1>4. \A g \in Gadget : IsInjective(links'[g]) /\ ToSet(links'[g]) \subseteq {"adb", "mtp"}
  <2>1. \A g \in Gadget : links'[g] \in Layouts
    BY LinksTyped
  <2> QED
    BY <2>1, InLayout, Zenon
<1>5. marker' \in Token \cup {None}
  BY MarkerTyped DEF Opt
<1>6. s'.tries \in 0 .. 4
  BY LocalsTyped DEF Locals
<1>7. ~dir' => (marker' = None /\ \A f \in File : file'[f] = None)
  BY EmptyNext
<1> QED
  BY <1>1, <1>2, <1>3, <1>4, <1>5, <1>6, <1>7 DEF TypeOK, Units

\* The variables are what was found, or what was read.
LEMMA VariablesNext ==
  ASSUME TypeOK, Typed, Phases, Variables, Recorded, [Next]_vars
  PROVE  Variables'
<1> USE DEF Variables, Phases, Places, Preparing, Found, Relinking, Noting, Undoing, Informed,
        Edits, At, To, Set, history, unitvars, usbvars, runvars
<1>a. /\ s \in Locals /\ bound \in Opt(Gadget) /\ unit \in Units /\ None \notin Gadget
      /\ (umtprd = "ready" /\ pc # "none" => unit = "start_post")
  BY Constants DEF Typed, TypeOK, Opt, Units, Gadget
<1>b. /\ NoVars.gadget = None /\ NoVars.config = None /\ NoVars.udc = None /\ NoVars.mode = None
     /\ ~NoVars.adb
  BY <1>a, LocalsSteps
<1> USE <1>a, <1>b DEF Units
<1>1. CASE MakeState
  BY <1>1 DEF MakeState
<1>2. CASE Find
  <2>1. CASE pc' = "gadget"
    <3>1. /\ s' = [s EXCEPT !.gadget = IF bound # None THEN bound ELSE "luneos"] /\ bound' = bound
          /\ s = NoVars
      BY <1>2, <2>1 DEF Variables, Find, Fault, NoFault, Die, Exit, Write
    <3>2. s'.gadget = (IF bound # None THEN bound ELSE "luneos") /\ ~s'.adb
      BY <1>a, <1>b, <3>1, LocalsSteps DEF Opt, Gadget
    <3> QED
      BY <2>1, <3>1, <3>2 DEF Variables
  <2>2. CASE pc' = "none" /\ s' = NoVars
    BY <2>2 DEF Variables
  <2> QED
    BY <1>2, <2>1, <2>2 DEF Find, Fault, NoFault, Die, Exit, Write
<1>3. CASE NoteGadget
  BY <1>3 DEF NoteGadget, Note, Write
<1>4. CASE NoteConfig
  BY <1>4 DEF NoteConfig, Note, Write
<1>5. CASE NoteUdc
  BY <1>5 DEF NoteUdc, Note, Write
<1>6. CASE MakeFunction
  BY <1>6 DEF MakeFunction, HasFunction, Fault, NoFault, Die, Exit
<1>7. CASE MountFfs
  BY <1>7 DEF MountFfs, Exit, Fault, NoFault, Die
<1>8. CASE ReadState
  <2>1. CASE /\ s' = Read /\ pc' = "hold" /\ file' = file /\ IsDir(file["gadget"])
                /\ unit' = unit /\ s = NoVars
    BY <1>8, <2>1, LocalsRead, Constants DEF Variables, IsDir
  <2>2. CASE pc' = "none" /\ s' = NoVars
    BY <2>2 DEF Variables
  <2> QED
    BY <1>8, <2>1, <2>2 DEF ReadState, NoFault, Die, Exit, Read
<1>9. CASE Hold
  BY <1>9 DEF Hold
<1>10. CASE Unbind
  BY <1>10 DEF Unbind
<1>11. CASE TakeAdb
  <2>1. s' = [s EXCEPT !.adb = Linked("adb", s.config)] /\ Linked("adb", s.config) \in BOOLEAN
        /\ pc' = "link" /\ file' = file /\ pc = "adb" /\ unit' = unit
    BY <1>11 DEF TakeAdb, Linked, Contains
  <2>2. /\ s'.gadget = s.gadget /\ s'.config = s.config /\ s'.udc = s.udc /\ s'.mode = s.mode
    BY <1>a, <2>1, LocalsSteps
  <2> QED
    BY <2>1, <2>2 DEF Variables
<1>12. CASE LinkMtp
  BY <1>12 DEF LinkMtp, Relink, Link
<1>13. CASE LinkAdb
  BY <1>13 DEF LinkAdb, Relink, Link
<1>14. CASE NoteAdb
  <2>1. \A f \in File \ {"adb_links"} : file'[f] = file[f]
    BY <1>14, WriteStep, FileContents DEF NoteAdb, Note, Write
  <2> QED
    BY <1>14, <2>1 DEF Variables, File, NoteAdb, Note
<1>15. CASE SaveVendor
  <2>1. \A f \in File \ {"idVendor"} : file'[f] = file[f]
    BY <1>15, WriteStep, FileContents DEF Typed, SaveVendor, Write
  <2> QED
    BY <1>15, <2>1 DEF File, SaveVendor
<1>16. CASE SaveProduct
  BY <1>16 DEF SaveProduct, Note, Write
<1>17. CASE SetVendor
  BY <1>17 DEF SetVendor, Ids
<1>18. CASE SetProduct
  BY <1>18 DEF SetProduct, Ids
<1>19. CASE Bind
  BY <1>19 DEF Bind, Binding, NoFault
<1>20. CASE BindAgain
  <2>1. pc' = pc /\ file' = file /\ pc = "bind" /\ unit' = unit
    BY <1>20 DEF BindAgain, Refused
  <2>2. /\ s'.gadget = s.gadget /\ s'.config = s.config /\ s'.udc = s.udc /\ s'.mode = s.mode
        /\ s'.adb = s.adb
    BY <1>20, LocalsTries
  <2> QED
    BY <2>1, <2>2 DEF Variables
<1>21. CASE BindFails
  BY <1>21 DEF BindFails, Refused, Fault, NoFault, Binding, Die, Exit
<1>22. CASE Release
  BY <1>22 DEF Release, Fault, NoFault, Binding, Exit, Rest, Timer
<1>23. CASE ReadBack
  <2>1. CASE /\ s' = Read /\ pc' = "hold" /\ file' = file /\ IsDir(file["gadget"])
                /\ unit' = unit /\ s = NoVars
    BY <1>23, <2>1, LocalsRead, Constants DEF Variables, IsDir
  <2>2. CASE pc' = "none" /\ s' = NoVars
    BY <2>2 DEF Variables
  <2> QED
    BY <1>23, <2>1, <2>2 DEF ReadBack, Exit, Rest, Read
<1>24. CASE UnlinkMtp
  BY <1>24 DEF UnlinkMtp, Relink
<1>25. CASE UnmountFfs
  BY <1>25 DEF UnmountFfs
<1>26. CASE RemoveFunction
  BY <1>26 DEF RemoveFunction
<1>27. CASE RemoveGadget
  BY <1>27 DEF RemoveGadget
<1>28. CASE RestoreVendor
  BY <1>28 DEF RestoreVendor, Ids, Saved
<1>29. CASE RestoreProduct
  BY <1>29 DEF RestoreProduct, Ids, Saved
<1>30. CASE Forget
  BY <1>30 DEF Forget
<1>31. CASE Start
  BY <1>31 DEF Start, Begin
<1>32. CASE Restart
  BY <1>32 DEF Restart, Begin
<1>33. CASE Ready
  BY <1>33 DEF Ready, Begin
<1>34. CASE StopPost
  BY <1>34 DEF StopPost, Gone, Begin
<1>35. CASE Crash
  BY <1>35 DEF Crash, Fault, Gone
<1>36. CASE Stop
  BY <1>36 DEF Stop, Die, Exit
<1>37. CASE Kill
  BY <1>37 DEF Kill, Fault, NoFault, Die, Exit, Rest
<1>38. CASE \E t \in timers : TimerTests(t)
  BY <1>38 DEF TimerTests, Fire
<1>39. CASE \E t \in timers : TimerRemoves(t)
  BY <1>39 DEF TimerRemoves, Fire
<1>40. CASE \E t \in timers : TimerRmdir(t)
  BY <1>40 DEF TimerRmdir, Fire
<1>41. CASE UNCHANGED vars
  BY <1>41 DEF vars
<1> QED
  BY <1>1, <1>2, <1>3, <1>4, <1>5, <1>6, <1>7, <1>8, <1>9, <1>10, <1>11, <1>12, <1>13, <1>14,
     <1>15, <1>16, <1>17, <1>18, <1>19, <1>20, <1>21, <1>22, <1>23, <1>24, <1>25, <1>26, <1>27,
     <1>28, <1>29, <1>30, <1>31, <1>32, <1>33, <1>34, <1>35, <1>36, <1>37, <1>38, <1>39, <1>40,
     <1>41, Steps

\* A file is there only with those before it.
LEMMA RecordedNext ==
  ASSUME TypeOK, Typed, Phases, Variables, Recorded, [Next]_vars
  PROVE  Recorded'
<1> USE DEF Recorded, Phases, Places, Preparing, Found, Relinking, Noting, Undoing, At, To, Set,
        history, unitvars, usbvars, runvars
<1>a. /\ s \in Locals /\ bound \in Opt(Gadget) /\ unit \in Units /\ None \notin Gadget
      /\ (umtprd = "ready" /\ pc # "none" => unit = "start_post")
      /\ None \notin {"halium", "mainline", "udc"}
      /\ (~dir => \A f \in File : file[f] = None)
  BY Constants DEF Typed, TypeOK, Opt, Units, Gadget
<1>b. {"gadget", "config", "udc", "mode", "idVendor", "idProduct", "adb_links"} = File
  BY FileContents
<1> USE <1>a, <1>b DEF Units
<1>1. CASE MakeState
  BY <1>1 DEF MakeState
<1>2. CASE Find
  <2>1. /\ file'["mode"] = (IF ~dir THEN file["mode"]
                             ELSE IF bound # None THEN "halium" ELSE "mainline")
        /\ \A f \in File : f # "mode" => file'[f] = file[f]
    BY <1>2, WriteStep, FileContents DEF Find
  <2>2. CASE pc' = "gadget"
    <3>1. bound' = bound /\ dir' = dir /\ unit' = unit /\ pc = "find"
      BY <1>2, <2>2 DEF Find, Fault, NoFault, Die, Exit, Write
    <3> QED
      BY <2>1, <2>2, <3>1
  <2>3. CASE pc' = "none" /\ unit' = "stop_post"
    BY <2>1, <2>3
  <2> QED
    BY <1>2, <2>2, <2>3 DEF Find, Fault, NoFault, Die, Exit, Write
<1>3. CASE NoteGadget
  <2>1. /\ file'["gadget"] = (IF dir THEN s.gadget ELSE file["gadget"])
        /\ \A f \in File : f # "gadget" => file'[f] = file[f]
    BY <1>3, WriteStep, FileContents, InScript DEF NoteGadget, Note, Write, Opt, Contents
  <2>2. s.gadget # None
    BY <1>3, InScript DEF NoteGadget, Note, Write
  <2> QED
    BY <1>3, <2>1, <2>2 DEF NoteGadget, Note, Write
<1>4. CASE NoteConfig
  <2>1. /\ file'["config"] = (IF dir THEN s.gadget ELSE file["config"])
        /\ \A f \in File : f # "config" => file'[f] = file[f]
    BY <1>4, WriteStep, FileContents, InScript DEF NoteConfig, Note, Write, Opt, Contents
  <2>2. s.gadget # None
    BY <1>4, InScript DEF NoteConfig, Note, Write
  <2> QED
    BY <1>4, <2>1, <2>2 DEF NoteConfig, Note, Write
<1>5. CASE NoteUdc
  <2>1. /\ file'["udc"] = (IF dir THEN "udc" ELSE file["udc"])
        /\ \A f \in File : f # "udc" => file'[f] = file[f]
    BY <1>5, WriteStep, FileContents, InScript DEF NoteUdc, Note, Write, Opt, Contents
  <2>2. s.gadget # None
    BY <1>5, InScript DEF NoteUdc, Note, Write
  <2> QED
    BY <1>5, <2>1, <2>2 DEF NoteUdc, Note, Write
<1>6. CASE MakeFunction
  BY <1>6 DEF MakeFunction, HasFunction, Fault, NoFault, Die, Exit
<1>7. CASE MountFfs
  BY <1>7 DEF MountFfs, Exit, Fault, NoFault, Die
<1>8. CASE ReadState
  BY <1>8 DEF ReadState, NoFault, Die, Exit, Read
<1>9. CASE Hold
  BY <1>9 DEF Hold
<1>10. CASE Unbind
  BY <1>10 DEF Unbind
<1>11. CASE TakeAdb
  BY <1>11 DEF TakeAdb, Relink, TakeOut
<1>12. CASE LinkMtp
  BY <1>12 DEF LinkMtp, Relink, Link
<1>13. CASE LinkAdb
  BY <1>13 DEF LinkAdb, Relink, Link
<1>14. CASE NoteAdb
  BY <1>14 DEF NoteAdb, Note, Write
<1>15. CASE SaveVendor
  <2>1. \A f \in File \ {"idVendor"} : file'[f] = file[f]
    BY <1>15, WriteStep, FileContents DEF Typed, SaveVendor, Write
  <2> QED
    BY <1>15, <2>1 DEF SaveVendor
<1>16. CASE SaveProduct
  BY <1>16 DEF SaveProduct, Note, Write
<1>17. CASE SetVendor
  BY <1>17 DEF SetVendor, Ids
<1>18. CASE SetProduct
  BY <1>18 DEF SetProduct, Ids
<1>19. CASE Bind
  BY <1>19 DEF Bind, Binding, NoFault
<1>20. CASE BindAgain
  BY <1>20 DEF BindAgain, Refused, Fault, NoFault
<1>21. CASE BindFails
  BY <1>21 DEF BindFails, Refused, Fault, NoFault, Binding, Die, Exit
<1>22. CASE Release
  BY <1>22 DEF Release, Fault, NoFault, Binding, Exit, Rest, Timer
<1>23. CASE ReadBack
  BY <1>23 DEF ReadBack, Exit, Rest, Read
<1>24. CASE UnlinkMtp
  BY <1>24 DEF UnlinkMtp, Relink
<1>25. CASE UnmountFfs
  BY <1>25 DEF UnmountFfs
<1>26. CASE RemoveFunction
  BY <1>26 DEF RemoveFunction
<1>27. CASE RemoveGadget
  BY <1>27 DEF RemoveGadget
<1>28. CASE RestoreVendor
  BY <1>28 DEF RestoreVendor, Ids, Saved
<1>29. CASE RestoreProduct
  BY <1>29 DEF RestoreProduct, Ids, Saved
<1>30. CASE Forget
  BY <1>30 DEF Forget
<1>31. CASE Start
  BY <1>31 DEF Start, Begin
<1>32. CASE Restart
  BY <1>32 DEF Restart, Begin
<1>33. CASE Ready
  BY <1>33 DEF Ready, Begin
<1>34. CASE StopPost
  BY <1>34 DEF StopPost, Gone, Begin
<1>35. CASE Crash
  BY <1>35 DEF Crash, Fault, Gone
<1>36. CASE Stop
  BY <1>36 DEF Stop, Die, Exit
<1>37. CASE Kill
  BY <1>37 DEF Kill, Fault, NoFault, Die, Exit, Rest
<1>38. CASE \E t \in timers : TimerTests(t)
  BY <1>38 DEF TimerTests, Fire
<1>39. CASE \E t \in timers : TimerRemoves(t)
  BY <1>39 DEF TimerRemoves, Fire
<1>40. CASE \E t \in timers : TimerRmdir(t)
  BY <1>40 DEF TimerRmdir, Fire
<1>41. CASE UNCHANGED vars
  BY <1>41 DEF vars
<1> QED
  BY <1>1, <1>2, <1>3, <1>4, <1>5, <1>6, <1>7, <1>8, <1>9, <1>10, <1>11, <1>12, <1>13, <1>14,
     <1>15, <1>16, <1>17, <1>18, <1>19, <1>20, <1>21, <1>22, <1>23, <1>24, <1>25, <1>26, <1>27,
     <1>28, <1>29, <1>30, <1>31, <1>32, <1>33, <1>34, <1>35, <1>36, <1>37, <1>38, <1>39, <1>40,
     <1>41, Steps

\* A gadget is bound only when all that is known is about it.
LEMMA OwnedNext ==
  ASSUME TypeOK, Typed, Phases, Variables, Recorded, Owned, [Next]_vars
  PROVE  Owned'
<1> USE DEF Owned, IsDir, Phases, Places, Preparing, Found, Relinking, Noting, Undoing, Edits,
        Informed, At, To, Set, history, unitvars, usbvars, runvars
<1>a. /\ s \in Locals /\ bound \in Opt(Gadget) /\ unit \in Units /\ None \notin Gadget
      /\ (umtprd = "ready" /\ pc # "none" => unit = "start_post")
      /\ None \notin {"halium", "mainline", "udc", "android", "luneos"}
      /\ (~dir => \A f \in File : file[f] = None)
  BY Constants DEF Typed, TypeOK, Opt, Units, Gadget
<1>b. {"gadget", "config", "udc", "mode", "idVendor", "idProduct", "adb_links"} = File
  BY FileContents
<1> USE <1>a, <1>b DEF Units
<1>1. CASE MakeState
  BY <1>1 DEF MakeState
<1>2. CASE Find
  BY <1>2 DEF Find, Fault, NoFault, Die, Exit, Write
<1>3. CASE NoteGadget
  <2>1. /\ file'["gadget"] = (IF dir THEN s.gadget ELSE file["gadget"])
        /\ \A f \in File : f # "gadget" => file'[f] = file[f]
    BY <1>3, WriteStep, FileContents, InScript DEF NoteGadget, Note, Write, Opt, Contents
  <2>2. s.gadget # None
    BY <1>3, InScript DEF NoteGadget, Note, Write
  <2> QED
    BY <1>3, <2>1, <2>2 DEF NoteGadget, Note, Write, Variables, Recorded, IsDir
<1>4. CASE NoteConfig
  <2>1. /\ file'["config"] = (IF dir THEN s.gadget ELSE file["config"])
        /\ \A f \in File : f # "config" => file'[f] = file[f]
    BY <1>4, WriteStep, FileContents, InScript DEF NoteConfig, Note, Write, Opt, Contents
  <2>2. s.gadget # None
    BY <1>4, InScript DEF NoteConfig, Note, Write
  <2> QED
    BY <1>4, <2>1, <2>2 DEF NoteConfig, Note, Write, Variables, Recorded, IsDir
<1>5. CASE NoteUdc
  BY <1>5 DEF NoteUdc, Note, Write
<1>6. CASE MakeFunction
  BY <1>6 DEF MakeFunction, HasFunction, Fault, NoFault, Die, Exit
<1>7. CASE MountFfs
  BY <1>7 DEF MountFfs, Exit, Fault, NoFault, Die
<1>8. CASE ReadState
  <2>1. CASE /\ s' = Read /\ pc' = "hold" /\ file' = file /\ IsDir(file["gadget"])
                /\ unit' = unit /\ bound' = bound /\ own' = own
    BY <1>8, <2>1, LocalsRead, Constants DEF IsDir
  <2>2. CASE /\ pc' = "none" /\ s' = NoVars /\ bound' = bound /\ own' = own
             /\ (file' = file \/ \A f \in File : file'[f] = None)
    BY <2>2
  <2> QED
    BY <1>8, <2>1, <2>2 DEF ReadState, NoFault, Die, Exit, Read
<1>9. CASE Hold
  BY <1>9 DEF Hold
<1>10. CASE Unbind
  <2>1. s.gadget = file["gadget"] /\ s.gadget # None
    BY <1>10 DEF Unbind, Variables, Informed
  <2>2. bound' = None
    BY <1>10, <2>1 DEF Unbind
  <2> QED
    BY <1>10, <2>1, <2>2 DEF Unbind, IsDir, Informed
<1>11. CASE TakeAdb
  <2>1. s' = [s EXCEPT !.adb = Linked("adb", s.config)] /\ Linked("adb", s.config) \in BOOLEAN
        /\ pc' = "link" /\ file' = file /\ pc = "adb" /\ unit' = unit /\ bound' = bound
        /\ own' = own
    BY <1>11 DEF TakeAdb, Linked, Contains
  <2>2. /\ s'.gadget = s.gadget /\ s'.config = s.config /\ s'.udc = s.udc /\ s'.mode = s.mode
    BY <1>a, <2>1, LocalsSteps
  <2> QED
    BY <2>1, <2>2 DEF IsDir
<1>12. CASE LinkMtp
  BY <1>12 DEF LinkMtp, Relink, Link
<1>13. CASE LinkAdb
  BY <1>13 DEF LinkAdb, Relink, Link
<1>14. CASE NoteAdb
  BY <1>14 DEF NoteAdb, Note, Write
<1>15. CASE SaveVendor
  <2>1. \A f \in File \ {"idVendor"} : file'[f] = file[f]
    BY <1>15, WriteStep, FileContents DEF Typed, SaveVendor, Write
  <2> QED
    BY <1>15, <2>1 DEF SaveVendor, IsDir
<1>16. CASE SaveProduct
  BY <1>16 DEF SaveProduct, Note, Write
<1>17. CASE SetVendor
  BY <1>17 DEF SetVendor, Ids
<1>18. CASE SetProduct
  BY <1>18 DEF SetProduct, Ids
<1>19. CASE Bind
  <2>1. /\ s.gadget = file["gadget"] /\ s.config = file["config"] /\ s.gadget # None
        /\ s.mode = file["mode"]
        /\ IsDir(s.gadget)
    BY <1>19 DEF Bind, Variables, Informed
  <2>2. s.config \in {None, s.gadget}
    BY <1>19, <2>1 DEF Bind, Recorded
  <2> QED
    BY <1>19, <2>1, <2>2 DEF Bind, Binding, NoFault, IsDir
<1>20. CASE BindAgain
  <2>1. pc' = pc /\ file' = file /\ pc = "bind" /\ unit' = unit /\ bound' = bound /\ own' = own
    BY <1>20 DEF BindAgain, Refused
  <2>2. /\ s'.gadget = s.gadget /\ s'.config = s.config /\ s'.udc = s.udc /\ s'.mode = s.mode
        /\ s'.adb = s.adb
    BY <1>20, LocalsTries
  <2> QED
    BY <2>1, <2>2 DEF IsDir
<1>21. CASE BindFails
  BY <1>21 DEF BindFails, Refused, Fault, NoFault, Binding, Die, Exit
<1>22. CASE Release
  BY <1>22 DEF Release, Fault, NoFault, Binding, Exit, Rest, Timer
<1>23. CASE ReadBack
  <2>1. CASE /\ s' = Read /\ pc' = "hold" /\ file' = file /\ IsDir(file["gadget"])
                /\ unit' = unit /\ bound' = bound /\ own' = own
    BY <1>23, <2>1, LocalsRead, Constants DEF IsDir
  <2>2. CASE /\ pc' = "none" /\ s' = NoVars /\ bound' = bound /\ own' = own
             /\ (file' = file \/ \A f \in File : file'[f] = None)
    BY <2>2
  <2> QED
    BY <1>23, <2>1, <2>2 DEF ReadBack, Exit, Rest, Read
<1>24. CASE UnlinkMtp
  BY <1>24 DEF UnlinkMtp, Relink
<1>25. CASE UnmountFfs
  BY <1>25 DEF UnmountFfs
<1>26. CASE RemoveFunction
  <2>1. s.mode # "mainline" => s.mode = "halium"
    BY <1>26 DEF RemoveFunction, Variables, Informed, Recorded, Typed, Opt
  <2> QED
    BY <1>26, <2>1 DEF RemoveFunction, IsDir
<1>27. CASE RemoveGadget
  <2>1. bound = None /\ bound' = None /\ file' = file /\ pc' = "forget"
    BY <1>27 DEF RemoveGadget
  <2> QED
    BY <2>1 DEF Informed
<1>28. CASE RestoreVendor
  BY <1>28 DEF RestoreVendor, Ids, Saved
<1>29. CASE RestoreProduct
  BY <1>29 DEF RestoreProduct, Ids, Saved
<1>30. CASE Forget
  BY <1>30 DEF Forget
<1>31. CASE Start
  BY <1>31 DEF Start, Begin
<1>32. CASE Restart
  BY <1>32 DEF Restart, Begin
<1>33. CASE Ready
  BY <1>33 DEF Ready, Begin
<1>34. CASE StopPost
  <2>1. bound' \in {bound, None} /\ file' = file /\ pc' = "read_back" /\ own' = own
    BY <1>34 DEF StopPost, Gone, Begin
  <2> QED
    BY <2>1 DEF Informed
<1>35. CASE Crash
  <2>1. /\ bound' \in {bound, None} /\ file' = file /\ pc' = pc /\ own' = own /\ s' = s
        /\ unit' = unit \/ pc = "none"
    BY <1>35 DEF Crash, Fault, Gone
  <2> QED
    BY <2>1 DEF Informed, IsDir
<1>36. CASE Stop
  BY <1>36 DEF Stop, Die, Exit
<1>37. CASE Kill
  BY <1>37 DEF Kill, Fault, NoFault, Die, Exit, Rest
<1>38. CASE \E t \in timers : TimerTests(t)
  BY <1>38 DEF TimerTests, Fire
<1>39. CASE \E t \in timers : TimerRemoves(t)
  BY <1>39 DEF TimerRemoves, Fire
<1>40. CASE \E t \in timers : TimerRmdir(t)
  BY <1>40 DEF TimerRmdir, Fire
<1>41. CASE UNCHANGED vars
  BY <1>41 DEF vars
<1> QED
  BY <1>1, <1>2, <1>3, <1>4, <1>5, <1>6, <1>7, <1>8, <1>9, <1>10, <1>11, <1>12, <1>13, <1>14,
     <1>15, <1>16, <1>17, <1>18, <1>19, <1>20, <1>21, <1>22, <1>23, <1>24, <1>25, <1>26, <1>27,
     <1>28, <1>29, <1>30, <1>31, <1>32, <1>33, <1>34, <1>35, <1>36, <1>37, <1>38, <1>39, <1>40,
     <1>41, Steps

\* The commands of bind and cleanup come in their order.
LEMMA OrderedNext ==
  ASSUME TypeOK, Typed, Phases, Variables, Recorded, Ordered, [Next]_vars
  PROVE  Ordered'
<1> USE DEF Ordered, Phases, Places, Preparing, Found, Relinking, Noting, Undoing, Edits, At, To,
        Set, history, unitvars, usbvars, runvars
<1>a. /\ s \in Locals /\ unit \in Units /\ links \in [Gadget -> Layouts]
      /\ (umtprd = "ready" /\ pc # "none" => unit = "start_post")
  BY Constants DEF Typed, TypeOK, Units
<1>b. {"gadget", "config", "udc", "mode", "idVendor", "idProduct", "adb_links"} = File
  BY FileContents
<1> USE <1>a, <1>b DEF Units
<1>1. CASE MakeState
  BY <1>1 DEF MakeState
<1>2. CASE Find
  BY <1>2 DEF Find, Fault, NoFault, Die, Exit, Write
<1>3. CASE NoteGadget
  BY <1>3 DEF NoteGadget, Note, Write
<1>4. CASE NoteConfig
  BY <1>4 DEF NoteConfig, Note, Write
<1>5. CASE NoteUdc
  BY <1>5 DEF NoteUdc, Note, Write
<1>6. CASE MakeFunction
  BY <1>6 DEF MakeFunction, HasFunction, Fault, NoFault, Die, Exit
<1>7. CASE MountFfs
  BY <1>7 DEF MountFfs, Exit, Fault, NoFault, Die
<1>8. CASE ReadState
  BY <1>8 DEF ReadState, NoFault, Die, Exit, Read
<1>9. CASE Hold
  BY <1>9 DEF Hold
<1>10. CASE Unbind
  BY <1>10 DEF Unbind
<1>11. CASE TakeAdb
  <2>1. /\ s.config \in Gadget /\ s'.config = s.config /\ unit = "start_post"
        /\ links' = [links EXCEPT ![s.config] = RemoveFirst(links[s.config], "adb")]
    BY <1>11, InScript, LocalsSteps DEF TakeAdb, TakeOut, Relink, Informed, Linked, Contains
  <2>2. RemoveFirst(links[s.config], "adb") \in {<<>>, <<"mtp">>}
    BY <2>1, Relayout
  <2> QED
    BY <1>11, <2>1, <2>2 DEF TakeAdb
<1>12. CASE LinkMtp
  <2>1. s.config \in Gadget /\ links' = [links EXCEPT ![s.config] = Link(s.config, "mtp")]
    BY <1>12, InScript DEF LinkMtp, Relink, Informed
  <2>2. Link(s.config, "mtp") = <<"mtp">>
    BY <1>12, <2>1, InLayout, Relayout, LayoutsDiffer DEF LinkMtp, Link, Linked, Layouts
  <2> QED
    BY <1>12, <2>1, <2>2 DEF LinkMtp
<1>13. CASE LinkAdb
  <2>1. /\ s.config \in Gadget
        /\ links' = [links EXCEPT ![s.config] =
                        IF s.adb THEN Link(s.config, "adb") ELSE links[s.config]]
    BY <1>13, InScript DEF LinkAdb, Relink, Informed
  <2>2. links[s.config] = <<"mtp">> /\ Link(s.config, "adb") = <<"mtp", "adb">>
    BY <1>13, <2>1, InLayout, Relayout, LayoutsDiffer DEF LinkAdb, Link, Linked, Layouts
  <2> QED
    BY <1>13, <2>1, <2>2 DEF LinkAdb
<1>14. CASE NoteAdb
  <2>1. dir
    BY <1>14, InScript, Constants DEF NoteAdb, Note, Variables, Informed, TypeOK, Gadget
  <2>2. file'["adb_links"] = IF s.adb THEN "adb" ELSE None
    BY <1>14, <2>1, WriteStep, FileContents DEF NoteAdb, Note
  <2> QED
    BY <1>14, <2>2 DEF NoteAdb, Note
<1>15. CASE SaveVendor
  <2>1. file'["adb_links"] = file["adb_links"]
    BY <1>15, WriteStep, FileContents DEF Typed, SaveVendor, Write
  <2> QED
    BY <1>15, <2>1 DEF SaveVendor, Write
<1>16. CASE SaveProduct
  <2>1. file'["adb_links"] = file["adb_links"]
    BY <1>16, WriteStep, FileContents DEF Typed, SaveProduct, Note, Write
  <2> QED
    BY <1>16, <2>1 DEF SaveProduct, Note, Write
<1>17. CASE SetVendor
  <2>1. s.gadget \in Gadget
    BY <1>17, InScript DEF SetVendor, Ids, Informed
  <2>2. ids'[s.gadget].vendor = "mtp"
    BY <1>17, <2>1, IdsVendor DEF SetVendor, Ids, Vendors
  <2> QED
    BY <1>17, <2>2 DEF SetVendor, Ids
<1>18. CASE SetProduct
  <2>1. s.gadget \in Gadget
    BY <1>18, InScript DEF SetProduct, Ids, Informed
  <2>2. /\ ids'[s.gadget].product = IF file["adb_links"] = "adb" THEN "mtp+adb" ELSE "mtp"
        /\ ids'[s.gadget].vendor = ids[s.gadget].vendor
    <3>1. PICK p \in Products : /\ p = IF file["adb_links"] = "adb" THEN "mtp+adb" ELSE "mtp"
                                /\ ids' = [ids EXCEPT ![s.gadget]["product"] = p]
      BY <1>18 DEF SetProduct, Ids, Products
    <3> QED
      BY <2>1, <3>1, IdsProduct
  <2>3. unit = "start_post" /\ (file["adb_links"] = "adb" <=> s.adb)
    BY <1>18, Constants DEF SetProduct, Ids
  <2> QED
    BY <1>18, <2>2, <2>3 DEF SetProduct, Ids
<1>19. CASE Bind
  BY <1>19 DEF Bind, Binding, NoFault
<1>20. CASE BindAgain
  <2>1. /\ s'.gadget = s.gadget /\ s'.config = s.config /\ s'.adb = s.adb
    BY <1>20, LocalsTries
  <2> QED
    BY <1>20, <2>1 DEF BindAgain, Refused, Fault, NoFault
<1>21. CASE BindFails
  BY <1>21 DEF BindFails, Refused, Fault, NoFault, Binding, Die, Exit
<1>22. CASE Release
  BY <1>22 DEF Release, Fault, NoFault, Binding, Exit, Rest, Timer
<1>23. CASE ReadBack
  BY <1>23 DEF ReadBack, Exit, Rest, Read
<1>24. CASE UnlinkMtp
  <2>1. CASE s.config = None
    BY <1>24, <2>1 DEF UnlinkMtp
  <2>2. CASE s.config # None
    <3>1. s.config \in Gadget
      BY <2>2 DEF Locals, Opt
    <3>2. links' = [links EXCEPT ![s.config] = RemoveFirst(links[s.config], "mtp")]
      BY <1>24, <2>2 DEF UnlinkMtp, Relink
    <3>3. links'[s.config] \in {<<>>, <<"adb">>}
      BY <3>1, <3>2, Relayout
    <3> QED
      BY <1>24, <3>3 DEF UnlinkMtp
  <2> QED
    BY <2>1, <2>2
<1>25. CASE UnmountFfs
  BY <1>25 DEF UnmountFfs
<1>26. CASE RemoveFunction
  BY <1>26 DEF RemoveFunction
<1>27. CASE RemoveGadget
  BY <1>27 DEF RemoveGadget
<1>28. CASE RestoreVendor
  BY <1>28 DEF RestoreVendor, Ids, Saved
<1>29. CASE RestoreProduct
  BY <1>29 DEF RestoreProduct, Ids, Saved
<1>30. CASE Forget
  BY <1>30 DEF Forget
<1>31. CASE Start
  BY <1>31 DEF Start, Begin
<1>32. CASE Restart
  BY <1>32 DEF Restart, Begin
<1>33. CASE Ready
  BY <1>33 DEF Ready, Begin
<1>34. CASE StopPost
  BY <1>34 DEF StopPost, Gone, Begin
<1>35. CASE Crash
  BY <1>35 DEF Crash, Fault, Gone
<1>36. CASE Stop
  BY <1>36 DEF Stop, Die, Exit
<1>37. CASE Kill
  BY <1>37 DEF Kill, Fault, NoFault, Die, Exit, Rest
<1>38. CASE \E t \in timers : TimerTests(t)
  BY <1>38 DEF TimerTests, Fire
<1>39. CASE \E t \in timers : TimerRemoves(t)
  BY <1>39 DEF TimerRemoves, Fire
<1>40. CASE \E t \in timers : TimerRmdir(t)
  BY <1>40 DEF TimerRmdir, Fire
<1>41. CASE UNCHANGED vars
  BY <1>41 DEF vars
<1> QED
  BY <1>1, <1>2, <1>3, <1>4, <1>5, <1>6, <1>7, <1>8, <1>9, <1>10, <1>11, <1>12, <1>13, <1>14,
     <1>15, <1>16, <1>17, <1>18, <1>19, <1>20, <1>21, <1>22, <1>23, <1>24, <1>25, <1>26, <1>27,
     <1>28, <1>29, <1>30, <1>31, <1>32, <1>33, <1>34, <1>35, <1>36, <1>37, <1>38, <1>39, <1>40,
     <1>41, Steps

\* The marker of a script stands until the script releases it, but for an older timer that had
\* just tested it.
Covered ==
  pc \in Marked /\ ~raced =>
    marker # None /\ \A t \in timers : t.at # "mine" /\ (t.at = "set" => t.tok # marker)

\* Who makes a marker has a pid of its own, and an older timer clears no other.
LEMMA CoveredNext ==
  ASSUME TypeOK, Typed, Phases, Covered, [Next]_vars
  PROVE  Covered'
<1> USE DEF Covered, Marked, Phases, Places, Preparing, Found, Relinking, Noting, Undoing, Edits,
        At, To, Set, history, unitvars, usbvars, runvars
<1>a. /\ unit \in Units /\ (umtprd = "ready" /\ pc # "none" => unit = "start_post")
      /\ None \notin Token
  BY Constants DEF TypeOK, Units
<1> USE <1>a DEF Units
<1>1. CASE MakeState
  BY <1>1 DEF MakeState
<1>2. CASE Find
  BY <1>2 DEF Find, Fault, NoFault, Die, Exit, Write
<1>3. CASE NoteGadget
  BY <1>3 DEF NoteGadget, Note, Write
<1>4. CASE NoteConfig
  BY <1>4 DEF NoteConfig, Note, Write
<1>5. CASE NoteUdc
  BY <1>5 DEF NoteUdc, Note, Write
<1>6. CASE MakeFunction
  BY <1>6 DEF MakeFunction, HasFunction, Fault, NoFault, Die, Exit
<1>7. CASE MountFfs
  BY <1>7 DEF MountFfs, Exit, Fault, NoFault, Die
<1>8. CASE ReadState
  BY <1>8 DEF ReadState, NoFault, Die, Exit, Read
<1>9. CASE Hold
  <2>1. Token \ Used # {} /\ marker' = Min(Token \ Used) /\ Token \ Used \subseteq Nat
    BY <1>9, Constants DEF Hold
  <2>2. marker' \in Token \ Used
    BY <2>1, MinOfNat
  <2>3. marker' # None /\ \A t \in timers : t.tok # marker'
    BY <2>2 DEF Used
  <2> QED
    BY <1>9, <2>3 DEF Hold
<1>10. CASE Unbind
  BY <1>10 DEF Unbind
<1>11. CASE TakeAdb
  BY <1>11 DEF TakeAdb, Relink, TakeOut
<1>12. CASE LinkMtp
  BY <1>12 DEF LinkMtp, Relink, Link
<1>13. CASE LinkAdb
  BY <1>13 DEF LinkAdb, Relink, Link
<1>14. CASE NoteAdb
  BY <1>14 DEF NoteAdb, Note, Write
<1>15. CASE SaveVendor
  BY <1>15 DEF SaveVendor, Write
<1>16. CASE SaveProduct
  BY <1>16 DEF SaveProduct, Note, Write
<1>17. CASE SetVendor
  BY <1>17 DEF SetVendor, Ids
<1>18. CASE SetProduct
  BY <1>18 DEF SetProduct, Ids
<1>19. CASE Bind
  BY <1>19 DEF Bind, Binding, NoFault
<1>20. CASE BindAgain
  BY <1>20 DEF BindAgain, Refused, Fault, NoFault
<1>21. CASE BindFails
  BY <1>21 DEF BindFails, Refused, Fault, NoFault, Binding, Die, Exit
<1>22. CASE Release
  BY <1>22 DEF Release, Fault, NoFault, Binding, Exit, Rest, Timer
<1>23. CASE ReadBack
  BY <1>23 DEF ReadBack, Exit, Rest, Read
<1>24. CASE UnlinkMtp
  BY <1>24 DEF UnlinkMtp, Relink
<1>25. CASE UnmountFfs
  BY <1>25 DEF UnmountFfs
<1>26. CASE RemoveFunction
  BY <1>26 DEF RemoveFunction
<1>27. CASE RemoveGadget
  BY <1>27 DEF RemoveGadget
<1>28. CASE RestoreVendor
  BY <1>28 DEF RestoreVendor, Ids, Saved
<1>29. CASE RestoreProduct
  BY <1>29 DEF RestoreProduct, Ids, Saved
<1>30. CASE Forget
  BY <1>30 DEF Forget
<1>31. CASE Start
  BY <1>31 DEF Start, Begin
<1>32. CASE Restart
  BY <1>32 DEF Restart, Begin
<1>33. CASE Ready
  BY <1>33 DEF Ready, Begin
<1>34. CASE StopPost
  BY <1>34 DEF StopPost, Gone, Begin
<1>35. CASE Crash
  BY <1>35 DEF Crash, Fault, Gone
<1>36. CASE Stop
  BY <1>36 DEF Stop, Die, Exit
<1>37. CASE Kill
  BY <1>37 DEF Kill, Fault, NoFault, Die, Exit, Rest
<1>38. CASE \E t \in timers : TimerTests(t)
  <2>1. PICK t \in timers : TimerTests(t)
    BY <1>38
  <2>2. /\ timers' \subseteq timers \cup {[t EXCEPT !.at = IF Mine(t) THEN "mine" ELSE "rmdir"]}
        /\ t.at = "set" /\ pc' = pc /\ marker' = marker /\ raced' = raced
    BY <2>1 DEF TimerTests, Fire
  <2>3. t \in Timers
    BY DEF Typed
  <2>4. SUFFICES ASSUME pc \in Marked, ~raced
                 PROVE  Covered'
    BY <2>2
  <2>5. ~Mine(t)
    BY <2>2, <2>4 DEF Mine
  <2>6. [t EXCEPT !.at = IF Mine(t) THEN "mine" ELSE "rmdir"].at = "rmdir"
    BY <2>3, <2>5 DEF Timers
  <2> QED
    BY <2>2, <2>4, <2>6
<1>39. CASE \E t \in timers : TimerRemoves(t)
  BY <1>39 DEF TimerRemoves, Fire
<1>40. CASE \E t \in timers : TimerRmdir(t)
  BY <1>40 DEF TimerRmdir, Fire
<1>41. CASE UNCHANGED vars
  BY <1>41 DEF vars
<1> QED
  BY <1>1, <1>2, <1>3, <1>4, <1>5, <1>6, <1>7, <1>8, <1>9, <1>10, <1>11, <1>12, <1>13, <1>14,
     <1>15, <1>16, <1>17, <1>18, <1>19, <1>20, <1>21, <1>22, <1>23, <1>24, <1>25, <1>26, <1>27,
     <1>28, <1>29, <1>30, <1>31, <1>32, <1>33, <1>34, <1>35, <1>36, <1>37, <1>38, <1>39, <1>40,
     <1>41, Steps

\* A gadget that is bound is not edited.
LEMMA BoundStands ==
  ASSUME TypeOK, Typed, Owned, [Next]_vars, bound' # None
  PROVE  Bind \/ (bound' = bound /\ links' = links /\ ids' = ids)
<1>1. CASE TakeAdb \/ LinkMtp \/ LinkAdb \/ UnlinkMtp \/ SetVendor \/ SetProduct
             \/ RestoreVendor \/ RestoreProduct
  <2>1. pc \in Edits
    BY <1>1 DEF TakeAdb, LinkMtp, LinkAdb, UnlinkMtp, SetVendor, SetProduct, RestoreVendor,
       RestoreProduct,
                Ids, At, Edits, Relinking, Noting, Undoing
  <2>2. bound' = bound
    BY <1>1 DEF TakeAdb, LinkMtp, LinkAdb, UnlinkMtp, SetVendor, SetProduct, RestoreVendor,
       RestoreProduct, Ids
  <2> QED
    BY <2>1, <2>2 DEF Owned
<1>2. CASE Find
  BY <1>2 DEF Find
<1>3. CASE Unbind \/ StopPost \/ Crash
  BY <1>3 DEF Unbind, StopPost, Crash, Gone
<1>4. CASE bound' = bound /\ links' = links /\ ids' = ids
  BY <1>4
<1> QED
  BY <1>1, <1>2, <1>3, <1>4, Effects

\* What bind and cleanup bind.
LEMMA BindLinks ==
  ASSUME TypeOK, Typed, Phases, Variables, Recorded, Owned, Ordered, Bind
  PROVE  /\ bound' = s.gadget /\ s.gadget \in Gadget /\ links' = links /\ ids' = ids
         /\ s.config = s.gadget /\ unit' = unit
         /\ pc' = (IF unit = "start_post" THEN "release" ELSE "forget")
         /\ unit \in {"start_post", "stop_post"}
         /\ unit = "start_post" =>
              /\ links[s.gadget] = (IF s.adb THEN <<"mtp", "adb">> ELSE <<"mtp">>)
              /\ ids[s.gadget].vendor = "mtp"
              /\ ids[s.gadget].product = (IF s.adb THEN "mtp+adb" ELSE "mtp")
         /\ unit = "stop_post" => links[s.gadget] \in {<<>>, <<"adb">>} /\ s.mode = "halium"
<1>1. /\ pc = "bind" /\ bound' = s.gadget /\ links' = links /\ ids' = ids /\ s.udc # None
      /\ unit' = unit
  BY DEF Bind, CanBind, At, unitvars
<1>2. pc \in Informed
  BY <1>1 DEF Informed, Edits
<1>3. s.gadget \in Gadget
  BY <1>2, InScript
<1>4. unit \in {"start_post", "stop_post"}
  BY <1>1 DEF Phases, Places, Preparing, Found
<1>5. s.config = s.gadget
  <2>1. CASE unit = "start_post"
    BY <1>2, <2>1, InScript
  <2>2. CASE unit = "stop_post"
    <3>1. s.mode = "halium"
      BY <1>1, <2>2 DEF Owned
    <3>2. /\ s.gadget = file["gadget"] /\ s.config = file["config"] /\ s.udc = file["udc"]
          /\ s.mode = file["mode"]
      BY <1>2 DEF Variables
    <3> QED
      BY <1>1, <3>1, <3>2 DEF Owned, Recorded
  <2> QED
    BY <1>4, <2>1, <2>2
<1>6. pc' = (IF unit = "start_post" THEN "release" ELSE "forget")
  BY DEF Bind, Binding, To
<1>7. unit = "start_post" =>
        /\ links[s.gadget] = (IF s.adb THEN <<"mtp", "adb">> ELSE <<"mtp">>)
        /\ ids[s.gadget].vendor = "mtp"
        /\ ids[s.gadget].product = (IF s.adb THEN "mtp+adb" ELSE "mtp")
  BY <1>1, <1>5 DEF Ordered
<1>8. unit = "stop_post" => links[s.gadget] \in {<<>>, <<"adb">>} /\ s.mode = "halium"
  BY <1>1, <1>3, <1>5, Constants DEF Ordered, Owned, Gadget
<1> QED
  BY <1>1, <1>3, <1>4, <1>5, <1>6, <1>7, <1>8

\* What is bound has the layout, and keeps it.
LEMMA LayoutNext ==
  ASSUME TypeOK, Typed, Phases, Variables, Recorded, Owned, Ordered, Layout, [Next]_vars
  PROVE  Layout'
<1>1. CASE bound' = None
  BY <1>1 DEF Layout
<1>2. CASE bound' = bound /\ links' = links /\ ids' = ids
  BY <1>2 DEF Layout, Linked
<1>3. CASE Bind /\ unit = "stop_post"
  <2>1. links' = links /\ bound' \in Gadget /\ links[bound'] \in {<<>>, <<"adb">>}
    BY <1>3, BindLinks
  <2>2. ~Contains(links[bound'], "mtp")
    BY <2>1, InLayout, LayoutsDiffer DEF Layouts
  <2> QED
    BY <2>1, <2>2 DEF Layout, Linked
<1>4. CASE Bind /\ unit = "start_post"
  <2> DEFINE g == s.gadget
  <2>1. /\ g \in Gadget /\ bound' = g /\ links' = links /\ ids' = ids
        /\ links[g] = (IF s.adb THEN <<"mtp", "adb">> ELSE <<"mtp">>)
        /\ ids[g].vendor = "mtp" /\ ids[g].product = (IF s.adb THEN "mtp+adb" ELSE "mtp")
    BY <1>4, BindLinks
  <2> HIDE DEF g
  <2>2. links[g][1] = "mtp" /\ (Contains(links[g], "adb") <=> s.adb) /\ s.adb \in BOOLEAN
    BY <2>1, InLayout, LayoutsDiffer DEF Layouts, Typed, Locals
  <2>3. ids[g] \in [vendor : Vendors, product : Products]
    BY <2>1 DEF Typed
  <2>4. ids[g] = [vendor  |-> "mtp",
                  product |-> IF Contains(links[g], "adb") THEN "mtp+adb" ELSE "mtp"]
    BY <2>1, <2>2, <2>3
  <2> QED
    BY <2>1, <2>2, <2>4 DEF Layout, Linked
<1> QED
  BY <1>1, <1>2, <1>3, <1>4, BoundStands, BindLinks

-------------------------------------------------------------------------------
(* What cleanup gives back                                                 *)

\* Bind has not begun to edit.
Before  == \/ unit \in {"dead", "wait", "start_pre", "start"}
           \/ unit = "start_post" /\ pc \in {"read", "hold", "unbind"}
NoFiles == \A f \in File : file[f] = None
Whole   == /\ bound = "android" /\ links["android"] = <<"adb">>
           /\ ids["android"].vendor = "old" /\ ids["android"].product = "old"
Unharmed == "gadget" \notin harmed

\* Of Android's gadget the files say all that cleanup needs, or nothing has been done to it.
AndroidNoted ==
  halium /\ Unharmed =>
    /\ bound \in {"android", None} /\ file["gadget"] \in {"android", None}
    /\ file["gadget"] # None => file["mode"] = "halium"
    /\ file["gadget"] # None /\ unit = "stop_post" =>
         file["config"] = "android" /\ file["udc"] = "udc"
    /\ pc \in {"mkdir", "find", "gadget"} => file["gadget"] = None
    /\ unit \in {"dead", "wait"} \/ (unit = "stop_post" /\ pc = "release") => NoFiles

\* Its IDs are in the gadget or in the files, never MTP's in both.
AndroidIds ==
  halium /\ Unharmed =>
    /\ file["idVendor"] \in {"old", None} /\ file["idProduct"] \in {"old", None}
    /\ file["idVendor"] = None => ids["android"].vendor = "old"
    /\ file["idProduct"] = None => ids["android"].product = "old"
    /\ Before \/ pc \in {"adb", "link", "relink", "adb_links", "idVendor"} =>
         file["idVendor"] = None /\ file["idProduct"] = None
    /\ pc \in {"idProduct", "vendor", "product"} => file["idVendor"] = "old"
    /\ pc = "idProduct" => file["idProduct"] = None
    /\ pc \in {"vendor", "product"} => file["idProduct"] = "old"
    /\ unit = "stop_post" /\ pc \in {"restore_product", "bind"} => ids["android"].vendor = "old"
    /\ unit = "stop_post" /\ pc = "bind" => ids["android"].product = "old"

\* Adb is in it but for the two commands that bind must not be stopped at, and it is whole
\* before bind and after cleanup.
AndroidWhole ==
  halium /\ Unharmed =>
    /\ pc \in {"link", "relink"} => s.adb
    /\ pc \notin {"link", "relink"} => links["android"] \in {<<"adb">>, <<"mtp", "adb">>}
    /\ file["gadget"] = None \/ Before \/ pc = "forget" => Whole
    /\ pc # "rm_gadget"

\* A gadget of our own is bound only as the files say, and unbound at the end.
Luneos ==
  ~halium /\ Unharmed =>
    /\ bound # "android" /\ file["gadget"] # "android"
    /\ bound # None => file["gadget"] = "luneos"
    /\ file["gadget"] # None => file["mode"] = "mainline" /\ (pc # "forget" => own)
    /\ pc \in Found => own
    /\ pc \in {"mkdir", "find"} => file["gadget"] = None
    /\ Before \/ pc = "forget" => bound = None
    /\ unit \in {"dead", "wait"} \/ (unit = "stop_post" /\ pc = "release") => NoFiles

\* Whole says what GadgetComesBack asks for.
LEMMA WholeIds ==
  ASSUME Typed, Whole
  PROVE  bound = "android" /\ links["android"] = <<"adb">> /\ ids["android"] = Old
<1>1. ids["android"] \in [vendor : Vendors, product : Products]
  BY DEF Typed, Gadget
<1>2. ids["android"].vendor = "old" /\ ids["android"].product = "old"
  BY DEF Whole
<1> QED
  BY <1>1, <1>2 DEF Whole, Old

\* Whose gadget the script is at.
LEMMA AtAndroid ==
  ASSUME TypeOK, Typed, Phases, Variables, Recorded, Owned, AndroidNoted, AndroidWhole,
         halium, Unharmed
  PROVE  /\ pc \in Informed =>
              /\ s.gadget = "android" /\ s.config = "android" /\ s.udc = "udc" /\ s.mode = "halium"
              /\ file["gadget"] = "android" /\ dir
         /\ pc \in Found => s.gadget = "android" /\ bound = "android"
<1>1. /\ unit \in Units /\ None # "android" /\ "gadget" \in File /\ {"android", "luneos"} = Gadget
      /\ (~dir => \A f \in File : file[f] = None)
  BY Constants DEF TypeOK, Units, Gadget, File
<1>2. ASSUME pc \in Informed
      PROVE  /\ s.gadget = "android" /\ s.config = "android" /\ s.udc = "udc" /\ s.mode = "halium"
             /\ file["gadget"] = "android" /\ dir
  <2>1. /\ s.gadget = file["gadget"] /\ s.config = file["config"] /\ s.gadget # None
        /\ s.udc = file["udc"] /\ s.mode = file["mode"]
    BY <1>2 DEF Variables
  <2>2. s.gadget = "android" /\ s.mode = "halium"
    BY <2>1 DEF AndroidNoted
  <2>3. unit \in {"start_post", "stop_post"}
    BY <1>2 DEF Phases, Places, Informed, Edits, Relinking, Noting, Undoing, Preparing, Found
  <2>4. s.config = "android" /\ s.udc = "udc"
    BY <1>2, <2>1, <2>2, <2>3, InScript DEF AndroidNoted
  <2> QED
    BY <1>1, <2>1, <2>2, <2>4
<1>3. ASSUME pc \in Found
      PROVE  s.gadget = "android" /\ bound = "android"
  <2>1. unit = "start_pre"
    BY <1>3, InScript DEF Preparing
  <2>2. bound = "android"
    BY <2>1 DEF AndroidWhole, Before, Whole
  <2> QED
    BY <1>1, <1>3, <2>2 DEF Variables
<1> QED
  BY <1>2, <1>3

\* What harms is not undone; a step that harms nothing ends no script at a place of Harm.
LEMMA HarmStays ==
  ASSUME [Next]_vars, Unharmed'
  PROVE  /\ Unharmed /\ halium' = halium
         /\ Kill => unit # "stop_post"
         /\ Kill \/ (Stop /\ unit \notin {"stop_post", "wait"}) =>
              /\ ~(pc \in {"config", "udc"} /\ s.gadget = "android")
              /\ ~(s.adb /\ ~Linked("adb", s.config))
         /\ BindFails /\ unit # "start_post" => ~CanBind(s.gadget)
<1> USE DEF Unharmed
<1>1. harmed \subseteq harmed' \/ Kill
  BY Effects DEF BindFails, Release, Stop, Die, Exit
<1>2. Kill => harmed' = harmed \cup Harm /\ unit # "stop_post"
  BY DEF Kill
<1>3. Stop /\ unit \notin {"stop_post", "wait"} => harmed' = harmed \cup Harm
  BY DEF Stop
<1>4. BindFails /\ unit # "start_post" => ~CanBind(s.gadget)
  BY DEF BindFails, Binding
<1>5. halium' = halium
  BY Effects
<1>6. \/ Harm = {"gadget"}
      \/ /\ ~(pc \in {"config", "udc"} /\ s.gadget = "android")
         /\ ~(s.adb /\ ~Linked("adb", s.config))
  BY DEF Harm
<1> QED
  BY <1>1, <1>2, <1>3, <1>4, <1>5, <1>6

\* Cleanup finds what it needs in the files.
LEMMA NotedNext ==
  ASSUME TypeOK, Typed, Phases, Variables, Recorded, Owned, Ordered, AndroidNoted, AndroidIds,
         AndroidWhole, [Next]_vars
  PROVE  AndroidNoted'
<1> USE DEF AndroidNoted, NoFiles, Phases, Places, Preparing, Found, Relinking, Noting, Undoing,
        At, To, Set, history, unitvars, usbvars, runvars
<1> SUFFICES ASSUME halium', Unharmed'
             PROVE  AndroidNoted'
  BY DEF AndroidNoted
<1>a. halium /\ Unharmed
  BY HarmStays
<1>b. /\ s \in Locals /\ bound \in Opt(Gadget) /\ unit \in Units /\ None \notin Gadget
      /\ (umtprd = "ready" /\ pc # "none" => unit = "start_post")
      /\ None \notin {"halium", "mainline", "udc", "android", "luneos"}
      /\ (~dir => \A f \in File : file[f] = None)
      /\ {"gadget", "config", "udc", "mode", "idVendor", "idProduct", "adb_links"} = File
  BY Constants, FileContents DEF Typed, TypeOK, Opt, Units, Gadget
<1>c. Whole => bound # None
  BY Constants DEF Whole
<1>d. /\ pc \in Informed =>
           /\ s.gadget = "android" /\ s.config = "android" /\ s.udc = "udc" /\ s.mode = "halium"
           /\ file["gadget"] = "android" /\ dir
      /\ pc \in Found => s.gadget = "android" /\ bound = "android"
  BY <1>a, AtAndroid
<1> USE <1>a, <1>b, <1>c DEF Units
<1>1. CASE MakeState
  BY <1>1 DEF MakeState
<1>2. CASE Find
  BY <1>2 DEF Find, Fault, NoFault, Die, Exit, Write
<1>3. CASE NoteGadget
  <2>1. /\ file'["gadget"] = (IF dir THEN "android" ELSE file["gadget"])
        /\ \A f \in File : f # "gadget" => file'[f] = file[f]
    BY <1>3, <1>d, WriteStep, FileContents, InScript DEF NoteGadget, Note, Write, Opt, Contents
  <2> QED
    BY <1>3, <2>1, <1>d DEF NoteGadget, Note, Write, Recorded
<1>4. CASE NoteConfig
  BY <1>4 DEF NoteConfig, Note, Write
<1>5. CASE NoteUdc
  BY <1>5 DEF NoteUdc, Note, Write
<1>6. CASE MakeFunction
  BY <1>6, <1>d DEF MakeFunction, HasFunction, Fault, NoFault, Die, Exit, Recorded
<1>7. CASE MountFfs
  BY <1>7, <1>d DEF MountFfs, Exit, Fault, NoFault, Die, Recorded
<1>8. CASE ReadState
  BY <1>8, <1>d DEF ReadState, NoFault, Die, Exit, Read, Recorded
<1>9. CASE Hold
  BY <1>9 DEF Hold
<1>10. CASE Unbind
  BY <1>10 DEF Unbind
<1>11. CASE TakeAdb
  BY <1>11 DEF TakeAdb, Relink, TakeOut
<1>12. CASE LinkMtp
  BY <1>12 DEF LinkMtp, Relink, Link
<1>13. CASE LinkAdb
  BY <1>13 DEF LinkAdb, Relink, Link
<1>14. CASE NoteAdb
  BY <1>14 DEF NoteAdb, Note, Write
<1>15. CASE SaveVendor
  <2>1. \A f \in File \ {"idVendor"} : file'[f] = file[f]
    BY <1>15, WriteStep, FileContents DEF Typed, SaveVendor, Write
  <2> QED
    BY <1>15, <2>1 DEF SaveVendor
<1>16. CASE SaveProduct
  BY <1>16 DEF SaveProduct, Note, Write
<1>17. CASE SetVendor
  BY <1>17 DEF SetVendor, Ids
<1>18. CASE SetProduct
  BY <1>18 DEF SetProduct, Ids
<1>19. CASE Bind
  BY <1>19, <1>d DEF Bind, Binding, NoFault, Informed, Edits
<1>20. CASE BindAgain
  BY <1>20 DEF BindAgain, Refused, Fault, NoFault
<1>21. CASE BindFails
  BY <1>21, <1>d DEF BindFails, Refused, Fault, NoFault, Binding, Die, Exit, Recorded
<1>22. CASE Release
  BY <1>22, <1>d DEF Release, Fault, NoFault, Binding, Exit, Rest, Timer, Recorded
<1>23. CASE ReadBack
  BY <1>23 DEF ReadBack, Exit, Rest, Read
<1>24. CASE UnlinkMtp
  BY <1>24 DEF UnlinkMtp, Relink
<1>25. CASE UnmountFfs
  BY <1>25 DEF UnmountFfs
<1>26. CASE RemoveFunction
  BY <1>26 DEF RemoveFunction
<1>27. CASE RemoveGadget
  BY <1>27 DEF RemoveGadget
<1>28. CASE RestoreVendor
  BY <1>28 DEF RestoreVendor, Ids, Saved
<1>29. CASE RestoreProduct
  BY <1>29 DEF RestoreProduct, Ids, Saved
<1>30. CASE Forget
  BY <1>30 DEF Forget
<1>31. CASE Start
  BY <1>31 DEF Start, Begin
<1>32. CASE Restart
  BY <1>32 DEF Restart, Begin
<1>33. CASE Ready
  BY <1>33 DEF Ready, Begin
<1>34. CASE StopPost
  BY <1>34 DEF StopPost, Gone, Begin
<1>35. CASE Crash
  BY <1>35, <1>d DEF Crash, Fault, Gone, Recorded
<1>36. CASE Stop
  BY <1>36, HarmStays, <1>d DEF Stop, Die, Exit, Recorded, AndroidWhole
<1>37. CASE Kill
  BY <1>37, HarmStays, <1>d DEF Kill, Fault, NoFault, Die, Exit, Rest, Recorded
<1>38. CASE \E t \in timers : TimerTests(t)
  BY <1>38 DEF TimerTests, Fire
<1>39. CASE \E t \in timers : TimerRemoves(t)
  BY <1>39 DEF TimerRemoves, Fire
<1>40. CASE \E t \in timers : TimerRmdir(t)
  BY <1>40 DEF TimerRmdir, Fire
<1>41. CASE UNCHANGED vars
  BY <1>41 DEF vars
<1> QED
  BY <1>1, <1>2, <1>3, <1>4, <1>5, <1>6, <1>7, <1>8, <1>9, <1>10, <1>11, <1>12, <1>13, <1>14,
     <1>15, <1>16, <1>17, <1>18, <1>19, <1>20, <1>21, <1>22, <1>23, <1>24, <1>25, <1>26, <1>27,
     <1>28, <1>29, <1>30, <1>31, <1>32, <1>33, <1>34, <1>35, <1>36, <1>37, <1>38, <1>39, <1>40,
     <1>41, Steps

\* No step loses the IDs.
LEMMA IdsNext ==
  ASSUME TypeOK, Typed, Phases, Variables, Recorded, Owned, Ordered, AndroidNoted, AndroidIds,
         AndroidWhole, [Next]_vars
  PROVE  AndroidIds'
<1> USE DEF AndroidIds, Before, NoFiles, Phases, Places, Preparing, Found, Relinking, Noting,
        Undoing, At, To, Set, history, unitvars, usbvars, runvars
<1> SUFFICES ASSUME halium', Unharmed'
             PROVE  AndroidIds'
  BY DEF AndroidIds
<1>a. halium /\ Unharmed
  BY HarmStays
<1>b. /\ s \in Locals /\ bound \in Opt(Gadget) /\ unit \in Units /\ None \notin Gadget
      /\ (umtprd = "ready" /\ pc # "none" => unit = "start_post")
      /\ None \notin {"halium", "mainline", "udc", "android", "luneos"}
      /\ (~dir => \A f \in File : file[f] = None)
      /\ {"gadget", "config", "udc", "mode", "idVendor", "idProduct", "adb_links"} = File
  BY Constants, FileContents DEF Typed, TypeOK, Opt, Units, Gadget
<1>c. Whole => bound # None
  BY Constants DEF Whole
<1>d. /\ pc \in Informed =>
           /\ s.gadget = "android" /\ s.config = "android" /\ s.udc = "udc" /\ s.mode = "halium"
           /\ file["gadget"] = "android" /\ dir
      /\ pc \in Found => s.gadget = "android" /\ bound = "android"
  BY <1>a, AtAndroid
<1> USE <1>a, <1>b, <1>c DEF Units
<1>1. CASE MakeState
  BY <1>1 DEF MakeState
<1>2. CASE Find
  <2>1. \A f \in File \ {"mode"} : file'[f] = file[f]
    BY <1>2, WriteStep, FileContents DEF Find
  <2>2. ids' = ids
    BY <1>2 DEF Find, AndroidWhole
  <2> QED
    BY <1>2, <2>1, <2>2 DEF Find, Fault, NoFault, Die, Exit, Write
<1>3. CASE NoteGadget
  BY <1>3 DEF NoteGadget, Note, Write
<1>4. CASE NoteConfig
  BY <1>4 DEF NoteConfig, Note, Write
<1>5. CASE NoteUdc
  BY <1>5 DEF NoteUdc, Note, Write
<1>6. CASE MakeFunction
  BY <1>6 DEF MakeFunction, HasFunction, Fault, NoFault, Die, Exit
<1>7. CASE MountFfs
  BY <1>7 DEF MountFfs, Exit, Fault, NoFault, Die
<1>8. CASE ReadState
  BY <1>8 DEF ReadState, NoFault, Die, Exit, Read
<1>9. CASE Hold
  BY <1>9 DEF Hold
<1>10. CASE Unbind
  BY <1>10 DEF Unbind
<1>11. CASE TakeAdb
  BY <1>11 DEF TakeAdb, Relink, TakeOut
<1>12. CASE LinkMtp
  BY <1>12 DEF LinkMtp, Relink, Link
<1>13. CASE LinkAdb
  BY <1>13 DEF LinkAdb, Relink, Link
<1>14. CASE NoteAdb
  BY <1>14 DEF NoteAdb, Note, Write
<1>15. CASE SaveVendor
  <2>1. file["idVendor"] = None /\ file["idProduct"] = None /\ ids["android"].vendor = "old"
    BY <1>15 DEF SaveVendor
  <2>2. s.gadget = "android" /\ dir
    BY <1>15, <1>d DEF SaveVendor, Informed, Edits
  <2>3. file'["idVendor"] = "old" /\ \A f \in File \ {"idVendor"} : file'[f] = file[f]
    BY <1>15, <2>1, <2>2, WriteStep, FileContents DEF SaveVendor, Vendors, Opt
  <2> QED
    BY <1>15, <2>1, <2>3 DEF SaveVendor
<1>16. CASE SaveProduct
  <2>1. file["idVendor"] = "old" /\ file["idProduct"] = None /\ ids["android"].product = "old"
    BY <1>16 DEF SaveProduct, Note
  <2>2. s.gadget = "android" /\ dir
    BY <1>16, <1>d DEF SaveProduct, Note, Informed, Edits
  <2>3. file'["idProduct"] = "old" /\ \A f \in File \ {"idProduct"} : file'[f] = file[f]
    BY <1>16, <2>1, <2>2, WriteStep, FileContents DEF SaveProduct, Note, Products, Opt
  <2> QED
    BY <1>16, <2>1, <2>3 DEF SaveProduct, Note
<1>17. CASE SetVendor
  <2>1. s.gadget = "android" /\ "android" \in Gadget
    BY <1>17, <1>d DEF SetVendor, Ids, Informed, Edits, Gadget
  <2>2. ids'["android"].product = ids["android"].product
    BY <1>17, <2>1, IdsVendor DEF SetVendor, Ids, Vendors
  <2> QED
    BY <1>17, <2>2, MGAssumption DEF SetVendor, Ids
<1>18. CASE SetProduct
  <2>1. s.gadget = "android" /\ "android" \in Gadget
    BY <1>18, <1>d DEF SetProduct, Ids, Informed, Edits, Gadget
  <2>2. ids'["android"].vendor = ids["android"].vendor
    <3>1. PICK p \in Products : ids' = [ids EXCEPT ![s.gadget]["product"] = p]
      BY <1>18 DEF SetProduct, Ids, Products
    <3> QED
      BY <2>1, <3>1, IdsProduct
  <2> QED
    BY <1>18, <2>2, MGAssumption DEF SetProduct, Ids
<1>19. CASE Bind
  BY <1>19 DEF Bind, Binding, NoFault
<1>20. CASE BindAgain
  BY <1>20 DEF BindAgain, Refused, Fault, NoFault
<1>21. CASE BindFails
  BY <1>21 DEF BindFails, Refused, Fault, NoFault, Binding, Die, Exit
<1>22. CASE Release
  BY <1>22 DEF Release, Fault, NoFault, Binding, Exit, Rest, Timer, AndroidNoted
<1>23. CASE ReadBack
  <2>1. file["gadget"] = None => Whole
    BY DEF AndroidWhole
  <2>2. file["gadget"] # None => IsDir(file["gadget"])
    BY DEF AndroidNoted, IsDir
  <2>3. CASE file' = file /\ unit' = "stop_post" /\ pc' = "hold" /\ ids' = ids
    BY <2>3
  <2>4. CASE Whole /\ (\A f \in File : file'[f] = None) /\ pc' = "none" /\ ids' = ids
    BY <2>4 DEF Whole
  <2> QED
    BY <1>23, <2>1, <2>2, <2>3, <2>4 DEF ReadBack, Exit, Rest, Read
<1>24. CASE UnlinkMtp
  BY <1>24 DEF UnlinkMtp, Relink
<1>25. CASE UnmountFfs
  BY <1>25 DEF UnmountFfs
<1>26. CASE RemoveFunction
  BY <1>26 DEF RemoveFunction
<1>27. CASE RemoveGadget
  BY <1>27 DEF RemoveGadget
<1>28. CASE RestoreVendor
  <2>1. s.gadget = "android" /\ "android" \in Gadget
    BY <1>28, <1>d DEF RestoreVendor, Ids, Informed, Edits, Gadget
  <2>2. Saved("idVendor", "vendor") = "old"
    BY <2>1 DEF Saved
  <2>3. ids'["android"].vendor = "old" /\ ids'["android"].product = ids["android"].product
    BY <1>28, <2>1, <2>2, IdsVendor DEF RestoreVendor, Ids, Vendors
  <2> QED
    BY <1>28, <2>3 DEF RestoreVendor, Ids
<1>29. CASE RestoreProduct
  <2>1. s.gadget = "android" /\ "android" \in Gadget
    BY <1>29, <1>d DEF RestoreProduct, Ids, Informed, Edits, Gadget
  <2>2. Saved("idProduct", "product") = "old"
    BY <2>1 DEF Saved
  <2>3. ids'["android"].vendor = ids["android"].vendor /\ ids'["android"].product = "old"
    BY <1>29, <2>1, <2>2, IdsProduct DEF RestoreProduct, Ids, Products
  <2> QED
    BY <1>29, <2>3 DEF RestoreProduct, Ids
<1>30. CASE Forget
  BY <1>30 DEF Forget, AndroidWhole, Whole
<1>31. CASE Start
  BY <1>31 DEF Start, Begin
<1>32. CASE Restart
  BY <1>32 DEF Restart, Begin
<1>33. CASE Ready
  BY <1>33 DEF Ready, Begin
<1>34. CASE StopPost
  BY <1>34 DEF StopPost, Gone, Begin
<1>35. CASE Crash
  BY <1>35 DEF Crash, Fault, Gone
<1>36. CASE Stop
  BY <1>36, HarmStays, <1>d DEF Stop, Die, Exit
<1>37. CASE Kill
  BY <1>37, HarmStays, <1>d DEF Kill, Fault, NoFault, Die, Exit, Rest
<1>38. CASE \E t \in timers : TimerTests(t)
  BY <1>38 DEF TimerTests, Fire
<1>39. CASE \E t \in timers : TimerRemoves(t)
  BY <1>39 DEF TimerRemoves, Fire
<1>40. CASE \E t \in timers : TimerRmdir(t)
  BY <1>40 DEF TimerRmdir, Fire
<1>41. CASE UNCHANGED vars
  BY <1>41 DEF vars
<1> QED
  BY <1>1, <1>2, <1>3, <1>4, <1>5, <1>6, <1>7, <1>8, <1>9, <1>10, <1>11, <1>12, <1>13, <1>14,
     <1>15, <1>16, <1>17, <1>18, <1>19, <1>20, <1>21, <1>22, <1>23, <1>24, <1>25, <1>26, <1>27,
     <1>28, <1>29, <1>30, <1>31, <1>32, <1>33, <1>34, <1>35, <1>36, <1>37, <1>38, <1>39, <1>40,
     <1>41, Steps

\* What bind edits, cleanup edits back.
LEMMA WholeNext ==
  ASSUME TypeOK, Typed, Phases, Variables, Recorded, Owned, Ordered, AndroidNoted, AndroidIds,
         AndroidWhole, [Next]_vars
  PROVE  AndroidWhole'
<1> USE DEF AndroidWhole, Whole, Before, Phases, Places, Preparing, Found, Relinking, Noting,
        Undoing, At, To, Set, history, unitvars, usbvars, runvars
<1> SUFFICES ASSUME halium', Unharmed'
             PROVE  AndroidWhole'
  BY DEF AndroidWhole
<1>a. halium /\ Unharmed
  BY HarmStays
<1>b. /\ s \in Locals /\ bound \in Opt(Gadget) /\ unit \in Units /\ None \notin Gadget
      /\ (umtprd = "ready" /\ pc # "none" => unit = "start_post")
      /\ None \notin {"halium", "mainline", "udc", "android", "luneos"}
      /\ (~dir => \A f \in File : file[f] = None)
      /\ {"gadget", "config", "udc", "mode", "idVendor", "idProduct", "adb_links"} = File
  BY Constants, FileContents DEF Typed, TypeOK, Opt, Units, Gadget
<1>c. Whole => bound # None
  BY Constants DEF Whole
<1>d. /\ pc \in Informed =>
           /\ s.gadget = "android" /\ s.config = "android" /\ s.udc = "udc" /\ s.mode = "halium"
           /\ file["gadget"] = "android" /\ dir
      /\ pc \in Found => s.gadget = "android" /\ bound = "android"
  BY <1>a, AtAndroid
<1> USE <1>a, <1>b, <1>c DEF Units
<1>1. CASE MakeState
  BY <1>1 DEF MakeState
<1>2. CASE Find
  BY <1>2 DEF Find, Fault, NoFault, Die, Exit, Write
<1>3. CASE NoteGadget
  BY <1>3 DEF NoteGadget, Note, Write
<1>4. CASE NoteConfig
  BY <1>4 DEF NoteConfig, Note, Write
<1>5. CASE NoteUdc
  BY <1>5 DEF NoteUdc, Note, Write
<1>6. CASE MakeFunction
  BY <1>6 DEF MakeFunction, HasFunction, Fault, NoFault, Die, Exit
<1>7. CASE MountFfs
  BY <1>7 DEF MountFfs, Exit, Fault, NoFault, Die
<1>8. CASE ReadState
  BY <1>8 DEF ReadState, NoFault, Die, Exit, Read
<1>9. CASE Hold
  BY <1>9 DEF Hold
<1>10. CASE Unbind
  BY <1>10, <1>d DEF Unbind, Informed, Edits
<1>11. CASE TakeAdb
  <2>1. /\ s.config = "android" /\ "android" \in Gadget /\ file["gadget"] = "android"
        /\ links["android"] \in Layouts
    BY <1>11, <1>d DEF TakeAdb, Relink, TakeOut, Informed, Edits, Typed, Gadget
  <2>2. Linked("adb", s.config)
    BY <1>11, <2>1, InLayout DEF TakeAdb, Linked
  <2>3. s'.adb
    BY <1>11, <2>2, LocalsSteps DEF TakeAdb
  <2> QED
    BY <1>11, <2>1, <2>3 DEF TakeAdb
<1>12. CASE LinkMtp
  <2>1. /\ s.config = "android" /\ "android" \in Gadget /\ file["gadget"] = "android"
        /\ links["android"] \in Layouts
    BY <1>12, <1>d DEF LinkMtp, Relink, Link, Informed, Edits, Typed, Gadget
  <2> QED
    BY <1>12, <2>1 DEF LinkMtp
<1>13. CASE LinkAdb
  <2>1. /\ s.config = "android" /\ "android" \in Gadget /\ file["gadget"] = "android"
        /\ links["android"] \in Layouts
    BY <1>13, <1>d DEF LinkAdb, Relink, Link, Informed, Edits, Typed, Gadget
  <2>2. links["android"] = <<"mtp">> /\ s.adb
    BY <1>13, <2>1 DEF LinkAdb, Ordered
  <2>3. Link("android", "adb") = <<"mtp", "adb">>
    BY <2>1, <2>2, InLayout, Relayout, LayoutsDiffer DEF Link, Linked
  <2>4. links'["android"] = <<"mtp", "adb">>
    BY <1>13, <2>1, <2>2, <2>3 DEF LinkAdb, Relink, Typed
  <2> QED
    BY <1>13, <2>1, <2>4 DEF LinkAdb
<1>14. CASE NoteAdb
  BY <1>14 DEF NoteAdb, Note, Write
<1>15. CASE SaveVendor
  <2>1. \A f \in File \ {"idVendor"} : file'[f] = file[f]
    BY <1>15, WriteStep, FileContents DEF Typed, SaveVendor, Write
  <2> QED
    BY <1>15, <2>1, <1>d DEF SaveVendor, Informed, Edits
<1>16. CASE SaveProduct
  BY <1>16 DEF SaveProduct, Note, Write
<1>17. CASE SetVendor
  BY <1>17, <1>d DEF SetVendor, Ids, Informed, Edits
<1>18. CASE SetProduct
  BY <1>18, <1>d DEF SetProduct, Ids, Informed, Edits
<1>19. CASE Bind
  <2>1. /\ s.config = "android" /\ "android" \in Gadget /\ file["gadget"] = "android"
        /\ links["android"] \in Layouts
    BY <1>19, <1>d DEF Bind, Informed, Edits, Typed, Gadget
  <2>2. s.gadget = "android" /\ pc = "bind" /\ s' = s
    BY <1>19, <1>d DEF Bind, Informed, Edits
  <2>3. CASE unit = "start_post"
    BY <1>19, <2>1, <2>2, <2>3 DEF Bind, Binding
  <2>4. CASE unit = "stop_post"
    <3>1. /\ bound' = "android" /\ links' = links /\ ids' = ids /\ unit' = unit /\ pc' = "forget"
          /\ links["android"] \in {<<>>, <<"adb">>}
      BY <1>19, <2>2, <2>4, BindLinks
    <3>2. links["android"] = <<"adb">>
      BY <2>2, <3>1, LayoutsDiffer
    <3>3. ids["android"].vendor = "old" /\ ids["android"].product = "old"
      BY <2>2, <2>4 DEF AndroidIds
    <3> QED
      BY <3>1, <3>2, <3>3
  <2> QED
    BY <2>2, <2>3, <2>4
<1>20. CASE BindAgain
  BY <1>20 DEF BindAgain, Refused, Fault, NoFault
<1>21. CASE BindFails
  <2>1. pc = "bind"
    BY <1>21 DEF BindFails, Refused
  <2>2. s.gadget = "android" /\ s.config = "android" /\ s.udc = "udc" /\ file["gadget"] = "android"
    BY <2>1, <1>d DEF Informed, Edits
  <2>3. unit = "start_post"
    <3>1. SUFFICES ASSUME unit = "stop_post" PROVE FALSE
      BY <2>1
    <3>2. bound = None
      BY <2>1 DEF Owned, Edits
    <3>3. /\ links["android"] \in {<<>>, <<"adb">>}
          /\ links["android"] \in {<<"adb">>, <<"mtp", "adb">>}
      BY <2>1, <2>2, <3>1 DEF Ordered
    <3>4. links["android"] = <<"adb">> /\ links["android"] # <<>>
      BY <3>3, LayoutsDiffer
    <3>5. ~Linked("mtp", "android")
      BY <3>4, InLayout, LayoutsDiffer DEF Linked, Layouts
    <3>6. CanBind(s.gadget)
      BY <2>2, <3>2, <3>4, <3>5 DEF CanBind
    <3> QED
      BY <1>21, <3>1, <3>6, HarmStays
  <2> QED
    BY <1>21, <2>1, <2>2, <2>3 DEF BindFails, Binding, Die, Exit
<1>22. CASE Release
  BY <1>22 DEF Release, Fault, NoFault, Binding, Exit, Rest, Timer, AndroidNoted, NoFiles
<1>23. CASE ReadBack
  <2>1. file["gadget"] # None => IsDir(file["gadget"])
    BY DEF AndroidNoted, IsDir
  <2>2. CASE file' = file /\ unit' = "stop_post" /\ pc' = "hold"
    BY <1>23, <2>2 DEF ReadBack
  <2>3. CASE file["gadget"] = None /\ pc' = "none"
    BY <1>23, <2>3 DEF ReadBack
  <2> QED
    BY <1>23, <2>1, <2>2, <2>3 DEF ReadBack, Exit, Read
<1>24. CASE UnlinkMtp
  <2>1. /\ s.config = "android" /\ "android" \in Gadget /\ file["gadget"] = "android"
        /\ links["android"] \in Layouts
    BY <1>24, <1>d DEF UnlinkMtp, Relink, Informed, Edits, Typed, Gadget
  <2>2. links["android"] \in {<<"adb">>, <<"mtp", "adb">>}
    BY <1>24 DEF UnlinkMtp
  <2>3. RemoveFirst(links["android"], "mtp") = <<"adb">>
    BY <2>1, <2>2, Relayout, LayoutsDiffer
  <2>4. links'["android"] = <<"adb">>
    BY <1>24, <2>1, <2>3 DEF UnlinkMtp, Relink, Typed
  <2> QED
    BY <1>24, <2>1, <2>4 DEF UnlinkMtp
<1>25. CASE UnmountFfs
  BY <1>25 DEF UnmountFfs
<1>26. CASE RemoveFunction
  BY <1>26, <1>d DEF RemoveFunction, Informed, Edits
<1>27. CASE RemoveGadget
  BY <1>27 DEF RemoveGadget
<1>28. CASE RestoreVendor
  BY <1>28, <1>d DEF RestoreVendor, Ids, Saved, Informed, Edits
<1>29. CASE RestoreProduct
  BY <1>29, <1>d DEF RestoreProduct, Ids, Saved, Informed, Edits
<1>30. CASE Forget
  BY <1>30 DEF Forget
<1>31. CASE Start
  BY <1>31 DEF Start, Begin
<1>32. CASE Restart
  BY <1>32 DEF Restart, Begin
<1>33. CASE Ready
  BY <1>33 DEF Ready, Begin
<1>34. CASE StopPost
  <2>1. Whole => bound' = bound
    <3>1. ASSUME Whole
          PROVE  ~Linked("mtp", bound)
      <4>1. links[bound] = <<"adb">>
        BY <3>1
      <4>2. ~Contains(<<"adb">>, "mtp")
        BY InLayout, LayoutsDiffer DEF Layouts
      <4> QED
        BY <4>1, <4>2 DEF Linked
    <3> QED
      BY <1>34, <3>1 DEF StopPost, Gone, Begin
  <2> QED
    BY <1>34, <2>1 DEF StopPost, Gone, Begin
<1>35. CASE Crash
  <2>1. Whole => bound' = bound
    <3>1. ASSUME Whole
          PROVE  ~Linked("mtp", bound)
      <4>1. links[bound] = <<"adb">>
        BY <3>1
      <4>2. ~Contains(<<"adb">>, "mtp")
        BY InLayout, LayoutsDiffer DEF Layouts
      <4> QED
        BY <4>1, <4>2 DEF Linked
    <3> QED
      BY <1>35, <3>1 DEF Crash, Fault, Gone
  <2> QED
    BY <1>35, <2>1 DEF Crash, Fault, Gone
<1>36. CASE Stop
  <2>1. links["android"] \in {<<"adb">>, <<"mtp", "adb">>} \/ (unit = "stop_post" /\ Stop)
    <3>1. pc \in {"link", "relink"} => unit = "start_post" /\ s.config = "android"
      BY <1>d DEF Informed, Edits
    <3>2. links["android"] \in Layouts
      BY DEF Typed, Gadget
    <3>3. CASE pc \in {"link", "relink"}
      <4>1. Linked("adb", "android")
        BY <1>36, <3>1, <3>3, HarmStays
      <4> QED
        BY <4>1, <3>2, InLayout DEF Linked
    <3>4. CASE pc \notin {"link", "relink"}
      BY <3>4
    <3> QED
      BY <3>3, <3>4
  <2> QED
    BY <1>36, <2>1, HarmStays DEF Stop, Die, Exit
<1>37. CASE Kill
  <2>1. links["android"] \in {<<"adb">>, <<"mtp", "adb">>} \/ (unit = "stop_post" /\ Stop)
    <3>1. pc \in {"link", "relink"} => unit = "start_post" /\ s.config = "android"
      BY <1>d DEF Informed, Edits
    <3>2. links["android"] \in Layouts
      BY DEF Typed, Gadget
    <3>3. CASE pc \in {"link", "relink"}
      <4>1. Linked("adb", "android")
        BY <1>37, <3>1, <3>3, HarmStays
      <4> QED
        BY <4>1, <3>2, InLayout DEF Linked
    <3>4. CASE pc \notin {"link", "relink"}
      BY <3>4
    <3> QED
      BY <3>3, <3>4
  <2> QED
    BY <1>37, <2>1, HarmStays DEF Kill, Fault, NoFault, Die, Exit, Rest
<1>38. CASE \E t \in timers : TimerTests(t)
  BY <1>38 DEF TimerTests, Fire
<1>39. CASE \E t \in timers : TimerRemoves(t)
  BY <1>39 DEF TimerRemoves, Fire
<1>40. CASE \E t \in timers : TimerRmdir(t)
  BY <1>40 DEF TimerRmdir, Fire
<1>41. CASE UNCHANGED vars
  BY <1>41 DEF vars
<1> QED
  BY <1>1, <1>2, <1>3, <1>4, <1>5, <1>6, <1>7, <1>8, <1>9, <1>10, <1>11, <1>12, <1>13, <1>14,
     <1>15, <1>16, <1>17, <1>18, <1>19, <1>20, <1>21, <1>22, <1>23, <1>24, <1>25, <1>26, <1>27,
     <1>28, <1>29, <1>30, <1>31, <1>32, <1>33, <1>34, <1>35, <1>36, <1>37, <1>38, <1>39, <1>40,
     <1>41, Steps

\* Nothing of ours is bound when cleanup is over.
LEMMA LuneosNext ==
  ASSUME TypeOK, Typed, Phases, Variables, Recorded, Owned, Ordered, Luneos, [Next]_vars
  PROVE  Luneos'
<1> USE DEF Luneos, Before, NoFiles, Phases, Places, Preparing, Found, Relinking, Noting, Undoing,
        At, To, Set, history, unitvars, usbvars, runvars
<1> SUFFICES ASSUME ~halium', Unharmed'
             PROVE  Luneos'
  BY DEF Luneos
<1>a. ~halium /\ Unharmed
  BY HarmStays
<1>b. /\ s \in Locals /\ bound \in Opt(Gadget) /\ unit \in Units /\ None \notin Gadget
      /\ (umtprd = "ready" /\ pc # "none" => unit = "start_post")
      /\ None \notin {"halium", "mainline", "udc", "android", "luneos"}
      /\ (~dir => \A f \in File : file[f] = None)
      /\ {"gadget", "config", "udc", "mode", "idVendor", "idProduct", "adb_links"} = File
  BY Constants, FileContents DEF Typed, TypeOK, Opt, Units, Gadget
<1>c. pc \in Informed => s.gadget = "luneos" /\ s.mode = "mainline" /\ file["gadget"] = "luneos"
  BY <1>a, InScript DEF Variables, Luneos, Gadget
<1> USE <1>a, <1>b DEF Units
<1>1. CASE MakeState
  BY <1>1 DEF MakeState
<1>2. CASE Find
  BY <1>2 DEF Find, Fault, NoFault, Die, Exit, Write
<1>3. CASE NoteGadget
  <2>1. s.gadget = "luneos" /\ bound = None /\ (dir => file["mode"] = "mainline")
    BY <1>3 DEF NoteGadget, Note, Variables, Recorded
  <2>2. /\ file'["gadget"] = (IF dir THEN "luneos" ELSE file["gadget"])
        /\ \A f \in File : f # "gadget" => file'[f] = file[f]
    BY <1>3, <2>1, WriteStep, FileContents, InScript DEF NoteGadget, Note, Write, Opt, Contents
  <2> QED
    BY <1>3, <2>1, <2>2 DEF NoteGadget, Note
<1>4. CASE NoteConfig
  BY <1>4 DEF NoteConfig, Note, Write
<1>5. CASE NoteUdc
  BY <1>5 DEF NoteUdc, Note, Write
<1>6. CASE MakeFunction
  BY <1>6 DEF MakeFunction, HasFunction, Fault, NoFault, Die, Exit
<1>7. CASE MountFfs
  BY <1>7 DEF MountFfs, Exit, Fault, NoFault, Die
<1>8. CASE ReadState
  BY <1>8 DEF ReadState, NoFault, Die, Exit, Read
<1>9. CASE Hold
  BY <1>9 DEF Hold
<1>10. CASE Unbind
  BY <1>10 DEF Unbind
<1>11. CASE TakeAdb
  BY <1>11 DEF TakeAdb, Relink, TakeOut
<1>12. CASE LinkMtp
  BY <1>12 DEF LinkMtp, Relink, Link
<1>13. CASE LinkAdb
  BY <1>13 DEF LinkAdb, Relink, Link
<1>14. CASE NoteAdb
  BY <1>14 DEF NoteAdb, Note, Write
<1>15. CASE SaveVendor
  <2>1. \A f \in File \ {"idVendor"} : file'[f] = file[f]
    BY <1>15, WriteStep, FileContents DEF Typed, SaveVendor, Write
  <2> QED
    BY <1>15, <2>1 DEF SaveVendor
<1>16. CASE SaveProduct
  BY <1>16 DEF SaveProduct, Note, Write
<1>17. CASE SetVendor
  BY <1>17 DEF SetVendor, Ids
<1>18. CASE SetProduct
  BY <1>18 DEF SetProduct, Ids
<1>19. CASE Bind
  <2>1. s.gadget = "luneos" /\ s.mode = "mainline" /\ file["gadget"] = "luneos" /\ pc = "bind"
    BY <1>19, <1>c DEF Bind, Informed, Edits
  <2>2. unit = "start_post"
    BY <2>1 DEF Owned
  <2> QED
    BY <1>19, <2>1, <2>2 DEF Bind, Binding
<1>20. CASE BindAgain
  BY <1>20 DEF BindAgain, Refused, Fault, NoFault
<1>21. CASE BindFails
  BY <1>21, <1>c DEF BindFails, Refused, Fault, NoFault, Binding, Die, Exit, Owned, Edits, Informed
<1>22. CASE Release
  BY <1>22 DEF Release, Fault, NoFault, Binding, Exit, Rest, Timer
<1>23. CASE ReadBack
  BY <1>23 DEF ReadBack, Exit, Rest, Read, IsDir
<1>24. CASE UnlinkMtp
  BY <1>24 DEF UnlinkMtp, Relink
<1>25. CASE UnmountFfs
  BY <1>25 DEF UnmountFfs
<1>26. CASE RemoveFunction
  BY <1>26 DEF RemoveFunction
<1>27. CASE RemoveGadget
  BY <1>27 DEF RemoveGadget, Owned, Edits
<1>28. CASE RestoreVendor
  BY <1>28 DEF RestoreVendor, Ids, Saved
<1>29. CASE RestoreProduct
  BY <1>29 DEF RestoreProduct, Ids, Saved
<1>30. CASE Forget
  BY <1>30 DEF Forget
<1>31. CASE Start
  BY <1>31 DEF Start, Begin
<1>32. CASE Restart
  BY <1>32 DEF Restart, Begin
<1>33. CASE Ready
  BY <1>33 DEF Ready, Begin
<1>34. CASE StopPost
  BY <1>34 DEF StopPost, Gone, Begin
<1>35. CASE Crash
  BY <1>35 DEF Crash, Fault, Gone
<1>36. CASE Stop
  BY <1>36 DEF Stop, Die, Exit
<1>37. CASE Kill
  BY <1>37, HarmStays DEF Kill, Fault, NoFault, Die, Exit, Rest
<1>38. CASE \E t \in timers : TimerTests(t)
  BY <1>38 DEF TimerTests, Fire
<1>39. CASE \E t \in timers : TimerRemoves(t)
  BY <1>39 DEF TimerRemoves, Fire
<1>40. CASE \E t \in timers : TimerRmdir(t)
  BY <1>40 DEF TimerRmdir, Fire
<1>41. CASE UNCHANGED vars
  BY <1>41 DEF vars
<1> QED
  BY <1>1, <1>2, <1>3, <1>4, <1>5, <1>6, <1>7, <1>8, <1>9, <1>10, <1>11, <1>12, <1>13, <1>14,
     <1>15, <1>16, <1>17, <1>18, <1>19, <1>20, <1>21, <1>22, <1>23, <1>24, <1>25, <1>26, <1>27,
     <1>28, <1>29, <1>30, <1>31, <1>32, <1>33, <1>34, <1>35, <1>36, <1>37, <1>38, <1>39, <1>40,
     <1>41, Steps

-------------------------------------------------------------------------------
(* The inductive invariant, and the theorems                               *)

IInv ==
  /\ TypeOK /\ Typed /\ Phases /\ Variables /\ Recorded /\ Owned /\ Ordered /\ Layout
  /\ AndroidNoted /\ AndroidIds /\ AndroidWhole /\ Luneos /\ Covered

\* The invariant holds at first.
LEMMA IInvInit == Init => IInv
<1> SUFFICES ASSUME Init PROVE IInv
  OBVIOUS
<1>1. /\ unit = "dead" /\ pc = "none" /\ s = NoVars /\ umtprd = "off" /\ dir = FALSE
      /\ marker = None
      /\ file = [f \in File |-> None] /\ timers = {} /\ func = None
      /\ bound = (IF halium THEN "android" ELSE None) /\ harmed = {} /\ halium \in BOOLEAN
  BY DEF Init
<1>2. /\ links["android"] = <<"adb">> /\ links["luneos"] = <<>>
      /\ ids["android"].vendor = "old" /\ ids["android"].product = "old"
  BY DEF Init, Gadget, Old
<1>3. \A f \in File : file[f] = None
  BY <1>1
<1>4. {"gadget", "config", "udc", "mode", "idVendor", "idProduct", "adb_links"} = File
  BY DEF File
<1>5. NoVars.tries = 0 /\ NoVars.adb = FALSE
  BY DEF NoVars
<1>6. Typed
  BY TypedInit
<1>7. TypeOK
  <2>1. \A g \in Gadget : IsInjective(links[g]) /\ ToSet(links[g]) \subseteq {"adb", "mtp"}
    BY <1>6, InLayout DEF Typed
  <2> QED
    BY <1>1, <1>3, <1>5, <2>1 DEF TypeOK, Gadget
<1>8. Phases /\ Variables /\ Recorded
  BY <1>1, <1>3, <1>4, <1>5
     DEF Phases, Places, Variables, Recorded, Found, Informed, Edits, Relinking, Noting, Undoing
<1>9. Owned
  BY <1>1, <1>3, <1>4, Constants DEF Owned, Informed, Edits, Relinking, Noting, Undoing
<1>10. Ordered
  BY <1>1 DEF Ordered, Noting
<1>11. Layout
  <2>1. ~Contains(<<"adb">>, "mtp")
    BY InLayout, LayoutsDiffer DEF Layouts
  <2> QED
    BY <1>1, <1>2, <2>1 DEF Layout, Linked
<1>12. AndroidNoted /\ AndroidIds /\ AndroidWhole
  BY <1>1, <1>2, <1>3, <1>4 DEF AndroidNoted, AndroidIds, AndroidWhole, NoFiles, Whole
<1>13. Luneos /\ Covered
  BY <1>1, <1>3, <1>4, Constants
     DEF Luneos, Covered, NoFiles, Found, Marked, Edits, Relinking, Noting, Undoing
<1> QED
  BY <1>6, <1>7, <1>8, <1>9, <1>10, <1>11, <1>12, <1>13 DEF IInv

\* Every step keeps it.
LEMMA IInvNext == IInv /\ [Next]_vars => IInv'
<1> SUFFICES ASSUME IInv, [Next]_vars PROVE IInv'
  OBVIOUS
<1>1. /\ TypeOK /\ Typed /\ Phases /\ Variables /\ Recorded /\ Owned /\ Ordered /\ Layout
      /\ AndroidNoted /\ AndroidIds /\ AndroidWhole /\ Luneos /\ Covered
  BY DEF IInv
<1>2. TypeOK' /\ Typed' /\ Phases'
  BY <1>1, TypeOKNext, TypedNext, PhasesNext
<1>3. Variables' /\ Recorded' /\ Owned' /\ Ordered'
  BY <1>1, VariablesNext, RecordedNext, OwnedNext, OrderedNext
<1>4. Layout' /\ Covered'
  BY <1>1, LayoutNext, CoveredNext
<1>5. AndroidNoted' /\ AndroidIds' /\ AndroidWhole' /\ Luneos'
  BY <1>1, NotedNext, IdsNext, WholeNext, LuneosNext
<1> QED
  BY <1>2, <1>3, <1>4, <1>5 DEF IInv

\* It holds always.
LEMMA Invariant == Spec => []IInv
BY IInvInit, IInvNext, PTL DEF Spec

\* What the unit, the scripts, configfs and the state directory hold: no function is linked twice,
\* the tries are five, a directory that is gone has neither files nor a marker, and no script runs
\* while the unit rests or serves.
THEOREM TypeCorrect == Spec => []TypeOK
<1>1. IInv => TypeOK
  BY DEF IInv
<1> QED
  BY <1>1, Invariant, PTL

\* A host never sees the MTP function behind another one, or without the IDs that go with what is
\* linked: whichever runs were cut short, and wherever.
THEOREM LayoutHolds == Spec => []Layout
<1>1. IInv => Layout
  BY DEF IInv
<1> QED
  BY <1>1, Invariant, PTL

\* Whenever the service rests, and cleanup was not killed, nor bind or prepare at the places of
\* Harm, nor the UDC refused a gadget it could drive: Android's gadget is bound as it was, with adb
\* and with its IDs, and none of ours is bound.
THEOREM GadgetReturns == Spec => []GadgetComesBack
<1>1. IInv => GadgetComesBack
  <2> SUFFICES ASSUME IInv, unit \in {"dead", "wait"}, "gadget" \notin harmed
               PROVE  IF halium
                      THEN bound = "android" /\ links["android"] = <<"adb">> /\ ids["android"] = Old
                      ELSE bound = None
    BY DEF GadgetComesBack
  <2>1. CASE halium
    <3>1. Whole /\ Typed
      BY <2>1 DEF IInv, AndroidWhole, Before, Unharmed
    <3> QED
      BY <2>1, <3>1, WholeIds
  <2>2. CASE ~halium
    BY <2>2 DEF IInv, Luneos, Before, Unharmed
  <2> QED
    BY <2>1, <2>2
<1> QED
  BY <1>1, Invariant, PTL

\* The scripts change what the UDC drives only while their marker stands, but for a timer that had
\* tested an older marker when theirs was made.
THEOREM MarkerHeld == Spec => MarkerCovers
<1>1. IInv /\ [Next]_vars => [bound' # bound /\ umtprd' = umtprd => marker # None \/ raced]_vars
  <2> SUFFICES ASSUME IInv, [Next]_vars, bound' # bound, umtprd' = umtprd
               PROVE  marker # None \/ raced
    OBVIOUS
  <2>1. Unbind \/ Bind \/ StopPost \/ Crash
    BY Effects
  <2>2. Unbind \/ Bind
    <3>1. Gone => bound' = bound \/ umtprd' # umtprd
      BY DEF Gone
    <3> QED
      BY <2>1, <3>1 DEF StopPost, Crash
  <2>3. pc \in Marked
    BY <2>2 DEF Unbind, Bind, At, Marked, Edits
  <2> QED
    BY <2>3 DEF IInv, Covered
<1> QED
  BY <1>1, Invariant, PTL DEF Spec, MarkerCovers

====
