------------------------------- MODULE MtpGadget -------------------------------
(***************************************************************************)
(* luneos-mtp-gadget and the unit that calls it: prepare before umtprd is  *)
(* started, bind once it is ready, cleanup when it has ended, however.     *)
(* The scripts build an MTP function in the USB gadget that Android has    *)
(* bound with adb in it (halium), or in one of their own (mainline).       *)
(*                                                                         *)
(* A step is a command of a script that leaves something behind.  Between  *)
(* any two of them the service may be stopped, which ends prepare and bind *)
(* where they are and starts cleanup, and timers of earlier scripts fire.  *)
(***************************************************************************)
EXTENDS Integers, Sequences, FiniteSets, SequencesExt

CONSTANTS
  None,
  MaxTokens,  \* bound: pids of scripts that the marker and the timers still name
  MaxStarts,  \* bound: starts by storaged
  MaxFaults   \* bound: kills, refusals and crashes

ASSUME MGAssumption ==
  /\ {MaxTokens, MaxStarts, MaxFaults} \subseteq Nat
  /\ None \notin 1 .. MaxTokens
  /\ None \notin {"android", "luneos", "udc", "halium", "mainline", "adb", "old", "mtp", "mtp+adb"}

VARIABLES
  halium,   \* Android has bound a gadget
  \* the unit, and umtprd
  unit, want, umtprd,
  \* the running script: its place and its variables
  pc, s,
  \* configfs: the gadget the UDC is bound to; functions linked, in order; who has the
  \* directory of ours; whether our own gadget is there; device IDs; functionfs
  bound, links, func, own, ids, mounted,
  \* /run/luneos-mtp: the directory, the files in it, the marker
  dir, file, marker,
  timers,   \* of release_marker_later: [tok, at, bg]
  \* bounds, and history
  starts, faults,
  harmed,   \* what the code does not undo has happened: see Harm
  raced     \* a marker was made while an older timer stood between its test and its rm

unitvars == <<unit, want, umtprd>>
usbvars  == <<bound, links, func, own, ids, mounted>>
runvars  == <<dir, file, marker>>
history  == <<halium, starts, harmed, raced>>
vars     == <<unitvars, pc, s, usbvars, runvars, timers, faults, history>>

Gadget == {"android", "luneos"}
File   == {"gadget", "config", "udc", "mode", "idVendor", "idProduct", "adb_links"}
Token  == 1 .. MaxTokens
NoVars == [gadget |-> None, config |-> None, udc |-> None, mode |-> None, adb |-> FALSE,
           tries |-> 0, busy |-> FALSE]
Old    == [vendor |-> "old", product |-> "old"]
Mtp    == [vendor |-> "mtp", product |-> "mtp"]

Init ==
  /\ halium \in BOOLEAN
  /\ unit = "dead" /\ want = FALSE /\ umtprd = "off"
  /\ pc = "none" /\ s = NoVars
  /\ bound = (IF halium THEN "android" ELSE None)
  /\ links = [g \in Gadget |-> IF g = "android" THEN <<"adb">> ELSE <<>>]
  /\ func = None /\ own = FALSE /\ mounted = FALSE
  /\ ids = [g \in Gadget |-> IF g = "android" THEN Old ELSE Mtp]
  /\ dir = FALSE /\ file = [f \in File |-> None] /\ marker = None
  /\ timers = {} /\ starts = 0 /\ faults = 0 /\ harmed = {} /\ raced = FALSE

At(p)    == pc = p
To(p)    == pc' = p
Set(v)   == s' = v
Fault    == faults < MaxFaults /\ faults' = faults + 1
NoFault  == UNCHANGED faults
IsDir(g) == g = "android" \/ (g = "luneos" /\ own)
Linked(x, g) == Contains(links[g], x)

\* A file cannot be written when the directory has gone; nobody looks.
Write(f, c) == file' = (IF dir THEN [file EXCEPT ![f] = c] ELSE file)

\* The script is over, and the unit goes on with u.
Exit(u) == To("none") /\ Set(NoVars) /\ unit' = u
Die     == Exit("stop_post")

-------------------------------------------------------------------------------
(* prepare                                                                 *)

MakeState ==
  /\ At("mkdir")
  /\ dir' = TRUE /\ To("find")
  /\ UNCHANGED <<unitvars, s, usbvars, file, marker, timers, faults, history>>

\* find_bound_gadget, or a gadget of our own; there may be no UDC for it.
Find ==
  /\ At("find")
  /\ Write("mode", IF bound # None THEN "halium" ELSE "mainline")
  /\ IF bound # None
     THEN /\ Set([s EXCEPT !.gadget = bound]) /\ To("gadget") /\ NoFault
          /\ UNCHANGED <<own, ids, unit>>
     ELSE /\ own' = TRUE /\ ids' = [ids EXCEPT !["luneos"] = Mtp]
          /\ \/ Set([s EXCEPT !.gadget = "luneos"]) /\ To("gadget") /\ NoFault /\ UNCHANGED unit
             \/ Fault /\ Die
  /\ UNCHANGED <<want, umtprd, bound, links, func, mounted, dir, marker, timers, history>>

\* Three files tell bind and cleanup what was found.
Note(f, c, next) ==
  /\ At(f)
  /\ Write(f, c) /\ To(next)
  /\ UNCHANGED <<unitvars, s, usbvars, dir, marker, timers, faults, history>>
Notes ==
  \/ Note("gadget", s.gadget, "config")
  \/ Note("config", s.gadget, "udc")
  \/ Note("udc", "udc", "function")

\* Mutant: mkdir also when the directory is there from a run that lost its state.
HasFunction_Never(g) == FALSE
HasFunction(g) == func = g

\* A FunctionFS instance has its name once: the other gadget must not have it.
MakeFunction ==
  /\ At("function")
  /\ \/ /\ func = None \/ HasFunction(s.gadget)
        /\ func' = s.gadget
        /\ To("mount") /\ NoFault /\ UNCHANGED <<s, unit>>
     \/ /\ ~HasFunction(s.gadget)
        /\ IF func = None THEN Fault ELSE NoFault
        /\ Die /\ UNCHANGED func
  /\ UNCHANGED <<want, umtprd, bound, links, own, ids, mounted, runvars, timers, history>>

MountFfs ==
  /\ At("mount")
  /\ \/ mounted' = TRUE /\ Exit("start") /\ NoFault
     \/ ~mounted /\ Fault /\ Die /\ UNCHANGED mounted
  /\ UNCHANGED <<want, umtprd, bound, links, func, own, ids, runvars, timers, history>>

-------------------------------------------------------------------------------
(* bind                                                                    *)

Read == [s EXCEPT !.gadget = file["gadget"], !.config = file["config"], !.udc = file["udc"],
                  !.mode = file["mode"]]
Ep1  == mounted /\ umtprd = "ready"

\* Ends when there is no gadget, or the endpoints do not come up in ten seconds.
ReadState ==
  /\ At("read") /\ NoFault
  /\ IF IsDir(file["gadget"]) /\ Ep1
     THEN Set(Read) /\ To("hold") /\ UNCHANGED unit
     ELSE Die
  /\ UNCHANGED <<want, umtprd, usbvars, runvars, timers, history>>

\* hold_marker: a pid that neither a marker nor a timer has (the directory is there, with
\* the files in it).
Used == {marker} \cup {t.tok : t \in timers}
Hold ==
  /\ At("hold")
  /\ Token \ Used # {} /\ marker' = Min(Token \ Used)
  /\ dir' = TRUE /\ To("unbind")
  /\ raced' = (raced \/ \E t \in timers : t.at = "mine")
  /\ UNCHANGED <<unitvars, s, usbvars, file, timers, faults, halium, starts, harmed>>

Unbind ==
  /\ At("unbind")
  /\ bound' = (IF bound = s.gadget THEN None ELSE bound)
  /\ To(IF unit = "start_post" THEN "adb" ELSE "unlink")
  /\ UNCHANGED <<unitvars, s, links, func, own, ids, mounted, runvars, timers, faults, history>>

Relink(g, l) == links' = [links EXCEPT ![g] = l]

\* Mutant: adb stays where it is, and MTP comes behind it.
TakeOut_Nothing(g) == links[g]
TakeOut(g) == RemoveFirst(links[g], "adb")

TakeAdb ==
  /\ At("adb")
  /\ Relink(s.config, TakeOut(s.config))
  /\ Set([s EXCEPT !.adb = Linked("adb", s.config)])
  /\ To("link")
  /\ UNCHANGED <<unitvars, bound, func, own, ids, mounted, runvars, timers, faults, history>>

\* Mutant: linked without a look whether it is.
Link_Always(g, x) == Append(links[g], x)
Link(g, x) == IF Linked(x, g) THEN links[g] ELSE Append(links[g], x)
LinkMtp ==
  /\ At("link")
  /\ Relink(s.config, Link(s.config, "mtp"))
  /\ To("relink")
  /\ UNCHANGED <<unitvars, s, bound, func, own, ids, mounted, runvars, timers, faults, history>>
LinkAdb ==
  /\ At("relink")
  /\ Relink(s.config, IF s.adb THEN Link(s.config, "adb") ELSE links[s.config])
  /\ To("adb_links")
  /\ UNCHANGED <<unitvars, s, bound, func, own, ids, mounted, runvars, timers, faults, history>>
NoteAdb == Note("adb_links", IF s.adb THEN "adb" ELSE None, "idVendor")

\* set_mtp_ids: the gadget's own IDs are kept, unless they are already.
SaveVendor ==
  /\ At("idVendor")
  /\ IF file["idVendor"] = None
     THEN Write("idVendor", ids[s.gadget].vendor) /\ To("idProduct")
     ELSE To("vendor") /\ UNCHANGED file
  /\ UNCHANGED <<unitvars, s, usbvars, dir, marker, timers, faults, history>>
SaveProduct == Note("idProduct", ids[s.gadget].product, "vendor")

Ids(p, field, c, next) ==
  /\ At(p)
  /\ ids' = [ids EXCEPT ![s.gadget][field] = c] /\ To(next)
  /\ UNCHANGED <<unitvars, s, bound, links, func, own, mounted, runvars, timers, faults, history>>
SetIds ==
  \/ Ids("vendor", "vendor", "mtp", "product")
  \/ Ids("product", "product", IF file["adb_links"] = "adb" THEN "mtp+adb" ELSE "mtp", "bind")

-------------------------------------------------------------------------------
(* The UDC and the marker, in bind and in cleanup                          *)

Binding == unit = "start_post"
Rest    == IF want THEN "wait" ELSE "dead"     \* Restart=on-failure: only a stop is no failure

\* A UDC drives one gadget, that has functions, ours with its descriptors.
CanBind(g) ==
  /\ s.udc # None /\ bound \in {None, g} /\ links[g] # <<>>
  /\ Linked("mtp", g) => func = g /\ Ep1
Bind ==
  /\ At("bind") /\ CanBind(s.gadget) /\ NoFault
  /\ bound' = s.gadget
  /\ To(IF Binding THEN "release" ELSE "forget")
  /\ UNCHANGED <<unitvars, s, links, func, own, ids, mounted, runvars, timers, history>>

\* An attempt fails, because it must or because the UDC is busy for a while.  After
\* the fifth, bind clears the marker and dies, and cleanup goes on without.
Refused == At("bind") /\ IF CanBind(s.gadget) /\ ~s.busy THEN Fault ELSE NoFault
BindAgain ==
  /\ Refused /\ s.tries < 4
  /\ Set([s EXCEPT !.tries = @ + 1, !.busy = CanBind(s.gadget)])
  /\ UNCHANGED <<unitvars, pc, usbvars, runvars, timers, history>>
BindFails ==
  /\ Refused /\ s.tries = 4
  /\ IF Binding
     THEN marker' = None /\ Die /\ UNCHANGED harmed
     ELSE /\ To("forget")
          /\ harmed' = harmed \cup (IF CanBind(s.gadget) THEN {"gadget"} ELSE {})
          /\ UNCHANGED <<marker, s, unit>>
  /\ UNCHANGED <<want, umtprd, usbvars, dir, file, timers, halium, starts, raced>>

\* release_marker_later: through systemd, or else in the background of the script, where
\* systemd ends it with the unit's other processes -- at once, after cleanup.
Timer(bg) == [tok |-> marker, at |-> "set", bg |-> bg]
Release ==
  /\ At("release")
  /\ \/ timers' = timers \cup {Timer(FALSE)} /\ NoFault /\ UNCHANGED harmed
     \/ /\ Fault
        /\ timers' = timers \cup (IF Binding THEN {Timer(TRUE)} ELSE {})
        /\ harmed' = harmed \cup (IF Binding THEN {} ELSE {"marker"})
  /\ Exit(IF ~Binding THEN Rest ELSE IF umtprd = "ready" THEN "running" ELSE "stop_post")
  /\ UNCHANGED <<want, umtprd, usbvars, runvars, halium, starts, raced>>

\* The timer's own script: is this my marker? Then it goes, and the directory if empty.
Fire(t, u) == timers' = (timers \ {t}) \cup u
\* Mutants: whoever's marker it is; the timer's own pid is compared.
Mine_Any(t) == TRUE
Mine_Never(t) == FALSE
Mine(t) == marker = t.tok

TimerTests(t) ==
  /\ t.at = "set"
  /\ Fire(t, {[t EXCEPT !.at = IF Mine(t) THEN "mine" ELSE "rmdir"]})
  /\ UNCHANGED <<unitvars, pc, s, usbvars, runvars, faults, history>>
TimerRemoves(t) ==
  /\ t.at = "mine"
  /\ marker' = None /\ Fire(t, {[t EXCEPT !.at = "rmdir"]})
  /\ UNCHANGED <<unitvars, pc, s, usbvars, dir, file, faults, history>>
TimerRmdir(t) ==
  /\ t.at = "rmdir" /\ Fire(t, {})
  /\ dir' = (dir /\ (marker # None \/ \E f \in File : file[f] # None))
  /\ UNCHANGED <<unitvars, pc, s, usbvars, file, marker, faults, history>>
TimerStep(t) == TimerTests(t) \/ TimerRemoves(t) \/ TimerRmdir(t)

-------------------------------------------------------------------------------
(* cleanup                                                                 *)

\* Without a gadget there is nothing to clean but the directory.
ReadBack ==
  /\ At("read_back")
  /\ IF IsDir(file["gadget"])
     THEN Set(Read) /\ To("hold") /\ UNCHANGED <<unit, runvars>>
     ELSE Exit(Rest) /\ dir' = FALSE /\ file' = [f \in File |-> None] /\ marker' = None
  /\ UNCHANGED <<want, umtprd, usbvars, timers, faults, history>>

UnlinkMtp ==
  /\ At("unlink")
  /\ IF s.config = None THEN UNCHANGED links
     ELSE Relink(s.config, RemoveFirst(links[s.config], "mtp"))
  /\ To("umount")
  /\ UNCHANGED <<unitvars, s, bound, func, own, ids, mounted, runvars, timers, faults, history>>
UnmountFfs ==
  /\ At("umount") /\ mounted' = FALSE /\ To("rmdir")
  /\ UNCHANGED <<unitvars, s, bound, links, func, own, ids, runvars, timers, faults, history>>
RemoveFunction ==
  /\ At("rmdir")
  /\ func' = (IF func = s.gadget /\ ~Linked("mtp", s.gadget) THEN None ELSE func)
  /\ To(IF s.mode = "mainline" THEN "rm_gadget" ELSE "restore_vendor")
  /\ UNCHANGED <<unitvars, s, bound, links, own, ids, mounted, runvars, timers, faults, history>>

\* Our own gadget goes if it is empty; Android's never is.
RemoveGadget ==
  /\ At("rm_gadget")
  /\ own' = (own /\ (s.config # "luneos" \/ links["luneos"] # <<>> \/ func = "luneos"))
  /\ To("forget")
  /\ UNCHANGED <<unitvars, s, bound, links, func, ids, mounted, runvars, timers, faults, history>>

\* Mutant: the IDs stay MTP's.
Saved_Never(f, field) == ids[s.gadget][field]
Saved(f, field) == IF file[f] = None THEN ids[s.gadget][field] ELSE file[f]
RestoreIds ==
  \/ Ids("restore_vendor", "vendor", Saved("idVendor", "vendor"), "restore_product")
  \/ Ids("restore_product", "product", Saved("idProduct", "product"), "bind")

Forget ==
  /\ At("forget")
  /\ file' = [f \in File |-> None] /\ To("release")
  /\ UNCHANGED <<unitvars, s, usbvars, dir, marker, timers, faults, history>>

-------------------------------------------------------------------------------
(* The unit, umtprd and storaged                                           *)

Begin(p) == To(p) /\ UNCHANGED s

Start ==
  /\ unit = "dead" /\ starts < MaxStarts /\ starts' = starts + 1
  /\ want' = TRUE /\ unit' = "start_pre" /\ Begin("mkdir")
  /\ UNCHANGED <<umtprd, usbvars, runvars, timers, faults, halium, harmed, raced>>
Restart ==
  /\ unit = "wait" /\ unit' = "start_pre" /\ Begin("mkdir")
  /\ UNCHANGED <<want, umtprd, usbvars, runvars, timers, faults, history>>
Ready ==
  /\ unit = "start"
  /\ umtprd' = "ready" /\ unit' = "start_post" /\ Begin("read")
  /\ UNCHANGED <<want, usbvars, runvars, timers, faults, history>>
\* umtprd is gone; the kernel may take a gadget from the UDC whose function has closed.
Gone ==
  /\ umtprd' = "off"
  /\ \/ UNCHANGED bound
     \/ umtprd = "ready" /\ bound # None /\ Linked("mtp", bound) /\ bound' = None
  /\ UNCHANGED <<links, func, own, ids, mounted>>

\* What is left of the service's processes ends before cleanup starts.
StopPost ==
  /\ unit = "stop_post" /\ At("none")
  /\ Gone /\ timers' = {t \in timers : ~t.bg}
  /\ Begin("read_back")
  /\ UNCHANGED <<unit, want, runvars, faults, history>>

Crash ==
  /\ unit = "start" \/ umtprd = "ready"
  /\ Fault /\ Gone
  /\ unit' = (IF unit = "start_post" THEN unit ELSE "stop_post")
  /\ UNCHANGED <<want, pc, s, runvars, timers, history>>

\* A script that ends here leaves Android's gadget in a state that cleanup does not
\* repair: cleanup does not know the UDC, or that adb was in the gadget.
Harm ==
  IF (pc \in {"config", "udc"} /\ s.gadget = "android") \/ (s.adb /\ ~Linked("adb", s.config))
  THEN {"gadget"} ELSE {}

Stop ==
  /\ want /\ want' = FALSE
  /\ CASE unit = "wait" -> unit' = "dead" /\ UNCHANGED <<pc, s, harmed>>
       [] unit = "stop_post" -> UNCHANGED <<unit, pc, s, harmed>>
       [] OTHER -> Die /\ harmed' = harmed \cup Harm
  /\ UNCHANGED <<umtprd, usbvars, runvars, timers, faults, halium, starts, raced>>

\* A script is killed; cleanup is when it tries the UDC for longer than TimeoutStopSec.
Kill ==
  /\ pc # "none"
  /\ IF unit # "stop_post"
     THEN Fault /\ Die /\ harmed' = harmed \cup Harm
     ELSE /\ IF At("bind") /\ s.tries >= 2 THEN NoFault ELSE Fault
          /\ Exit(Rest) /\ harmed' = {"gadget", "marker"}
  /\ UNCHANGED <<want, umtprd, usbvars, runvars, timers, halium, starts, raced>>

Prepare == MakeState \/ Find \/ Notes \/ MakeFunction \/ MountFfs
DoBind  == ReadState \/ TakeAdb \/ LinkMtp \/ LinkAdb \/ NoteAdb \/ SaveVendor \/ SaveProduct \/ SetIds
Cleanup == ReadBack \/ UnlinkMtp \/ UnmountFfs \/ RemoveFunction \/ RemoveGadget \/ RestoreIds \/ Forget
Script  == Prepare \/ DoBind \/ Cleanup \/ Hold \/ Unbind \/ Bind \/ BindAgain \/ BindFails \/ Release
Systemd == Restart \/ Ready \/ StopPost

Next == Script \/ Systemd \/ Start \/ Stop \/ Crash \/ Kill \/ \E t \in timers : TimerStep(t)
Spec == Init /\ [][Next]_vars

\* Scripts and systemd go on, and timers fire.
FairSpec ==
  /\ Spec /\ WF_vars(Script) /\ WF_vars(Systemd)
  /\ \A k \in Token \cup {None} : WF_vars(\E t \in timers : t.tok = k /\ TimerStep(t))

-------------------------------------------------------------------------------
(* Properties                                                              *)

TypeOK ==
  /\ unit \in {"dead", "start_pre", "start", "start_post", "running", "stop_post", "wait"}
  /\ unit \in {"dead", "start", "running", "wait"} => pc = "none"
  /\ umtprd \in {"off", "ready"} /\ (umtprd = "ready" /\ pc # "none" => unit = "start_post")
  /\ bound \in Gadget \cup {None} /\ func \in Gadget \cup {None}
  /\ \A g \in Gadget : IsInjective(links[g]) /\ ToSet(links[g]) \subseteq {"adb", "mtp"}
  /\ marker \in Token \cup {None} /\ s.tries \in 0 .. 4
  /\ ~dir => (marker = None /\ \A f \in File : file[f] = None)

\* Whenever the service rests, Android's gadget is back as it was before, bound, with adb
\* and its own IDs (lines 12 and 19), wherever prepare and bind were stopped, the UDC was
\* busy, umtprd died or a timer fired -- but for the two places that Harm names.
GadgetComesBack ==
  unit \in {"dead", "wait"} /\ "gadget" \notin harmed =>
    IF halium THEN bound = "android" /\ links["android"] = <<"adb">> /\ ids["android"] = Old
    ELSE bound = None

\* What a host sees with MTP: its interface first, and the IDs that go with the others
\* (lines 60-66 and 172-176), also after runs that were cut short.
Layout ==
  bound # None /\ Linked("mtp", bound) =>
    /\ links[bound][1] = "mtp"
    /\ ids[bound] = [vendor |-> "mtp", product |-> IF Linked("adb", bound) THEN "mtp+adb" ELSE "mtp"]

\* The scripts bind and unbind the UDC only under the marker: no timer of an earlier one
\* has cleared it (lines 67-73), except one that had just tested it (raced).
MarkerCovers == [][bound' # bound /\ umtprd' = umtprd => marker # None \/ raced]_vars

\* The marker does not stay: when the service serves or rests, it goes, unless cleanup
\* was killed or had nobody to schedule its timer.
MarkerGoes ==
  <>[](unit \in {"dead", "running"}) /\ []("marker" \notin harmed) => <>[](marker = None)

\* A service that is wanted serves in the end, whatever of it failed before.
Served == unit = "running" /\ bound # None /\ Linked("mtp", bound)
ServedInTheEnd == <>[]want /\ []("gadget" \notin harmed) => <>[]Served
================================================================================
