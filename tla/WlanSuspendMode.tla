---------------------------- MODULE WlanSuspendMode ----------------------------
(***************************************************************************)
(* wlan-suspend-mode: tells the WLAN driver when the display is off.       *)
(*                                                                         *)
(* A daemon reads the display's state from a Luna subscription and runs    *)
(* apply for every change; systemd restarts it and runs "normal" each time *)
(* it stops; anybody may run "on" or "off" by hand beside it.  Nothing     *)
(* locks: apply is a sequence of commands (an ioctl, a netlink request, an *)
(* ip link, a file), and everybody else moves between two of them.         *)
(***************************************************************************)
EXTENDS Naturals, Sequences

CONSTANTS
  WaitMax,      \* rounds of sleep 2 before the wait for the interface gives up
  TailNotices,  \* tail -f ends when nobody reads its output any more
  MsgMax,       \* bound: display messages unread
  MaxFaults,    \* bound: kills of the daemon and failing commands
  MaxLoss,      \* bound: subscriptions that fail or end
  MaxCli        \* bound: commands run by hand

ASSUME WSAssumption ==
  /\ WaitMax \in Nat \ {0} /\ MsgMax \in Nat \ {0}
  /\ MaxFaults \in Nat /\ MaxLoss \in Nat /\ MaxCli \in Nat
  /\ TailNotices \in BOOLEAN

VARIABLES
  \* the phone
  screen,    \* "on" (or dimmed) or "off"
  chip,      \* what it can do: ioctl (SETSUSPENDMODE), down (iface_down_allowed)
  testmode,  \* WLAN_TESTMODE is set, and the driver answers
  iface,     \* wlan0 exists
  filter,    \* the driver filters as if the display were off
  link,      \* wlan0 is administratively up
  wish,      \* the user has WiFi switched on
  \* the subscription
  sub, msgs,
  \* the daemon's unit
  svc,       \* what the unit is doing
  after,     \* where it goes when ExecStopPost is done
  waited,
  pcur,      \* the reading loop is a subshell: its parent's cur stays as it was
  \* apply, run by the daemon's unit or by hand
  at, job, cur,
  \* files in /run
  state,     \* STATE
  mark,      \* DOWNMARK exists
  \* bounds and history
  faults, losses, clis,
  whole      \* no command has failed, been cut short or overlapped another so far

phone  == <<screen, chip, testmode, iface, wish>>
driver == <<filter, link>>
unit   == <<svc, after, waited, pcur>>
run    == <<at, job, cur>>
files  == <<state, mark>>
bounds == <<faults, losses, clis>>
vars   == <<phone, driver, sub, msgs, unit, run, files, bounds, whole>>

Mode   == {"normal", "suspendmode"}
Proc   == {"daemon", "cli"}
Step   == {"rest", "ioctl", "testmode", "link", "record", "recordLink",
           "undo", "mark", "unmark"}
Rests  == {"stopped", "pause", "gaveup"}

TypeOK ==
  /\ screen \in {"on", "off"}
  /\ chip \in [ioctl : BOOLEAN, down : BOOLEAN]
  /\ testmode \in BOOLEAN /\ iface \in BOOLEAN /\ wish \in BOOLEAN
  /\ filter \in BOOLEAN /\ link \in BOOLEAN
  /\ sub \in BOOLEAN /\ msgs \in Seq(Mode) /\ Len(msgs) <= MsgMax
  /\ svc \in Rests \cup {"waiting", "up", "ended", "closing", "post"}
  /\ after \in Rests
  /\ waited \in 0 .. WaitMax /\ (svc = "waiting" => waited < WaitMax)
  /\ pcur \in Mode \cup {"unset"}
  /\ at \in [Proc -> Step]
  /\ job \in [Proc -> Mode]
  /\ cur \in [Proc -> Mode \cup {"unset"}]
  /\ state \in Mode \cup {"unset"} /\ mark \in BOOLEAN
  /\ faults \in 0 .. MaxFaults /\ losses \in 0 .. MaxLoss /\ clis \in 0 .. MaxCli
  /\ whole \in BOOLEAN

Init ==
  /\ screen = "on"
  /\ chip \in [ioctl : BOOLEAN, down : BOOLEAN]
  /\ testmode = FALSE /\ iface = FALSE /\ wish = TRUE
  /\ filter = FALSE /\ link = TRUE
  /\ sub = FALSE /\ msgs = <<>>
  /\ svc = "stopped" /\ after = "stopped" /\ waited = 0
  /\ pcur = "unset"
  /\ at = [p \in Proc |-> "rest"]
  /\ job = [p \in Proc |-> "normal"]
  /\ cur = [p \in Proc |-> "unset"]
  /\ state = "unset" /\ mark = FALSE
  /\ faults = 0 /\ losses = 0 /\ clis = 0
  /\ whole = TRUE

-------------------------------------------------------------------------------
(* apply, one command at a time.                                           *)

\* Process p, whose cur is c, calls apply m: nothing to do when it is m already.
Begin(p, m, c) ==
  /\ job' = [job EXCEPT ![p] = m]
  /\ cur' = [cur EXCEPT ![p] = c]
  /\ at' = [at EXCEPT ![p] = IF c = m THEN "rest" ELSE "ioctl"]

Alone(p) == \A q \in Proc \ {p} : at[q] = "rest"

\* A command that could have worked fails.
Fault == faults < MaxFaults /\ faults' = faults + 1 /\ whole' = FALSE
NoFault == UNCHANGED <<faults, whole>>

Goto(p, s) == at' = [at EXCEPT ![p] = s] /\ UNCHANGED <<job, cur>>

Else(p) == IF chip.down THEN "link" ELSE "rest"     \* iface_down_allowed

\* drvcmd "SETSUSPENDMODE n".  (SET_MDTIM before it changes nothing told apart here.)
Ioctl(p) ==
  /\ at[p] = "ioctl"
  /\ \/ /\ chip.ioctl /\ iface
        /\ filter' = (job[p] = "suspendmode")
        /\ Goto(p, "record") /\ NoFault
     \/ /\ chip.ioctl /\ iface => Fault
        /\ ~(chip.ioctl /\ iface) => NoFault
        /\ Goto(p, IF testmode THEN "testmode" ELSE Else(p))
        /\ UNCHANGED filter
  /\ UNCHANGED <<phone, link, sub, msgs, unit, files, losses, clis>>

\* testmode_cmd n.
Testmode(p) ==
  /\ at[p] = "testmode"
  /\ \/ /\ iface
        /\ filter' = (job[p] = "suspendmode")
        /\ Goto(p, "record") /\ NoFault
     \/ /\ iface => Fault
        /\ ~iface => NoFault
        /\ Goto(p, Else(p))
        /\ UNCHANGED filter
  /\ UNCHANGED <<phone, link, sub, msgs, unit, files, losses, clis>>

\* No driver filter: ip link set wlan0 down, or up again.
LinkSet(p) ==
  /\ at[p] = "link"
  /\ \/ /\ iface
        /\ link' = (job[p] = "normal")
        /\ Goto(p, "recordLink") /\ NoFault
     \/ /\ iface => Fault
        /\ ~iface => NoFault
        /\ Goto(p, "rest")
        /\ UNCHANGED link
  /\ UNCHANGED <<phone, filter, sub, msgs, unit, files, losses, clis>>

\* Mutant: a driver that accepts the request is done, whatever took wlan0 down before.
Record_NoUndo(p) ==
  /\ at[p] \in {"record", "recordLink"}
  /\ cur' = [cur EXCEPT ![p] = job[p]]
  /\ state' = job[p]
  /\ at' = [at EXCEPT ![p] =
              IF at[p] = "record" THEN "rest"
              ELSE IF job[p] = "normal" THEN "unmark" ELSE "mark"]
  /\ UNCHANGED <<phone, driver, sub, msgs, unit, job, mark, bounds, whole>>

\* The hardware has changed: cur and STATE follow.
Record(p) ==
  /\ at[p] \in {"record", "recordLink"}
  /\ cur' = [cur EXCEPT ![p] = job[p]]
  /\ state' = job[p]
  /\ at' = [at EXCEPT ![p] =
              IF job[p] = "normal" THEN (IF at[p] = "record" THEN "undo" ELSE "unmark")
                                   ELSE (IF at[p] = "record" THEN "rest" ELSE "mark")]
  /\ UNCHANGED <<phone, driver, sub, msgs, unit, job, mark, bounds, whole>>

\* undo_iface_down: nothing without DOWNMARK.
Undo(p) ==
  /\ at[p] = "undo"
  /\ \/ ~mark /\ Goto(p, "rest") /\ NoFault /\ UNCHANGED link
     \/ mark /\ link' = TRUE /\ Goto(p, "unmark") /\ NoFault
     \/ mark /\ Fault /\ Goto(p, "rest") /\ UNCHANGED link
  /\ UNCHANGED <<phone, filter, sub, msgs, unit, files, losses, clis>>

Mark(p) ==
  /\ at[p] \in {"mark", "unmark"}
  /\ mark' = (at[p] = "mark")
  /\ Goto(p, "rest")
  /\ UNCHANGED <<phone, driver, sub, msgs, unit, state, bounds, whole>>

Apply(p) == Ioctl(p) \/ Testmode(p) \/ LinkSet(p) \/ Record(p) \/ Undo(p) \/ Mark(p)
-------------------------------------------------------------------------------
(* The unit and its daemon.                                                *)

Resting == at["daemon"] = "rest"

\* What was under way when the process is killed: hardware changed but not recorded.
Cut == \/ at["daemon"] \in {"record", "recordLink", "mark"}
       \/ at["daemon"] = "undo" /\ mark

\* The script starts: cur is what STATE says.
Starts ==
  /\ svc' = "waiting" /\ waited' = 0
  /\ pcur' = state
  /\ cur' = [cur EXCEPT !["daemon"] = state]
  /\ UNCHANGED <<phone, driver, sub, msgs, after, at, job, files, bounds, whole>>

Start   == svc \in {"stopped", "gaveup"} /\ Starts
Restart == svc = "pause" /\ Starts

\* Mutant: the unit has no ExecStopPost.
Ends_NoPost(then, intact) ==
  /\ svc' = "post" /\ after' = then
  /\ sub' = FALSE /\ msgs' = <<>>
  /\ Begin("daemon", "normal", "normal")
  /\ whole' = (whole /\ intact /\ Alone("daemon"))

\* The process is gone; ExecStopPost starts: wlan-suspend-mode normal.
Ends(then, intact) ==
  /\ svc' = "post" /\ after' = then
  /\ sub' = FALSE /\ msgs' = <<>>
  /\ Begin("daemon", "normal", state)
  /\ whole' = (whole /\ intact /\ Alone("daemon"))

PostDone ==
  /\ svc = "post" /\ Resting
  /\ svc' = after
  /\ UNCHANGED <<phone, driver, sub, msgs, after, waited, pcur, run, files, bounds, whole>>

\* No interface yet: two more seconds, and exit 3 (never restarted) at the limit.
WaitIface ==
  /\ svc = "waiting" /\ ~iface
  /\ waited' = waited + 1
  /\ IF waited' >= WaitMax
       THEN Ends("gaveup", TRUE)
       ELSE UNCHANGED <<svc, after, sub, msgs, run, whole>>
  /\ UNCHANGED <<phone, driver, pcur, files, bounds>>

Asked == IF screen = "off" THEN "suspendmode" ELSE "normal"

\* Mutant: only events count, the state in the first reply does not.
Subscribe_NoState ==
  /\ svc = "waiting" /\ iface
  /\ svc' = "up"
  /\ sub' = TRUE /\ msgs' = <<>> /\ UNCHANGED losses
  /\ UNCHANGED <<phone, driver, after, waited, pcur, run, files, faults, clis, whole>>

\* The subscription: its first reply is the display's state, unless the hub is not there.
Subscribe ==
  /\ svc = "waiting" /\ iface
  /\ svc' = "up"
  /\ \/ sub' = TRUE /\ msgs' = <<Asked>> /\ UNCHANGED losses
     \/ sub' = FALSE /\ msgs' = <<>> /\ losses < MaxLoss /\ losses' = losses + 1
  /\ UNCHANGED <<phone, driver, after, waited, pcur, run, files, faults, clis, whole>>

ReadLine ==
  /\ svc = "up" /\ Resting /\ msgs # <<>>
  /\ msgs' = Tail(msgs)
  /\ Begin("daemon", Head(msgs), cur["daemon"])
  /\ whole' = (whole /\ Alone("daemon"))
  /\ UNCHANGED <<phone, driver, sub, unit, files, bounds>>

\* luna-send has gone and everything it wrote is read: the subshell ends ...
LoopEnds ==
  /\ svc = "up" /\ Resting /\ ~sub /\ msgs = <<>>
  /\ svc' = "ended"
  /\ UNCHANGED <<phone, driver, sub, msgs, after, waited, pcur, run, files, bounds, whole>>

\* ... and the shell goes on when the last process of the pipeline has, tail included.
PipelineEnds ==
  /\ svc = "ended" /\ TailNotices
  /\ svc' = "closing"
  /\ Begin("daemon", "normal", pcur)
  /\ whole' = (whole /\ Alone("daemon"))
  /\ UNCHANGED <<phone, driver, sub, msgs, after, waited, pcur, files, bounds>>

Exit ==          \* exit 1
  /\ svc = "closing" /\ Resting
  /\ Ends("pause", TRUE)
  /\ UNCHANGED <<phone, driver, waited, pcur, files, bounds>>

Daemon == Apply("daemon") \/ WaitIface \/ Subscribe \/ ReadLine \/ LoopEnds
          \/ PipelineEnds \/ Exit \/ PostDone \/ Restart
-------------------------------------------------------------------------------
(* Everybody else.                                                         *)

Alive == svc \in {"waiting", "up", "ended", "closing"}

Stop ==          \* systemctl stop, wherever the script is
  /\ Alive /\ Ends("stopped", ~Cut)
  /\ UNCHANGED <<phone, driver, waited, pcur, files, bounds>>

Kill ==          \* and Restart=always
  /\ Alive /\ faults < MaxFaults /\ faults' = faults + 1
  /\ Ends("pause", ~Cut)
  /\ UNCHANGED <<phone, driver, waited, pcur, files, losses, clis>>

\* A build whose testmode call succeeds is installed, and the unit restarted.
Upgrade ==
  /\ svc = "up" /\ Resting /\ Alone("daemon") /\ ~testmode /\ testmode' = TRUE
  /\ Ends("pause", TRUE)
  /\ UNCHANGED <<screen, chip, iface, wish, driver, waited, pcur, files, bounds>>

ByHand(m) ==     \* wlan-suspend-mode on | off
  /\ at["cli"] = "rest" /\ clis < MaxCli /\ clis' = clis + 1
  /\ Begin("cli", m, state)
  /\ whole' = (whole /\ Alone("cli"))
  /\ UNCHANGED <<phone, driver, sub, msgs, unit, files, faults, losses>>

\* The subscription pushes what the display does.
Pushes(m) == IF sub THEN Len(msgs) < MsgMax /\ msgs' = Append(msgs, m) ELSE UNCHANGED msgs

Display ==
  /\ screen' = IF screen = "on" THEN "off" ELSE "on"
  /\ Pushes(IF screen = "on" THEN "suspendmode" ELSE "normal")
  /\ UNCHANGED <<chip, testmode, iface, wish, driver, sub, unit, run, files, bounds, whole>>

Dims ==
  /\ screen = "on" /\ sub /\ Pushes("normal")
  /\ UNCHANGED <<phone, driver, sub, unit, run, files, bounds, whole>>

SubLost ==
  /\ sub /\ losses < MaxLoss /\ losses' = losses + 1
  /\ sub' = FALSE
  /\ UNCHANGED <<phone, driver, msgs, unit, run, files, faults, clis, whole>>

IfaceAppears ==
  /\ ~iface /\ iface' = TRUE
  /\ UNCHANGED <<screen, chip, testmode, wish, driver, sub, msgs, unit, run,
                 files, bounds, whole>>

\* The user switches WiFi off or on, which needs the display.
UserWifi ==
  /\ iface /\ screen = "on"
  /\ wish' = ~wish /\ link' = ~wish /\ whole' = FALSE
  /\ UNCHANGED <<screen, chip, testmode, iface, filter, sub, msgs, unit, run,
                 files, bounds>>

Others ==
  \/ Start \/ Stop \/ Kill \/ Upgrade
  \/ \E m \in Mode : ByHand(m)
  \/ Display \/ Dims \/ SubLost \/ IfaceAppears \/ UserWifi

Next == Daemon \/ Apply("cli") \/ Others

Spec == Init /\ [][Next]_vars

\* The daemon, systemd and a command that was started run on; nobody else has to act.
FairSpec == Spec /\ WF_vars(Daemon) /\ WF_vars(Apply("cli"))
-------------------------------------------------------------------------------
(* Properties.                                                             *)

Suspended == filter \/ ~link

\* Whenever nobody is inside apply, STATE tells what the hardware does, and a wlan0
\* that is down is marked as ours, through restarts, a stale parent cur, upgrades and
\* commands by hand (wlan-suspend-mode:50-57, 268-333): the next process trusts it.
StateIsTrue ==
  whole /\ (\A p \in Proc : at[p] = "rest")
    => /\ Suspended <=> state = "suspendmode"
       /\ ~link => mark

Untouched == whole /\ clis = 0

\* A phone whose display stays on ends up unfiltered and connected, whether the
\* daemon runs, has been stopped or keeps losing its subscription (lines 376-378 and
\* the unit's ExecStopPost).
OnIsNormal == <>[](screen = "on" /\ Untouched) => <>[](~Suspended)

\* A phone whose display stays off ends up filtered or down, however often the daemon
\* has been restarted, unless it was stopped or gave up (lines 362-370).
OffIsSuspended ==
  <>[](/\ screen = "off" /\ Untouched /\ svc \notin {"stopped", "gaveup"}
       /\ chip.ioctl \/ chip.down \/ testmode)
    => <>[]Suspended
===============================================================================
