---------------------------- MODULE RemoteWakelock ----------------------------
(***************************************************************************)
(* luneos-remote-wakelock: a kernel wakelock is held while a developer is  *)
(* attached over ssh or adb.                                               *)
(*                                                                         *)
(* Four kinds of process run the one script: "lock" and "unlock" from the  *)
(* ExecStartPre and ExecStopPost of every sshd@<connection> unit, "watch"  *)
(* as the service, and "release" as the service's ExecStopPost.  Each runs *)
(* its critical section under one flock, one shell command at a time; the  *)
(* environment (sessions, adbd, the kernel's timeout, kill -9) moves in    *)
(* between.  One Tick is one POLL_S; a script finishes within a Tick.      *)
(***************************************************************************)
EXTENDS Naturals, FiniteSets

CONSTANTS
  Session,    \* the per-connection sshd@ units (a connection name is never reused)
  Timeout,    \* TIMEOUT_S in polls: how long an armed kernel lock lasts
  MaxFaults   \* bound on kills, refused writes and failed queries

ASSUME RWAssumption ==
  /\ Timeout \in Nat \ {0, 1}     \* "must comfortably exceed the poll interval"
  /\ MaxFaults \in Nat
  /\ Session \cap {"watch", "release", "nobody"} = {}

VARIABLES
  unit,      \* systemd's state of every sshd@ unit
  other,     \* an ssh connection that no sshd@ unit serves (dropbear, plain sshd)
  adbd,      \* what adbd is doing
  adb_ticks, \* the watcher's baseline: "none" of the running adbd, or one since which
             \* that adbd has burned "few" or "many" (ADB_BUSY_TICKS or more) ticks
  svc,       \* the state of luneos-remote-wakelock.service
  asleep,    \* the watcher is in its sleep POLL_S
  token,     \* the files in $RUNDIR/ssh
  held,      \* the files in $RUNDIR/held
  klock,     \* the kernel's wakelocks: ticks until each expires, 0 when not held
  owner,     \* the process that has the flock
  at,        \* the command it is about to run
  cls,       \* the class its hold or drop is about
  todo,      \* tokens ssh_tokens_alive has still to ask systemd about
  alive,     \* the variable of that name: some token's unit is alive
  faults,    \* bounded fault budget used so far
  settled,   \* history: has a whole poll run since the last fault or outage?
  idle       \* history: ticks since anything justified a lock of the class

scriptVars == <<owner, at, cls, todo, alive>>
envVars    == <<unit, other, adbd>>
vars == <<envVars, adb_ticks, svc, asleep, token, held, klock, scriptVars,
          faults, settled, idle>>

Class == {"ssh", "adb"}
Owner == Session \cup {"watch", "release", "nobody"}
Step  == {"idle", "token", "untoken", "query", "adb",
          "arm", "mark", "unmark", "disarm"}

TypeOK ==
  /\ unit \in [Session -> {"none", "pre", "active", "post", "gone"}]
  /\ other \in BOOLEAN
  /\ adbd \in {"none", "idle", "shell", "busy"}
  /\ adb_ticks \in {"none", "few", "many"}
  /\ svc \in {"down", "up", "stopped", "failed", "wait"}
  /\ asleep \in BOOLEAN
  /\ token \in SUBSET Session
  /\ held \in SUBSET Class
  /\ klock \in [Class -> 0 .. Timeout]
  /\ owner \in Owner
  /\ at \in Step
  /\ cls \in Class
  /\ todo \in SUBSET Session
  /\ alive \in BOOLEAN
  /\ faults \in 0 .. MaxFaults
  /\ settled \in {"no", "polling", "yes"}
  /\ idle \in [Class -> 0 .. Timeout + 1]

Attached(s)  == unit[s] \in {"pre", "active", "post"}   \* activating counts
Established  == other \/ \E s \in Session : unit[s] \in {"pre", "active"}
Reason(c)    == IF c = "ssh" THEN other \/ \E s \in Session : Attached(s)
                             ELSE adbd \in {"shell", "busy"}

Init ==
  /\ unit = [s \in Session |-> "none"]
  /\ other = FALSE
  /\ adbd = "none"
  /\ adb_ticks = "none"
  /\ svc = "down"
  /\ asleep = FALSE
  /\ token = {} /\ held = {}
  /\ klock = [c \in Class |-> 0]
  /\ owner = "nobody" /\ at = "idle" /\ cls = "ssh"
  /\ todo = {} /\ alive = FALSE
  /\ faults = 0
  /\ settled = "no"
  /\ idle = [c \in Class |-> 0]

-------------------------------------------------------------------------------
(* The environment: ssh connections, adbd, and the admin.                  *)

Seen(c) == idle' = [idle EXCEPT ![c] = 0]   \* a reason for c exists from here on

\* A connection is accepted: systemd starts its unit, ExecStartPre first.
Connect(s) ==
  /\ unit[s] = "none"
  /\ unit' = [unit EXCEPT ![s] = "pre"]
  /\ Seen("ssh")
  /\ UNCHANGED <<other, adbd, adb_ticks, svc, asleep, token, held, klock,
                 scriptVars, faults, settled>>

\* The session ends: ExecStopPost is still to run.
Disconnect(s) ==
  /\ unit[s] = "active"
  /\ unit' = [unit EXCEPT ![s] = "post"]
  /\ UNCHANGED <<other, adbd, adb_ticks, svc, asleep, token, held, klock,
                 scriptVars, faults, settled, idle>>

\* An ssh connection that is not one of systemd's opens or closes.
OtherSsh ==
  /\ other' = ~other
  /\ Seen("ssh")
  /\ UNCHANGED <<unit, adbd, adb_ticks, svc, asleep, token, held, klock,
                 scriptVars, faults, settled>>

\* adbd starts, stops, or changes between idle, serving a shell and transferring.
\* A new adbd is another process than the one the watcher took its ticks from.
Adbd(what) ==
  /\ adbd # what
  /\ adbd' = what
  /\ adb_ticks' = IF "none" \in {adbd, what} THEN "none" ELSE adb_ticks
  /\ idle' = IF what \in {"shell", "busy"} THEN [idle EXCEPT !["adb"] = 0] ELSE idle
  /\ UNCHANGED <<unit, other, svc, asleep, token, held, klock, scriptVars,
                 faults, settled>>

\* An adbd that serves somebody has used ADB_BUSY_TICKS since the watcher looked.
Burn ==
  /\ adbd \in {"shell", "busy"} /\ adb_ticks = "few"
  /\ adb_ticks' = "many"
  /\ UNCHANGED <<envVars, svc, asleep, token, held, klock, scriptVars, faults,
                 settled, idle>>

\* systemctl start, also what boot does.
Start ==
  /\ svc = "down"
  /\ svc' = "up"
  /\ asleep' = FALSE
  /\ adb_ticks' = "none"
  /\ UNCHANGED <<envVars, token, held, klock, scriptVars, faults, settled, idle>>

\* systemctl stop: SIGTERM ends the watcher wherever it is; ExecStopPost follows.
Stop ==
  /\ svc = "up"
  /\ svc' = "stopped"
  /\ settled' = "no"
  /\ IF owner = "watch"
       THEN owner' = "nobody" /\ at' = "idle"
       ELSE UNCHANGED <<owner, at>>
  /\ UNCHANGED <<envVars, adb_ticks, asleep, token, held, klock, cls, todo,
                 alive, faults, idle>>

\* No script is running or waiting for the flock.
Quiet ==
  /\ owner = "nobody"
  /\ \A s \in Session : unit[s] \notin {"pre", "post"}
  /\ svc \in {"down", "wait"} \/ (svc = "up" /\ asleep)

\* POLL_S pass: kernel timeouts run down, the watcher's sleep and RestartSec end.
Tick ==
  /\ Quiet
  /\ klock' = [c \in Class |-> IF klock[c] > 0 THEN klock[c] - 1 ELSE 0]
  /\ idle' = [c \in Class |-> IF Reason(c) THEN 0
                              ELSE IF idle[c] <= Timeout THEN idle[c] + 1 ELSE idle[c]]
  /\ svc' = IF svc = "wait" THEN "up" ELSE svc
  /\ adb_ticks' = IF svc = "up" THEN adb_ticks ELSE "none"
  /\ asleep' = FALSE
  /\ UNCHANGED <<envVars, token, held, scriptVars, faults, settled>>
-------------------------------------------------------------------------------
(* Taking the flock, and giving it up at the end of the critical section.  *)

Enter(p, step) ==
  /\ owner = "nobody"
  /\ owner' = p
  /\ at' = step
  /\ UNCHANGED <<envVars, adb_ticks, svc, asleep, token, held, klock,
                 faults, idle>>

LockCmd(s) ==
  /\ unit[s] = "pre"
  /\ Enter(s, "token")
  /\ UNCHANGED <<cls, todo, alive, settled>>

UnlockCmd(s) ==
  /\ unit[s] = "post"
  /\ Enter(s, "untoken")
  /\ UNCHANGED <<cls, todo, alive, settled>>

\* The watcher wakes; ssh_tokens_alive starts over the tokens there are.
Watch ==
  /\ svc = "up" /\ ~asleep
  /\ Enter("watch", "query")
  /\ todo' = token
  /\ alive' = FALSE
  /\ settled' = IF settled = "no" THEN "polling" ELSE settled
  /\ UNCHANGED cls

ReleaseCmd ==
  /\ svc \in {"stopped", "failed"}
  /\ Enter("release", "unmark")
  /\ cls' = "ssh"
  /\ UNCHANGED <<todo, alive, settled>>

\* What follows in the caller when process p is done, or has been killed.
Leave(p) ==
  /\ owner' = "nobody"
  /\ at' = "idle"
  /\ unit' = [s \in Session |->
                IF s # p THEN unit[s]
                ELSE IF unit[s] = "pre" THEN "active" ELSE "gone"]
  /\ svc' = IF p # "release" THEN svc
            ELSE IF svc = "stopped" THEN "down" ELSE "wait"
  /\ asleep' = (asleep \/ p = "watch")

\* hold or drop of class c is over: evaluate and release go on to adb.
Continue(c) ==
  IF c = "ssh" /\ owner \in {"watch", "release"}
  THEN /\ at' = (IF owner = "watch" THEN "adb" ELSE "unmark")
       /\ cls' = "adb"
       /\ UNCHANGED <<owner, unit, svc, asleep>>
  ELSE Leave(owner) /\ UNCHANGED cls

\* History: the command that ends a faultless poll settles the state.
Settle == settled' = IF owner = "watch" /\ cls = "adb" /\ settled = "polling"
                     THEN "yes" ELSE settled
-------------------------------------------------------------------------------
(* The commands of the critical sections.                                  *)

\* lock: the token first, then hold.
WriteToken ==
  /\ at = "token"
  /\ token' = token \cup {owner}
  /\ at' = "arm" /\ cls' = "ssh"
  /\ UNCHANGED <<envVars, adb_ticks, svc, asleep, held, klock, owner, todo,
                 alive, faults, settled, idle>>

\* Mutant: unlock drops the class without looking for other tokens.
RemoveToken_AnyToken ==
  /\ at = "untoken"
  /\ token' = token \ {owner}
  /\ at' = "unmark" /\ cls' = "ssh"
  /\ UNCHANGED <<envVars, adb_ticks, svc, asleep, held, klock, owner, todo,
                 alive, faults, settled, idle>>

\* unlock: the token goes; the class is dropped only when no other is left.
RemoveToken ==
  /\ at = "untoken"
  /\ token' = token \ {owner}
  /\ IF token' = {}
       THEN at' = "unmark" /\ cls' = "ssh" /\ UNCHANGED <<owner, unit, svc, asleep>>
       ELSE Leave(owner) /\ UNCHANGED cls
  /\ UNCHANGED <<other, adbd, adb_ticks, held, klock, todo, alive, faults,
                 settled, idle>>

\* Mutant: a token counts as a live session as long as its file is there.
QueryToken_TrustsFile(s) ==
  /\ at = "query" /\ s \in todo
  /\ todo' = todo \ {s}
  /\ alive' = TRUE
  /\ UNCHANGED <<envVars, adb_ticks, svc, asleep, token, held, klock, owner, at,
                 cls, faults, settled, idle>>

\* ssh_tokens_alive asks systemd about one token; a dead unit's token is removed.
QueryToken(s) ==
  /\ at = "query" /\ s \in todo
  /\ todo' = todo \ {s}
  /\ \/ /\ Attached(s) /\ alive' = TRUE
        /\ UNCHANGED <<token, faults, settled>>
     \/ /\ ~Attached(s) /\ token' = token \ {s}
        /\ UNCHANGED <<alive, faults, settled>>
     \/ /\ Attached(s) /\ faults < MaxFaults     \* systemctl itself failed
        /\ faults' = faults + 1 /\ settled' = "no"
        /\ token' = token \ {s} /\ UNCHANGED alive
  /\ UNCHANGED <<envVars, adb_ticks, svc, asleep, held, klock, owner, at, cls, idle>>

\* Mutant: no safety net, only tokens hold the class.
DecideSsh_NoSafetyNet ==
  /\ at = "query" /\ todo = {}
  /\ at' = (IF alive THEN "arm" ELSE "unmark")
  /\ cls' = "ssh"
  /\ UNCHANGED <<envVars, adb_ticks, svc, asleep, token, held, klock, owner,
                 todo, alive, faults, settled, idle>>

\* evaluate, ssh half: a live token or an established connection holds the class.
DecideSsh ==
  /\ at = "query" /\ todo = {}
  /\ at' = (IF alive \/ Established THEN "arm" ELSE "unmark")
  /\ cls' = "ssh"
  /\ UNCHANGED <<envVars, adb_ticks, svc, asleep, token, held, klock, owner,
                 todo, alive, faults, settled, idle>>

\* Mutant: without a baseline the ticks of adbd's whole life count as burned now.
DecideAdb_NoBaseline ==
  /\ at = "adb"
  /\ at' = (IF adbd = "shell" \/ (adbd # "none" /\ adb_ticks # "few") THEN "arm" ELSE "unmark")
  /\ adb_ticks' = IF adbd = "none" THEN "none" ELSE "few"
  /\ UNCHANGED <<envVars, svc, asleep, token, held, klock, owner, cls, todo,
                 alive, faults, settled, idle>>

\* evaluate, adb half: a child of adbd, or ticks burned since the last poll, though
\* adbd may be idle again by now; this poll's ticks are the next one's baseline.
DecideAdb ==
  /\ at = "adb"
  /\ at' = (IF adbd = "shell" \/ adb_ticks = "many" THEN "arm" ELSE "unmark")
  /\ adb_ticks' = IF adbd = "none" THEN "none" ELSE "few"
  /\ UNCHANGED <<envVars, svc, asleep, token, held, klock, owner, cls, todo,
                 alive, faults, settled, idle>>

\* Mutant: hold writes to the kernel only when the marker is not there yet.
Arm_OnlyOnce ==
  /\ at = "arm"
  /\ klock' = IF cls \in held THEN klock ELSE [klock EXCEPT ![cls] = Timeout]
  /\ at' = "mark"
  /\ UNCHANGED <<envVars, adb_ticks, svc, asleep, token, held, owner, cls, todo,
                 alive, faults, settled, idle>>

\* hold: kernel_lock, which may fail ("|| return 1"), then the marker.
Arm ==
  /\ at = "arm"
  /\ klock' = [klock EXCEPT ![cls] = Timeout]
  /\ at' = "mark"
  /\ UNCHANGED <<envVars, adb_ticks, svc, asleep, token, held, owner, cls, todo,
                 alive, faults, settled, idle>>

ArmFails ==
  /\ at = "arm" /\ faults < MaxFaults
  /\ faults' = faults + 1 /\ settled' = "no"
  /\ Continue(cls)
  /\ UNCHANGED <<other, adbd, adb_ticks, token, held, klock, todo, alive, idle>>

Mark ==
  /\ at = "mark"
  /\ held' = held \cup {cls}
  /\ Continue(cls) /\ Settle
  /\ UNCHANGED <<other, adbd, adb_ticks, token, klock, todo, alive, faults, idle>>

\* drop: nothing without the marker; else the marker, then the kernel lock.
Unmark ==
  /\ at = "unmark"
  /\ IF cls \in held
       THEN /\ held' = held \ {cls}
            /\ at' = "disarm"
            /\ UNCHANGED <<unit, svc, asleep, owner, cls, settled>>
       ELSE Continue(cls) /\ Settle /\ UNCHANGED held
  /\ UNCHANGED <<other, adbd, adb_ticks, token, klock, todo, alive, faults, idle>>

Disarm ==
  /\ at = "disarm"
  /\ klock' = [klock EXCEPT ![cls] = 0]
  /\ Continue(cls) /\ Settle
  /\ UNCHANGED <<other, adbd, adb_ticks, token, held, todo, alive, faults, idle>>
-------------------------------------------------------------------------------
(* kill -9 between two commands.  The flock goes with the process; a killed *)
(* hook does not stop its unit (the "-" prefix), a killed watcher fails the *)
(* service, whose ExecStopPost runs before the restart.                    *)

KillHook ==
  /\ owner \notin {"nobody", "watch"} /\ faults < MaxFaults
  /\ faults' = faults + 1
  /\ settled' = "no"
  /\ Leave(owner)
  /\ UNCHANGED <<other, adbd, adb_ticks, token, held, klock, cls, todo, alive, idle>>

KillWatcher ==
  /\ svc = "up" /\ faults < MaxFaults
  /\ faults' = faults + 1
  /\ settled' = "no"
  /\ svc' = "failed"
  /\ IF owner = "watch"
       THEN owner' = "nobody" /\ at' = "idle"
       ELSE UNCHANGED <<owner, at>>
  /\ UNCHANGED <<envVars, adb_ticks, asleep, token, held, klock, cls, todo,
                 alive, idle>>

Environment ==
  \/ \E s \in Session : Connect(s) \/ Disconnect(s)
  \/ OtherSsh
  \/ \E what \in {"none", "idle", "shell", "busy"} : Adbd(what)
  \/ Burn
  \/ Start \/ Stop
  \/ KillHook \/ KillWatcher

Script ==
  \/ \E s \in Session : LockCmd(s) \/ UnlockCmd(s) \/ QueryToken(s)
  \/ Watch \/ ReleaseCmd
  \/ WriteToken \/ RemoveToken
  \/ DecideSsh \/ DecideAdb
  \/ Arm \/ ArmFails \/ Mark \/ Unmark \/ Disarm

Next == Environment \/ Script \/ Tick

Spec == Init /\ [][Next]_vars

\* Scripts run on, every hook gets the flock in its turn and time passes, however
\* often the admin restarts the service; no user, adbd or crash is obliged to act.
FairSpec ==
  /\ Spec
  /\ WF_vars(Script)
  /\ \A s \in Session : SF_vars(LockCmd(s)) /\ SF_vars(UnlockCmd(s))
  /\ SF_vars(Tick)
-------------------------------------------------------------------------------
(* Properties.                                                             *)

\* While the watcher has had one faultless poll since the last fault, a session
\* that has its token keeps the kernel lock, whatever other sessions do: only the
\* last unlock drops the class (script lines 193-201).
SessionKeepsLock ==
  settled = "yes" =>
    \A s \in token : unit[s] \in {"active", "post"} => klock["ssh"] > 0

\* What the script believes it holds it does hold: the marker never outlives the
\* kernel's timeout while the watcher re-arms (lines 94-102).
MarkerIsTrue == settled = "yes" => \A c \in held : klock[c] > 0

\* A token whose unit is gone does not survive a poll (lines 114-127).
NoStaleToken == settled = "yes" => \A s \in token : Attached(s)

\* How late a poll may find a reason that has gone: ticks of adbd are seen by the
\* poll after they were burned, a session by asking about it.
Late(c) == IF c = "adb" THEN 1 ELSE 0

\* With no reason left the lock is gone TIMEOUT_S after the poll that saw the last
\* one, whatever has crashed: nothing re-arms a lock without a reason (lines 28-32),
\* and no adbd is taken for busy on ticks the poll before has seen (146-160).
LeakBounded ==
  \A c \in Class : klock[c] > 0 => klock[c] + idle[c] <= Timeout + Late(c)

\* A watcher that keeps running releases both classes for good once their reasons
\* are gone for good, and holds a class for good for a session, a connection or a
\* shell that stays, also one whose lock the unlock of a session took (193-201).
LocksFollow ==
  /\ \A c \in Class : <>[](~Reason(c)) => <>[](klock[c] = 0)
  /\ <>[](svc = "up" /\ Established) => <>[](klock["ssh"] > 0)
  /\ <>[](svc = "up" /\ adbd = "shell") => <>[](klock["adb"] > 0)
===============================================================================
