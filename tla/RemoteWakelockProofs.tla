------------------------- MODULE RemoteWakelockProofs -------------------------
(***************************************************************************)
(* No lock outlives the poll that saw its last reason by more than the     *)
(* timeout, for any sessions, any timeout and any number of crashes.       *)
(*                                                                         *)
(* LeakBounded is not inductive: that a lock is only armed for a reason of *)
(* this tick, or for adb of the last one, follows from what the flock's    *)
(* holder has seen (QueryJustified, ArmJustified) or is (TokenJustified),  *)
(* from adbd's ticks being read at every poll (TicksSeen), and from time   *)
(* standing still while a script runs (NoScriptIdle).                      *)
(***************************************************************************)
EXTENDS RemoteWakelock, TLAPS

\* Whoever has the flock is at a command, and only then.
NoScriptIdle == at # "idle" => owner # "nobody"

\* A script about to write a token belongs to a unit that is starting, one about to
\* remove its token to a unit.
TokenJustified ==
  /\ at = "token" => owner \in Session /\ unit[owner] = "pre"
  /\ at = "untoken" => owner \in Session

\* A class with a reason has a zero count of reasonless ticks.
ReasonSeen == \A c \in Class : Reason(c) => idle[c] = 0

\* A live answer from systemd is about this very tick, a decision to arm adb at
\* most about the one before.
QueryJustified == at = "query" /\ alive => idle["ssh"] = 0
ArmJustified   == at = "arm" => idle[cls] <= Late(cls)

\* Ticks that count were burned since the last poll: within this tick, once the
\* watcher has read them in it, within the last one before that.
TicksSeen ==
  adb_ticks = "many" =>
    /\ idle["adb"] <= 1
    /\ \/ svc = "up" /\ asleep
       \/ svc = "up" /\ owner = "watch" /\ cls = "adb" /\ at \in {"arm", "mark", "unmark", "disarm"}
       => idle["adb"] = 0

\* The adb half of evaluate is about adb.
AdbHalf == at = "adb" => cls = "adb"

Justified ==
  /\ NoScriptIdle
  /\ AdbHalf
  /\ TokenJustified
  /\ ReasonSeen
  /\ QueryJustified
  /\ ArmJustified
  /\ TicksSeen

IInv == TypeOK /\ Justified /\ LeakBounded

LEMMA IInvInit == Init => IInv
<1> SUFFICES ASSUME Init PROVE IInv
  OBVIOUS
<1>1. TypeOK
  <2>1. /\ other \in BOOLEAN /\ adb_ticks \in {"none", "few", "many"}
        /\ asleep \in BOOLEAN /\ alive \in BOOLEAN
    BY DEF Init
  <2>2. /\ klock \in [Class -> 0 .. Timeout] /\ idle \in [Class -> 0 .. Timeout + 1]
        /\ faults \in 0 .. MaxFaults
    BY RWAssumption DEF Init, Class
  <2>3. /\ unit \in [Session -> {"none", "pre", "active", "post", "gone"}]
        /\ adbd \in {"none", "idle", "shell", "busy"}
        /\ svc \in {"down", "up", "stopped", "failed", "wait"}
        /\ token \in SUBSET Session /\ held \in SUBSET Class /\ todo \in SUBSET Session
        /\ owner \in Owner /\ at \in Step /\ cls \in Class
        /\ settled \in {"no", "polling", "yes"}
    BY DEF Init, Class, Owner, Step
  <2> QED
    BY <2>1, <2>2, <2>3 DEF TypeOK
<1>2. Justified
  BY DEF Init, Justified, NoScriptIdle, AdbHalf, TokenJustified, ReasonSeen, QueryJustified,
         ArmJustified, TicksSeen, Late, Class
<1>3. LeakBounded
  BY DEF Init, LeakBounded
<1> QED
  BY <1>1, <1>2, <1>3 DEF IInv

-------------------------------------------------------------------------------
\* The end of a critical section, and its continuation with the second class,
\* keep the types of what they assign.
LEMMA LeaveTypes ==
  ASSUME TypeOK, Leave(owner)
  PROVE  /\ owner' = "nobody" /\ at' = "idle"
         /\ unit' \in [Session -> {"none", "pre", "active", "post", "gone"}]
         /\ svc' \in {"down", "up", "stopped", "failed", "wait"}
         /\ svc' = "up" => svc = "up"
         /\ asleep' \in BOOLEAN /\ (asleep' => asleep \/ owner = "watch")
         /\ \A s \in Session : unit'[s] \in {"pre", "active", "post"}
                                => unit[s] \in {"pre", "active", "post"}
BY DEF TypeOK, Leave

LEMMA ContinueTypes ==
  ASSUME TypeOK, Continue(cls)
  PROVE  /\ owner' \in Owner /\ at' \in {"idle", "adb", "unmark"} /\ cls' \in Class
         /\ at' # "idle" => owner' # "nobody"
         /\ at' = "adb" => cls' = "adb"
         /\ unit' \in [Session -> {"none", "pre", "active", "post", "gone"}]
         /\ svc' \in {"down", "up", "stopped", "failed", "wait"}
         /\ svc' = "up" => svc = "up"
         /\ at' = "unmark" => owner' # "watch"
         /\ asleep' \in BOOLEAN /\ (asleep' => asleep \/ (owner = "watch" /\ cls = "adb"))
         /\ \A s \in Session : unit'[s] \in {"pre", "active", "post"}
                                => unit[s] \in {"pre", "active", "post"}
<1>1. CASE cls = "ssh" /\ owner \in {"watch", "release"}
  BY <1>1, RWAssumption DEF TypeOK, Continue, Class, Owner
<1>2. CASE ~(cls = "ssh" /\ owner \in {"watch", "release"})
  BY <1>2, LeaveTypes DEF TypeOK, Continue, Class, Owner
<1> QED
  BY <1>1, <1>2

LEMMA SettleTypes ==
  TypeOK /\ Settle => settled' \in {"no", "polling", "yes"}
BY DEF TypeOK, Settle

\* Every step keeps the types; WriteToken needs to know whose token it is.
LEMMA TypeOKNext == TypeOK /\ TokenJustified /\ [Next]_vars => TypeOK'
<1> SUFFICES ASSUME TypeOK, TokenJustified, [Next]_vars PROVE TypeOK'
  OBVIOUS
<1> USE RWAssumption DEF TypeOK, Class, Owner, Step, envVars, scriptVars
<1>1. ASSUME NEW s \in Session, Connect(s) PROVE TypeOK'
  BY <1>1 DEF Connect, Seen
<1>2. ASSUME NEW s \in Session, Disconnect(s) PROVE TypeOK'
  BY <1>2 DEF Disconnect
<1>3. CASE OtherSsh
  BY <1>3 DEF OtherSsh, Seen
<1>4. ASSUME NEW what \in {"none", "idle", "shell", "busy"}, Adbd(what) PROVE TypeOK'
  BY <1>4 DEF Adbd
<1>4a. CASE Burn
  BY <1>4a DEF Burn
<1>5. CASE Start
  <2>1. asleep' \in BOOLEAN /\ adb_ticks' = "none"
    BY <1>5 DEF Start
  <2> QED
    BY <1>5, <2>1 DEF Start
<1>6. CASE Stop
  BY <1>6 DEF Stop
<1>7. CASE KillHook
  BY <1>7, LeaveTypes DEF KillHook
<1>8. CASE KillWatcher
  BY <1>8 DEF KillWatcher
<1>9. ASSUME NEW s \in Session, LockCmd(s) PROVE TypeOK'
  BY <1>9 DEF LockCmd, Enter
<1>10. ASSUME NEW s \in Session, UnlockCmd(s) PROVE TypeOK'
  BY <1>10 DEF UnlockCmd, Enter
<1>11. ASSUME NEW s \in Session, QueryToken(s) PROVE TypeOK'
  <2>1. alive' \in BOOLEAN
    BY <1>11 DEF QueryToken
  <2> QED
    BY <1>11, <2>1 DEF QueryToken
<1>12. CASE Watch
  BY <1>12 DEF Watch, Enter
<1>13. CASE ReleaseCmd
  BY <1>13 DEF ReleaseCmd, Enter
<1>14. CASE WriteToken
  BY <1>14 DEF WriteToken, TokenJustified
<1>15. CASE RemoveToken
  BY <1>15, LeaveTypes DEF RemoveToken
<1>16. CASE DecideSsh
  BY <1>16 DEF DecideSsh
<1>17. CASE DecideAdb
  BY <1>17 DEF DecideAdb
<1>18. CASE Arm
  BY <1>18 DEF Arm
<1>19. CASE ArmFails
  BY <1>19, ContinueTypes DEF ArmFails
<1>20. CASE Mark
  BY <1>20, ContinueTypes, SettleTypes DEF Mark
<1>21. CASE Unmark
  <2>1. CASE cls \in held
    <3>1. /\ held' = held \ {cls} /\ at' = "disarm"
          /\ UNCHANGED <<unit, svc, asleep, owner, cls, settled, other, adbd, adb_ticks,
                         token, klock, todo, alive, faults, idle>>
      BY <1>21, <2>1, Zenon DEF Unmark
    <3> QED
      BY <3>1
  <2>2. CASE cls \notin held
    BY <1>21, <2>2, ContinueTypes, SettleTypes DEF Unmark
  <2> QED
    BY <2>1, <2>2
<1>22. CASE Disarm
  BY <1>22, ContinueTypes, SettleTypes DEF Disarm
<1>23. CASE Tick
  <2>1. klock' \in [Class -> 0 .. Timeout]
    BY <1>23 DEF Tick
  <2>2. idle' \in [Class -> 0 .. Timeout + 1]
    BY <1>23 DEF Tick
  <2>3. asleep' \in BOOLEAN /\ adb_ticks' \in {"none", "few", "many"}
    BY <1>23 DEF Tick
  <2> QED
    BY <1>23, <2>1, <2>2, <2>3 DEF Tick
<1>24. CASE UNCHANGED vars
  BY <1>24 DEF vars
<1>25. QED
  BY <1>1, <1>2, <1>3, <1>4, <1>5, <1>6, <1>7, <1>8, <1>9, <1>10, <1>11, <1>12,
     <1>13, <1>14, <1>15, <1>16, <1>17, <1>18, <1>19, <1>20, <1>21, <1>22, <1>23,
     <1>24, <1>4a
     DEF Next, Environment, Script
-------------------------------------------------------------------------------
\* Every step keeps what justifies arming a lock.
LEMMA JustifiedNext == TypeOK /\ Justified /\ [Next]_vars => Justified'
<1> SUFFICES ASSUME TypeOK, Justified, [Next]_vars PROVE Justified'
  OBVIOUS
<1> USE RWAssumption
    DEF TypeOK, Class, Owner, envVars, scriptVars, Reason, Attached, Justified,
        NoScriptIdle, AdbHalf, TokenJustified, ReasonSeen, QueryJustified,
        ArmJustified, TicksSeen, Late
<1>1. ASSUME NEW s \in Session, Connect(s) PROVE Justified'
  BY <1>1 DEF Connect, Seen
<1>2. ASSUME NEW s \in Session, Disconnect(s) PROVE Justified'
  BY <1>2 DEF Disconnect
<1>3. CASE OtherSsh
  BY <1>3 DEF OtherSsh, Seen
<1>4. ASSUME NEW what \in {"none", "idle", "shell", "busy"}, Adbd(what) PROVE Justified'
  BY <1>4 DEF Adbd
<1>4a. CASE Burn
  BY <1>4a DEF Burn
<1>5. CASE Start
  BY <1>5 DEF Start
<1>6. CASE Stop
  BY <1>6 DEF Stop
<1>7. CASE KillHook
  BY <1>7, LeaveTypes DEF KillHook
<1>8. CASE KillWatcher
  BY <1>8 DEF KillWatcher
<1>9. ASSUME NEW s \in Session, LockCmd(s) PROVE Justified'
  BY <1>9 DEF LockCmd, Enter
<1>10. ASSUME NEW s \in Session, UnlockCmd(s) PROVE Justified'
  BY <1>10 DEF UnlockCmd, Enter
<1>11. ASSUME NEW s \in Session, QueryToken(s) PROVE Justified'
  BY <1>11 DEF QueryToken
<1>12. CASE Watch
  BY <1>12 DEF Watch, Enter
<1>13. CASE ReleaseCmd
  BY <1>13 DEF ReleaseCmd, Enter
<1>14. CASE WriteToken
  BY <1>14 DEF WriteToken
<1>15. CASE RemoveToken
  BY <1>15, LeaveTypes DEF RemoveToken
<1>16. CASE DecideSsh
  BY <1>16 DEF DecideSsh, Established
<1>17. CASE DecideAdb
  BY <1>17 DEF DecideAdb
<1>18. CASE Arm
  BY <1>18 DEF Arm
<1>19. CASE ArmFails
  BY <1>19, ContinueTypes DEF ArmFails
<1>20. CASE Mark
  BY <1>20, ContinueTypes DEF Mark
<1>21. CASE Unmark
  <2>1. CASE cls \in held
    BY <1>21, <2>1 DEF Unmark
  <2>2. CASE cls \notin held
    BY <1>21, <2>2, ContinueTypes DEF Unmark
  <2> QED
    BY <2>1, <2>2
<1>22. CASE Disarm
  BY <1>22, ContinueTypes DEF Disarm
<1>23. CASE Tick
  BY <1>23 DEF Tick, Quiet
<1>24. CASE UNCHANGED vars
  BY <1>24 DEF vars
<1>25. QED
  BY <1>1, <1>2, <1>3, <1>4, <1>5, <1>6, <1>7, <1>8, <1>9, <1>10, <1>11, <1>12,
     <1>13, <1>14, <1>15, <1>16, <1>17, <1>18, <1>19, <1>20, <1>21, <1>22, <1>23,
     <1>24, <1>4a
     DEF Next, Environment, Script

\* Only Arm makes a lock younger, only Tick makes a reason older.
LEMMA ClocksNext ==
  ASSUME TypeOK, [Next]_vars, ~Arm, ~Tick, ~Disarm
  PROVE  klock' = klock /\ \A c \in Class : idle'[c] = idle[c] \/ idle'[c] = 0
<1> USE DEF TypeOK, Class, envVars, scriptVars
<1>1. ASSUME NEW s \in Session, Connect(s) \/ Disconnect(s) \/ LockCmd(s)
                                \/ UnlockCmd(s) \/ QueryToken(s)
      PROVE  klock' = klock /\ \A c \in Class : idle'[c] = idle[c] \/ idle'[c] = 0
  BY <1>1 DEF Connect, Seen, Disconnect, LockCmd, UnlockCmd, Enter, QueryToken
<1>2. ASSUME NEW what \in {"none", "idle", "shell", "busy"}, Adbd(what)
      PROVE  klock' = klock /\ \A c \in Class : idle'[c] = idle[c] \/ idle'[c] = 0
  BY <1>2 DEF Adbd
<1>3. CASE OtherSsh
  BY <1>3 DEF OtherSsh, Seen
<1>4. CASE \/ Burn \/ Start \/ Stop \/ KillHook \/ KillWatcher \/ Watch \/ ReleaseCmd
           \/ WriteToken \/ RemoveToken \/ DecideSsh \/ DecideAdb
           \/ ArmFails \/ Mark \/ Unmark \/ UNCHANGED vars
  <2>1. klock' = klock /\ idle' = idle
    BY <1>4, Zenon
       DEF Burn, Start, Stop, KillHook, KillWatcher, Watch, ReleaseCmd, Enter, WriteToken,
           RemoveToken, DecideSsh, DecideAdb, ArmFails, Mark, Unmark, vars
  <2> QED
    BY <2>1
<1>5. QED
  BY <1>1, <1>2, <1>3, <1>4 DEF Next, Environment, Script

\* Arming starts the full timeout, but only for a class with a reason this tick or,
\* for adb, in the last one;
\* a tick takes one from the timeout for every one it adds to the reasonless time.
LEMMA BoundNext == IInv /\ [Next]_vars => LeakBounded'
<1> SUFFICES ASSUME IInv, [Next]_vars, NEW c \in Class, (klock[c] > 0)'
             PROVE  (klock[c] + idle[c] <= Timeout + Late(c))'
  BY DEF LeakBounded, Class
<1> USE RWAssumption DEF IInv
<1>0. /\ Timeout \in Nat /\ klock[c] \in 0 .. Timeout /\ idle[c] \in 0 .. Timeout + 1
      /\ klock \in [Class -> 0 .. Timeout] /\ idle \in [Class -> 0 .. Timeout + 1]
      /\ cls \in Class
      /\ klock[c] > 0 => klock[c] + idle[c] <= Timeout + Late(c)
      /\ Late(c) \in {0, 1}
  BY DEF TypeOK, LeakBounded, Late
<1>1. CASE Arm
  BY <1>0, <1>1 DEF Arm, Justified, ArmJustified
<1>2. CASE Tick
  BY <1>0, <1>2 DEF Tick
<1>3. CASE Disarm
  BY <1>0, <1>3 DEF Disarm
<1>4. CASE ~Arm /\ ~Tick /\ ~Disarm
  BY <1>0, <1>4, ClocksNext
<1> QED
  BY <1>1, <1>2, <1>3, <1>4

LEMMA IInvNext == IInv /\ [Next]_vars => IInv'
BY TypeOKNext, JustifiedNext, BoundNext DEF IInv, Justified

\* The variables keep their types.
THEOREM TypeCorrect == Spec => []TypeOK
<1>1. IInv => TypeOK
  BY DEF IInv
<1> QED
  BY IInvInit, IInvNext, <1>1, PTL DEF Spec

\* A wakelock is gone Timeout polls after the one that saw its last reason, whatever
\* was killed, refused or misreported on the way.
THEOREM LeakIsBounded == Spec => []LeakBounded
<1>1. IInv => LeakBounded
  BY DEF IInv
<1> QED
  BY IInvInit, IInvNext, <1>1, PTL DEF Spec
-------------------------------------------------------------------------------
(***************************************************************************)
(* What one faultless poll of the watcher establishes, the hooks of any    *)
(* number of sessions keep: no stale token, no marker without its kernel   *)
(* lock, and no started session without the lock.                          *)
(*                                                                         *)
(* None of the three is inductive.  A poll establishes them command by     *)
(* command (TokensSeen, SshDone), a hook's critical section breaks off in  *)
(* no state that settles (Roles, Polls), and a lock survives until the     *)
(* next poll because Timeout exceeds the poll interval (TimeLeft).         *)
(***************************************************************************)

\* Who has the flock, and at which of its commands.
Roles ==
  /\ owner = "nobody" => at = "idle"
  /\ owner = "watch" => svc = "up" /\ ~asleep /\ at \notin {"idle", "token", "untoken"}
  /\ owner = "release" => svc \in {"stopped", "failed"} /\ at \in {"unmark", "disarm"}
  /\ owner \in Session =>
       \/ unit[owner] = "pre" /\ (at = "token" \/ (at \in {"arm", "mark"} /\ cls = "ssh"))
       \/ unit[owner] = "post" /\ (at = "untoken" \/ (at \in {"unmark", "disarm"} /\ cls = "ssh"))

\* Only the watcher of a service that is up is in a poll that may settle the state.
Polls ==
  /\ settled # "no" => svc = "up"
  /\ settled = "polling" => owner = "watch"

\* What a poll has found out about the tokens so far: those it asked about are live,
\* and if one is left the class will be armed.
TokensSeen ==
  /\ settled = "yes" \/ (settled = "polling" /\ at # "query") => \A s \in token : Attached(s)
  /\ settled # "no" /\ at = "query" =>
       /\ \A s \in token : s \in todo \/ Attached(s)
       /\ alive \/ token \subseteq todo

\* Nobody is about to drop ssh while there are tokens.
DropsWhenEmpty ==
  /\ at \in {"unmark", "disarm"} /\ cls = "ssh" /\ (settled # "no" \/ owner \in Session)
  => token = {}

\* The marker goes before the kernel's lock and comes after it.
MarkerInside == (at = "disarm" => cls \notin held) /\ (at = "mark" => klock[cls] = Timeout)

\* Until the watcher's next poll there is time left, one Tick more while it sleeps.
TimeLeft ==
  settled = "yes" => \A c \in held : klock[c] > 0 /\ (asleep => klock[c] > 1)

\* A session that has started and has its token has the marker of its class.
SessionMarked ==
  settled = "yes" => \A s \in token : unit[s] \in {"active", "post"} => "ssh" \in held

\* In its adb half a poll has left ssh marked if there is a token, and fresh if marked.
SshDone ==
  settled # "no" /\ owner = "watch" /\ cls = "adb" /\ at # "query" =>
    (token # {} => "ssh" \in held) /\ ("ssh" \in held => klock["ssh"] > 1)

Kept == /\ Roles /\ Polls /\ TokensSeen /\ DropsWhenEmpty /\ MarkerInside
        /\ TimeLeft /\ SessionMarked /\ SshDone

LEMMA KeptInit == Init => Kept
BY RWAssumption
   DEF Init, Kept, Roles, Polls, TokensSeen, DropsWhenEmpty, MarkerInside, TimeLeft,
       SessionMarked, SshDone

-------------------------------------------------------------------------------
\* The end of a critical section moves the caller's unit on and nobody else's.
LEMMA LeaveFacts ==
  ASSUME TypeOK, Roles, Leave(owner)
  PROVE  /\ owner' = "nobody" /\ at' = "idle"
         /\ unit' \in [Session -> {"none", "pre", "active", "post", "gone"}]
         /\ \A s \in Session : s # owner => unit'[s] = unit[s]
         /\ owner \in Session => unit'[owner] = IF unit[owner] = "pre" THEN "active" ELSE "gone"
         /\ owner # "release" => svc' = svc
         /\ asleep' = (asleep \/ owner = "watch")
BY DEF TypeOK, Leave

\* Every step keeps what a poll establishes: only the end of a hook detaches a unit, and
\* by then its token is gone.
LEMMA KeptNext == TypeOK /\ AdbHalf /\ Kept /\ [Next]_vars => Kept'
<1> SUFFICES ASSUME TypeOK, AdbHalf, Kept, [Next]_vars PROVE Kept'
  OBVIOUS
<1> USE RWAssumption
    DEF TypeOK, Class, Owner, Step, envVars, scriptVars, Attached, Kept, Roles, Polls,
        TokensSeen, DropsWhenEmpty, MarkerInside, TimeLeft, SessionMarked, SshDone
<1>1. ASSUME NEW s \in Session, Connect(s) PROVE Kept'
  BY <1>1 DEF Connect, Seen
<1>2. ASSUME NEW s \in Session, Disconnect(s) PROVE Kept'
  BY <1>2 DEF Disconnect
<1>3. CASE OtherSsh
  BY <1>3 DEF OtherSsh, Seen
<1>4. ASSUME NEW what \in {"none", "idle", "shell", "busy"}, Adbd(what) PROVE Kept'
  BY <1>4 DEF Adbd
<1>4a. CASE Burn
  BY <1>4a DEF Burn
<1>5. CASE Start
  BY <1>5 DEF Start
<1>6. CASE Stop
  BY <1>6 DEF Stop
<1>7. CASE KillHook
  BY <1>7, LeaveFacts DEF KillHook
<1>8. CASE KillWatcher
  BY <1>8 DEF KillWatcher
<1>9. ASSUME NEW s \in Session, LockCmd(s) PROVE Kept'
  BY <1>9 DEF LockCmd, Enter
<1>10. ASSUME NEW s \in Session, UnlockCmd(s) PROVE Kept'
  BY <1>10 DEF UnlockCmd, Enter
<1>11. ASSUME NEW s \in Session, QueryToken(s) PROVE Kept'
  BY <1>11 DEF QueryToken
<1>12. CASE Watch
  BY <1>12 DEF Watch, Enter
<1>13. CASE ReleaseCmd
  BY <1>13 DEF ReleaseCmd, Enter
<1>14. CASE WriteToken
  BY <1>14 DEF WriteToken
<1>15. CASE RemoveToken
  BY <1>15, LeaveFacts DEF RemoveToken
<1>16. CASE DecideSsh
  BY <1>16 DEF DecideSsh
<1>17. CASE DecideAdb
  <2>1. /\ at = "adb" /\ at' \in {"arm", "unmark"}
        /\ UNCHANGED <<unit, svc, asleep, token, held, klock, owner, cls, todo, alive, settled>>
    BY <1>17, Zenon DEF DecideAdb
  <2> QED
    BY <2>1 DEF AdbHalf
<1>18. CASE Arm
  BY <1>18 DEF Arm
<1>19. CASE ArmFails
  BY <1>19, LeaveFacts DEF ArmFails, Continue
<1>20. CASE Mark
  BY <1>20, LeaveFacts DEF Mark, Continue, Settle
<1>21. CASE Unmark
  <2>1. CASE cls \in held
    <3>1. /\ at = "unmark" /\ held' = held \ {cls} /\ at' = "disarm"
          /\ UNCHANGED <<unit, svc, asleep, owner, cls, settled, token, klock, todo, alive>>
      BY <1>21, <2>1, Zenon DEF Unmark
    <3> QED
      BY <2>1, <3>1
  <2>2. CASE cls \notin held
    <3>1. /\ at = "unmark" /\ Continue(cls) /\ Settle
          /\ UNCHANGED <<token, held, klock, todo, alive>>
      BY <1>21, <2>2, Zenon DEF Unmark
    <3>2. CASE cls = "ssh" /\ owner \in {"watch", "release"}
      BY <2>2, <3>1, <3>2 DEF Continue, Settle
    <3>3. CASE ~(cls = "ssh" /\ owner \in {"watch", "release"})
      BY <2>2, <3>1, <3>3, LeaveFacts DEF Continue, Settle
    <3> QED
      BY <3>2, <3>3
  <2> QED
    BY <2>1, <2>2
<1>22. CASE Disarm
  BY <1>22, LeaveFacts DEF Disarm, Continue, Settle
<1>23. CASE Tick
  BY <1>23 DEF Tick, Quiet
<1>24. CASE UNCHANGED vars
  BY <1>24 DEF vars
<1>25. QED
  BY <1>1, <1>2, <1>3, <1>4, <1>5, <1>6, <1>7, <1>8, <1>9, <1>10, <1>11, <1>12,
     <1>13, <1>14, <1>15, <1>16, <1>17, <1>18, <1>19, <1>20, <1>21, <1>22, <1>23,
     <1>24, <1>4a
     DEF Next, Environment, Script

LEMMA AllNext == IInv /\ Kept /\ [Next]_vars => (IInv /\ Kept)'
BY IInvNext, KeptNext DEF IInv, Justified

\* After a faultless poll no token is left whose unit is gone, and none comes back
\* while hooks and polls interleave.
THEOREM NoTokenIsStale == Spec => []NoStaleToken
<1>1. Kept => NoStaleToken
  BY DEF Kept, TokensSeen, NoStaleToken
<1> QED
  BY IInvInit, KeptInit, AllNext, <1>1, PTL DEF Spec

\* After a faultless poll a marker in $RUNDIR/held means a lock the kernel still holds.
THEOREM MarkersAreTrue == Spec => []MarkerIsTrue
<1>1. Kept => MarkerIsTrue
  BY DEF Kept, TimeLeft, MarkerIsTrue
<1> QED
  BY IInvInit, KeptInit, AllNext, <1>1, PTL DEF Spec

\* After a faultless poll no session loses the lock by what other sessions do.
THEOREM SessionsKeepLock == Spec => []SessionKeepsLock
<1>1. Kept => SessionKeepsLock
  BY DEF Kept, TimeLeft, SessionMarked, SessionKeepsLock
<1> QED
  BY IInvInit, KeptInit, AllNext, <1>1, PTL DEF Spec
===============================================================================
