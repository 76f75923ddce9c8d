------------------------- MODULE WlanSuspendModeProofs -------------------------
(***************************************************************************)
(* STATE tells the truth about the driver and wlan0 whenever nobody is     *)
(* inside apply, for any bounds and any chip.                              *)
(*                                                                         *)
(* The invariant follows apply from command to command: what each step     *)
(* may rely on (Stage), that only one process is under way while nothing   *)
(* has gone wrong (Exclusive), and that the driver only ever filters when  *)
(* something could have told it to (Reach), so that the fallback never     *)
(* takes wlan0 down under a filtering driver.                              *)
(***************************************************************************)
EXTENDS WlanSuspendMode, TLAPS

Exclusive == \A p, q \in Proc : at[p] # "rest" /\ at[q] # "rest" => p = q

\* Before the first command that changes anything.
Early(p) == at[p] \in {"rest", "ioctl", "testmode", "link"}

Truth == (Suspended <=> state = "suspendmode") /\ (~link => mark)

Stage(p) ==
  /\ at[p] = "link"       => ~filter
  /\ at[p] = "record"     => (filter <=> job[p] = "suspendmode") /\ (~link => mark)
  /\ at[p] = "recordLink" => (link <=> job[p] = "normal") /\ ~filter
  /\ at[p] = "undo"       => state = "normal" /\ ~filter /\ (~link => mark)
  /\ at[p] = "mark"       => state = "suspendmode" /\ ~link
  /\ at[p] = "unmark"     => state = "normal" /\ link /\ ~filter

Reach ==
  /\ filter => iface /\ (chip.ioctl \/ testmode)
  /\ \A p \in Proc : at[p] = "testmode" => testmode

Truthful ==
  whole => /\ Exclusive
           /\ \A p \in Proc : Stage(p)
           /\ (\A p \in Proc : Early(p)) => Truth

\* apply only runs in the daemon's loop, at its end and after it.
Quiet == svc \in Rests \cup {"waiting", "ended"} => Resting

IInv == TypeOK /\ Reach /\ Quiet /\ Truthful
-------------------------------------------------------------------------------
(* Types.                                                                  *)

LEMMA InitTypes == Init => TypeOK
<1> SUFFICES ASSUME Init PROVE TypeOK
  OBVIOUS
<1>1. waited \in 0 .. WaitMax /\ msgs \in Seq(Mode) /\ Len(msgs) <= MsgMax
  BY WSAssumption DEF Init
<1>2. faults \in 0 .. MaxFaults /\ losses \in 0 .. MaxLoss /\ clis \in 0 .. MaxCli
  BY WSAssumption DEF Init
<1>3. /\ at \in [Proc -> Step] /\ job \in [Proc -> Mode]
      /\ cur \in [Proc -> Mode \cup {"unset"}]
  BY DEF Init, Mode, Step
<1>4. /\ testmode \in BOOLEAN /\ iface \in BOOLEAN /\ wish \in BOOLEAN
      /\ filter \in BOOLEAN /\ link \in BOOLEAN /\ sub \in BOOLEAN
      /\ mark \in BOOLEAN /\ whole \in BOOLEAN
  BY Zenon DEF Init
<1> QED
  BY <1>1, <1>2, <1>3, <1>4 DEF Init, TypeOK, Rests, Mode

LEMMA BeginTypes ==
  ASSUME TypeOK, NEW p \in Proc, NEW m \in Mode, NEW c \in Mode \cup {"unset"},
         Begin(p, m, c)
  PROVE  /\ at' \in [Proc -> Step] /\ job' \in [Proc -> Mode]
         /\ cur' \in [Proc -> Mode \cup {"unset"}]
BY DEF TypeOK, Begin, Step

\* The types of what Ends changes.
InPost ==
  /\ at \in [Proc -> Step] /\ job \in [Proc -> Mode]
  /\ cur \in [Proc -> Mode \cup {"unset"}]
  /\ svc = "post" /\ after \in Rests
  /\ sub \in BOOLEAN /\ whole \in BOOLEAN
  /\ msgs \in Seq(Mode) /\ Len(msgs) <= MsgMax

LEMMA EndsTypes ==
  ASSUME TypeOK, NEW then \in Rests, NEW intact, Ends(then, intact)
  PROVE  InPost'
<1>1. Begin("daemon", "normal", state) /\ svc' = "post" /\ after' \in Rests /\ msgs' = <<>>
  BY DEF Ends
<1>2. sub' \in BOOLEAN /\ whole' \in BOOLEAN
  BY Zenon DEF Ends, TypeOK
<1>3. state \in Mode \cup {"unset"} /\ "daemon" \in Proc /\ "normal" \in Mode
  BY DEF TypeOK, Proc, Mode
<1>4. msgs' \in Seq(Mode) /\ Len(msgs') <= MsgMax
  BY <1>1, WSAssumption
<1> QED
  BY <1>1, <1>2, <1>3, <1>4, BeginTypes DEF InPost

LEMMA ApplyTypes ==
  ASSUME TypeOK, NEW p \in Proc, Apply(p)
  PROVE  TypeOK'
<1>0. TypeOK
  OBVIOUS
<1>1. UNCHANGED <<phone, sub, msgs, unit, losses, clis>>
  BY DEF Apply, Ioctl, Testmode, LinkSet, Record, Undo, Mark, bounds
<1>2. at' \in [Proc -> Step] /\ job' \in [Proc -> Mode]
      /\ cur' \in [Proc -> Mode \cup {"unset"}]
  BY DEF TypeOK, Apply, Ioctl, Testmode, LinkSet, Record, Undo, Mark, Goto, Else, Step, driver
<1>3. state' \in Mode \cup {"unset"}
  BY DEF TypeOK, Apply, Ioctl, Testmode, LinkSet, Record, Undo, Mark, files
<1>4. mark' \in BOOLEAN
  BY Zenon DEF TypeOK, Apply, Ioctl, Testmode, LinkSet, Record, Undo, Mark, files
<1>5. filter' \in BOOLEAN
  BY Zenon DEF TypeOK, Apply, Ioctl, Testmode, LinkSet, Record, Undo, Mark, driver
<1>6. link' \in BOOLEAN
  BY Zenon DEF TypeOK, Apply, Ioctl, Testmode, LinkSet, Record, Undo, Mark, driver
<1>7. faults' \in 0 .. MaxFaults
  BY WSAssumption DEF TypeOK, Apply, Ioctl, Testmode, LinkSet, Record, Undo, Mark, Fault, NoFault, bounds
<1>8. whole' \in BOOLEAN
  BY Zenon DEF TypeOK, Apply, Ioctl, Testmode, LinkSet, Record, Undo, Mark, Fault, NoFault
<1> QED
  BY <1>0, <1>1, <1>2, <1>3, <1>4, <1>5, <1>6, <1>7, <1>8 DEF TypeOK, phone, unit

LEMMA TypesNext == TypeOK /\ [Next]_vars => TypeOK'
<1> SUFFICES ASSUME TypeOK, [Next]_vars PROVE TypeOK'
  OBVIOUS
<1>0. TypeOK
  OBVIOUS
<1> USE DEF phone, driver, unit, run, files, bounds
<1>1. CASE UNCHANGED vars
  BY <1>0, <1>1 DEF TypeOK, vars
<1>2. ASSUME NEW p \in Proc, Apply(p) PROVE TypeOK'
  BY <1>0, <1>2, ApplyTypes
<1>3. CASE Start \/ Restart
  <2>1. Starts
    BY <1>3 DEF Start, Restart
  <2>2. waited' \in 0 .. WaitMax /\ waited' < WaitMax
    BY <2>1, WSAssumption DEF Starts
  <2>3. cur' \in [Proc -> Mode \cup {"unset"}] /\ pcur' \in Mode \cup {"unset"}
    BY <1>0, <2>1 DEF TypeOK, Starts
  <2> QED
    BY <1>0, <2>1, <2>2, <2>3 DEF TypeOK, Starts
<1>4. CASE PostDone
  BY <1>0, <1>4 DEF TypeOK, PostDone, Rests
<1>5. CASE WaitIface
  <2>1. waited' = waited + 1 /\ waited \in Nat /\ waited < WaitMax /\ WaitMax \in Nat
    BY <1>0, <1>5, WSAssumption DEF TypeOK, WaitIface
  <2>2. waited' \in 0 .. WaitMax
    BY <2>1
  <2>3. CASE waited' >= WaitMax
    <3>1. "gaveup" \in Rests /\ Ends("gaveup", TRUE)
      BY <1>5, <2>3 DEF WaitIface, Rests
    <3>2. InPost'
      BY <1>0, <3>1, EndsTypes
    <3>3. UNCHANGED <<phone, driver, pcur, files, bounds>>
      BY <1>5 DEF WaitIface
    <3> QED
      BY <1>0, <2>2, <3>2, <3>3 DEF TypeOK, InPost
  <2>4. CASE ~(waited' >= WaitMax)
    <3>1. waited' < WaitMax
      BY <2>1, <2>4
    <3>2. UNCHANGED <<svc, after, sub, msgs, run, whole>>
      BY <1>5, <2>4 DEF WaitIface
    <3> QED
      BY <1>0, <1>5, <2>2, <3>1, <3>2 DEF TypeOK, WaitIface
  <2> QED
    BY <2>3, <2>4
<1>6. CASE Subscribe
  <2>1. Asked \in Mode
    BY DEF Asked, Mode
  <2>2. msgs' \in Seq(Mode) /\ Len(msgs') <= MsgMax
    <3>1. msgs' = <<Asked>> \/ msgs' = <<>>
      BY <1>6 DEF Subscribe
    <3>2. MsgMax \in Nat /\ MsgMax >= 1
      BY WSAssumption
    <3>3. <<Asked>> \in Seq(Mode) /\ Len(<<Asked>>) = 1
      BY <2>1
    <3>4. <<>> \in Seq(Mode) /\ Len(<<>>) = 0
      OBVIOUS
    <3>5. CASE msgs' = <<Asked>>
      BY <3>2, <3>3, <3>5
    <3>6. CASE msgs' = <<>>
      BY <3>2, <3>4, <3>6
    <3> QED
      BY <3>1, <3>5, <3>6
  <2>3. sub' \in BOOLEAN
    BY <1>6, Zenon DEF Subscribe
  <2>4. losses' \in 0 .. MaxLoss
    BY <1>0, <1>6, WSAssumption DEF TypeOK, Subscribe
  <2> QED
    BY <1>0, <1>6, <2>2, <2>3, <2>4 DEF TypeOK, Subscribe
<1>7. CASE ReadLine
  <2>1. Head(msgs) \in Mode /\ msgs' \in Seq(Mode) /\ Len(msgs') <= MsgMax
    BY <1>0, <1>7, WSAssumption DEF TypeOK, ReadLine
  <2>2. cur["daemon"] \in Mode \cup {"unset"} /\ "daemon" \in Proc
    BY <1>0 DEF TypeOK, Proc
  <2>3. whole' \in BOOLEAN
    BY <1>0, <1>7, Zenon DEF TypeOK, ReadLine
  <2> QED
    BY <1>0, <1>7, <2>1, <2>2, <2>3, BeginTypes DEF TypeOK, ReadLine
<1>8. CASE LoopEnds
  BY <1>0, <1>8 DEF TypeOK, LoopEnds
<1>9. CASE PipelineEnds
  <2>1. "daemon" \in Proc /\ "normal" \in Mode /\ pcur \in Mode \cup {"unset"}
    BY <1>0 DEF TypeOK, Proc, Mode
  <2>2. whole' \in BOOLEAN
    BY <1>0, <1>9, Zenon DEF TypeOK, PipelineEnds
  <2> QED
    BY <1>0, <1>9, <2>1, <2>2, BeginTypes DEF TypeOK, PipelineEnds
<1>10. CASE Exit \/ Stop
  <2>1. \E then \in Rests, intact \in {TRUE, ~Cut} : Ends(then, intact)
    BY <1>10 DEF Rests, Exit, Stop
  <2>2. InPost'
    BY <1>0, <2>1, EndsTypes
  <2>3. UNCHANGED <<phone, driver, waited, pcur, files, bounds>>
    BY <1>10 DEF Exit, Stop
  <2> QED
    BY <1>0, <2>2, <2>3 DEF TypeOK, InPost
<1>12. CASE Kill
  <2>1. "pause" \in Rests /\ Ends("pause", ~Cut)
    BY <1>12 DEF Rests, Kill
  <2>2. InPost'
    BY <1>0, <2>1, EndsTypes
  <2>3. faults' \in 0 .. MaxFaults
    BY <1>0, <1>12, WSAssumption DEF TypeOK, Kill
  <2>4. UNCHANGED <<phone, driver, waited, pcur, files, losses, clis>>
    BY <1>12 DEF Kill
  <2> QED
    BY <1>0, <2>2, <2>3, <2>4 DEF TypeOK, InPost
<1>13. CASE Upgrade
  <2>1. "pause" \in Rests /\ Ends("pause", TRUE)
    BY <1>13 DEF Rests, Upgrade
  <2>2. InPost'
    BY <1>0, <2>1, EndsTypes
  <2>3. /\ testmode' = TRUE
        /\ UNCHANGED <<screen, chip, iface, wish, driver, waited, pcur, files, bounds>>
    BY <1>13 DEF Upgrade
  <2>4. testmode' \in BOOLEAN
    BY <2>3, Zenon
  <2> QED
    BY <1>0, <2>2, <2>3, <2>4 DEF TypeOK, InPost
<1>14. ASSUME NEW m \in Mode, ByHand(m) PROVE TypeOK'
  <2>1. "cli" \in Proc /\ state \in Mode \cup {"unset"}
    BY <1>0 DEF TypeOK, Proc
  <2>2. clis' \in 0 .. MaxCli
    BY <1>0, <1>14, WSAssumption DEF TypeOK, ByHand
  <2>3. whole' \in BOOLEAN
    BY <1>0, <1>14, Zenon DEF TypeOK, ByHand
  <2> QED
    BY <1>0, <1>14, <2>1, <2>2, <2>3, BeginTypes DEF TypeOK, ByHand
<1>15. CASE Display \/ Dims
  <2>1. PICK m \in Mode : Pushes(m)
    BY <1>15 DEF Display, Dims, Mode
  <2>3. msgs' \in Seq(Mode) /\ Len(msgs') <= MsgMax
    <3>1. msgs \in Seq(Mode) /\ Len(msgs) <= MsgMax /\ MsgMax \in Nat
      BY <1>0, WSAssumption DEF TypeOK
    <3>2. CASE UNCHANGED msgs
      BY <3>1, <3>2
    <3>3. CASE Len(msgs) < MsgMax /\ msgs' = Append(msgs, m)
      BY <3>1, <3>3
    <3> QED
      BY <2>1, <3>2, <3>3 DEF Pushes
  <2>2. screen' \in {"on", "off"}
    BY <1>0, <1>15 DEF TypeOK, Display, Dims
  <2> QED
    BY <1>0, <1>15, <2>2, <2>3 DEF TypeOK, Display, Dims
<1>16. CASE SubLost
  <2>1. losses' \in 0 .. MaxLoss
    BY <1>0, <1>16, WSAssumption DEF TypeOK, SubLost
  <2>2. sub' \in BOOLEAN
    BY <1>16, Zenon DEF SubLost
  <2> QED
    BY <1>0, <1>16, <2>1, <2>2 DEF TypeOK, SubLost
<1>17. CASE IfaceAppears
  BY <1>0, <1>17 DEF TypeOK, IfaceAppears
<1>18. CASE UserWifi
  <2>1. wish' \in BOOLEAN /\ link' \in BOOLEAN /\ whole' \in BOOLEAN
    BY <1>18, Zenon DEF UserWifi
  <2> QED
    BY <1>0, <1>18, <2>1 DEF TypeOK, UserWifi
<1> QED
  BY <1>1, <1>2, <1>3, <1>4, <1>5, <1>6, <1>7, <1>8, <1>9, <1>10, <1>12,
     <1>13, <1>14, <1>15, <1>16, <1>17, <1>18
     DEF Next, Daemon, Others, Proc

\* Every behaviour keeps the state well-typed: the wait is bounded, no message is read
\* that was not pushed (wlan-suspend-mode:353-379).
THEOREM TypeCorrect == Spec => []TypeOK
<1>1. Init => TypeOK
  BY InitTypes
<1>2. TypeOK /\ [Next]_vars => TypeOK'
  BY TypesNext
<1> QED
  BY <1>1, <1>2, PTL DEF Spec
-------------------------------------------------------------------------------
(* apply.                                                                  *)

LEMMA ApplyMoves ==
  ASSUME TypeOK, NEW p \in Proc, Apply(p)
  PROVE  /\ at[p] # "rest" /\ (\A q \in Proc \ {p} : at'[q] = at[q])
         /\ at'[p] \in Step /\ job' = job
         /\ UNCHANGED <<phone, unit>>
<1> USE DEF Apply, Ioctl, Testmode, LinkSet, Record, Undo, Mark, Goto, TypeOK
<1>1. at[p] # "rest" /\ job' = job /\ UNCHANGED <<phone, unit>>
  OBVIOUS
<1>2. \E s \in Step : at' = [at EXCEPT ![p] = s]
  BY DEF Else, Step
<1> QED
  BY <1>1, <1>2

LEMMA ApplyWhole ==
  ASSUME NEW p \in Proc, Apply(p), whole'
  PROVE  whole
BY Zenon DEF Apply, Ioctl, Testmode, LinkSet, Record, Undo, Mark, Fault, NoFault

LEMMA ApplyReach ==
  ASSUME TypeOK, Reach, NEW p \in Proc, Apply(p)
  PROVE  Reach'
<1> USE DEF Apply, Ioctl, Testmode, LinkSet, Record, Undo, Mark
<1>1. (\A q \in Proc \ {p} : at'[q] = at[q]) /\ UNCHANGED <<chip, testmode, iface>>
  BY ApplyMoves DEF phone
<1>2. at'[p] = "testmode" => testmode
  BY DEF TypeOK, Reach, Goto, Else
<1>3. \/ UNCHANGED filter
      \/ iface /\ (chip.ioctl \/ testmode)
  BY DEF Reach, driver
<1>4. filter' => iface /\ (chip.ioctl \/ testmode)
  BY <1>3 DEF Reach
<1> QED
  BY <1>1, <1>2, <1>4 DEF Reach

\* What each command leaves for the next one, with nobody else inside apply.
LEMMA ApplyStage ==
  ASSUME TypeOK, Reach, NEW p \in Proc, Apply(p), whole',
         Stage(p), Early(p) => Truth
  PROVE  Stage(p)' /\ (Early(p)' => Truth')
<1> USE DEF Stage, Early
<1>0. at \in [Proc -> Step] /\ job[p] \in Mode /\ job' = job
  BY ApplyMoves DEF TypeOK
<1>1. CASE Ioctl(p)
  <2>1. UNCHANGED <<link, state, mark>> /\ at[p] = "ioctl"
    BY <1>1 DEF Ioctl, files
  <2>2. Truth
    BY <2>1
  <2>3. \/ (filter' <=> job[p] = "suspendmode") /\ at'[p] = "record"
        \/ /\ filter' = filter /\ ~(chip.ioctl /\ iface)
           /\ at'[p] \in {"testmode", "link", "rest"}
           /\ at'[p] = "link" => ~testmode
    BY <1>0, <1>1 DEF Ioctl, Goto, Fault, Else
  <2> QED
    BY <1>0, <2>1, <2>2, <2>3 DEF Truth, Suspended, Reach
<1>2. CASE Testmode(p)
  <2>1. UNCHANGED <<link, state, mark>> /\ at[p] = "testmode"
    BY <1>2 DEF Testmode, files
  <2>2. Truth
    BY <2>1
  <2>3. \/ (filter' <=> job[p] = "suspendmode") /\ at'[p] = "record"
        \/ filter' = filter /\ ~iface /\ at'[p] \in {"link", "rest"}
    BY <1>0, <1>2 DEF Testmode, Goto, Fault, Else
  <2> QED
    BY <1>0, <2>1, <2>2, <2>3 DEF Truth, Suspended, Reach
<1>3. CASE LinkSet(p)
  <2>1. UNCHANGED <<filter, state, mark>> /\ at[p] = "link"
    BY <1>3 DEF LinkSet, files
  <2>2. Truth
    BY <2>1
  <2>3. \/ (link' <=> job[p] = "normal") /\ at'[p] = "recordLink"
        \/ link' = link /\ at'[p] = "rest"
    BY <1>0, <1>3 DEF LinkSet, Goto, Fault
  <2> QED
    BY <1>0, <2>1, <2>2, <2>3 DEF Truth, Suspended
<1>4. CASE Record(p)
  <2>1. UNCHANGED <<filter, link, mark>> /\ state' = job[p]
    BY <1>4 DEF Record, driver
  <2>2. CASE at[p] = "record"
    <3>1. at'[p] = IF job[p] = "normal" THEN "undo" ELSE "rest"
      BY <1>0, <1>4, <2>2 DEF Record
    <3> QED
      BY <1>0, <2>1, <2>2, <3>1 DEF Truth, Suspended, Mode
  <2>3. CASE at[p] = "recordLink"
    <3>1. at'[p] = IF job[p] = "normal" THEN "unmark" ELSE "mark"
      BY <1>0, <1>4, <2>3 DEF Record
    <3> QED
      BY <1>0, <2>1, <2>3, <3>1 DEF Truth, Suspended, Mode
  <2> QED
    BY <1>4, <2>2, <2>3 DEF Record
<1>5. CASE Undo(p)
  <2>1. UNCHANGED <<filter, state, mark>> /\ at[p] = "undo"
    BY <1>5 DEF Undo, files
  <2>2. \/ ~mark /\ link' = link /\ at'[p] = "rest"
        \/ link' /\ at'[p] = "unmark"
    BY <1>0, <1>5 DEF Undo, Goto, Fault
  <2> QED
    BY <1>0, <2>1, <2>2 DEF Truth, Suspended
<1>6. CASE Mark(p)
  <2>1. UNCHANGED <<filter, link, state>> /\ at'[p] = "rest" /\ at[p] \in {"mark", "unmark"}
    BY <1>0, <1>6 DEF Mark, Goto, driver
  <2>2. mark' <=> at[p] = "mark"
    BY <1>6, Zenon DEF Mark
  <2> QED
    BY <1>0, <2>1, <2>2 DEF Truth, Suspended
<1> QED
  BY <1>1, <1>2, <1>3, <1>4, <1>5, <1>6 DEF Apply

LEMMA ApplyTruthful ==
  ASSUME TypeOK, Reach, Truthful, NEW p \in Proc, Apply(p)
  PROVE  Truthful'
<1> SUFFICES ASSUME whole' PROVE /\ Exclusive'
                                /\ (\A q \in Proc : Stage(q))'
                                /\ ((\A q \in Proc : Early(q)) => Truth)'
  BY DEF Truthful
<1>1. whole
  BY ApplyWhole
<1>2. Exclusive /\ Stage(p) /\ ((\A q \in Proc : Early(q)) => Truth)
  BY <1>1 DEF Truthful
<1>3. at[p] # "rest" /\ (\A q \in Proc \ {p} : at'[q] = at[q])
  BY ApplyMoves
<1>4. \A q \in Proc \ {p} : at[q] = "rest" /\ at'[q] = "rest"
  BY <1>2, <1>3 DEF Exclusive
<1>5. Exclusive'
  BY <1>4 DEF Exclusive
<1>6. Early(p) => Truth
  BY <1>2, <1>4 DEF Early
<1>7. Stage(p)' /\ (Early(p)' => Truth')
  BY <1>2, <1>6, ApplyStage
<1>8. \A q \in Proc \ {p} : Stage(q)'
  BY <1>4 DEF Stage
<1> QED
  BY <1>5, <1>7, <1>8
-------------------------------------------------------------------------------
(* Starting apply, and ending the process that runs it.                    *)

\* Process p starts apply afresh while every other is outside it.
LEMMA BeginTruthful ==
  ASSUME TypeOK, Truthful, NEW p \in Proc, NEW m \in Mode, NEW c, Begin(p, m, c),
         UNCHANGED <<driver, files>>,
         whole' => /\ whole /\ Alone(p)
                   /\ Early(p) \/ at[p] = "unmark" \/ (at[p] = "undo" /\ ~mark)
  PROVE  Truthful'
<1> SUFFICES ASSUME whole' PROVE /\ Exclusive'
                                /\ (\A q \in Proc : Stage(q))'
                                /\ ((\A q \in Proc : Early(q)) => Truth)'
  BY DEF Truthful
<1>1. at'[p] \in {"rest", "ioctl"} /\ \A q \in Proc \ {p} : at'[q] = at[q]
  BY DEF TypeOK, Begin
<1>2. \A q \in Proc \ {p} : at[q] = "rest"
  BY DEF Alone
<1>3. Exclusive'
  BY <1>1, <1>2 DEF Exclusive
<1>4. (\A q \in Proc : Stage(q))'
  BY <1>1, <1>2 DEF Stage
<1>5. Truth
  <2>1. Stage(p) /\ (Early(p) => Truth)
    BY <1>2 DEF Truthful, Early
  <2>2. CASE Early(p)
    BY <2>1, <2>2
  <2>3. CASE at[p] = "unmark" \/ (at[p] = "undo" /\ ~mark)
    BY <2>1, <2>3 DEF Stage, Truth, Suspended
  <2> QED
    BY <2>2, <2>3
<1>6. Truth'
  BY <1>5 DEF Truth, Suspended, driver, files
<1> QED
  BY <1>3, <1>4, <1>6

LEMMA EndsTruthful ==
  ASSUME TypeOK, Truthful, NEW then, NEW intact, Ends(then, intact),
         UNCHANGED <<driver, files>>, intact => Resting \/ ~Cut
  PROVE  Truthful'
<1>1. Begin("daemon", "normal", state) /\ "daemon" \in Proc /\ "normal" \in Mode
  BY DEF Ends, Proc, Mode
<1>2. whole' => whole /\ intact /\ Alone("daemon")
  BY Zenon DEF Ends
<1>3. at["daemon"] \in Step
  BY <1>1 DEF TypeOK
<1>4. Resting \/ ~Cut => Early("daemon") \/ at["daemon"] = "unmark"
                           \/ (at["daemon"] = "undo" /\ ~mark)
  BY <1>3 DEF Resting, Cut, Early, Step
<1> QED
  BY <1>1, <1>2, <1>4, BeginTruthful

\* Nothing the truth is about has moved.
LEMMA SameTruthful ==
  ASSUME Truthful, UNCHANGED <<driver, files, at, job>>, whole' => whole
  PROVE  Truthful'
<1> USE DEF driver, files
<1>1. Exclusive => Exclusive'
  BY DEF Exclusive
<1>2. \A p \in Proc : Stage(p) => Stage(p)'
  BY DEF Stage
<1>3. (\A p \in Proc : Early(p))' => \A p \in Proc : Early(p)
  BY DEF Early
<1>4. Truth => Truth'
  BY DEF Truth, Suspended
<1> QED
  BY <1>1, <1>2, <1>3, <1>4 DEF Truthful

LEMMA TruthfulNext == IInv /\ [Next]_vars => Truthful'
<1> SUFFICES ASSUME IInv, [Next]_vars PROVE Truthful'
  OBVIOUS
<1>0. TypeOK /\ Reach /\ Quiet /\ Truthful
  BY DEF IInv
<1> USE DEF phone, driver, unit, run, files, bounds
<1>1. ASSUME NEW p \in Proc, Apply(p) PROVE Truthful'
  BY <1>0, <1>1, ApplyTruthful
<1>2. CASE UNCHANGED vars \/ Start \/ Restart \/ PostDone \/ Subscribe \/ LoopEnds
           \/ Display \/ Dims \/ SubLost \/ IfaceAppears
  <2>1. UNCHANGED <<driver, files, at, job>> /\ whole' = whole
    BY <1>2 DEF vars, Start, Restart, Starts, PostDone, Subscribe, LoopEnds, Display, Dims,
                SubLost, IfaceAppears
  <2> QED
    BY <1>0, <2>1, SameTruthful
<1>3. CASE WaitIface
  <2>1. Resting
    BY <1>0, <1>3 DEF Quiet, WaitIface
  <2>2. CASE waited' >= WaitMax
    <3>1. Ends("gaveup", TRUE) /\ UNCHANGED <<driver, files>>
      BY <1>3, <2>2 DEF WaitIface
    <3> QED
      BY <1>0, <2>1, <3>1, EndsTruthful
  <2>3. CASE ~(waited' >= WaitMax)
    <3>1. UNCHANGED <<driver, files, at, job>> /\ whole' = whole
      BY <1>3, <2>3 DEF WaitIface
    <3> QED
      BY <1>0, <3>1, SameTruthful
  <2> QED
    BY <2>2, <2>3
<1>4. CASE ReadLine
  <2>1. Head(msgs) \in Mode /\ "daemon" \in Proc
    BY <1>0, <1>4 DEF TypeOK, ReadLine, Proc
  <2>2. whole' => whole /\ Alone("daemon")
    BY <1>4, Zenon DEF ReadLine
  <2>3. Early("daemon") /\ Begin("daemon", Head(msgs), cur["daemon"]) /\ UNCHANGED <<driver, files>>
    BY <1>4 DEF ReadLine, Resting, Early
  <2> QED
    BY <1>0, <2>1, <2>2, <2>3, BeginTruthful
<1>5. CASE PipelineEnds
  <2>1. "normal" \in Mode /\ "daemon" \in Proc
    BY DEF Mode, Proc
  <2>2. whole' => whole /\ Alone("daemon")
    BY <1>5, Zenon DEF PipelineEnds
  <2>3. Early("daemon")
    BY <1>0, <1>5 DEF PipelineEnds, Quiet, Resting, Early
  <2>4. Begin("daemon", "normal", pcur) /\ UNCHANGED <<driver, files>>
    BY <1>5 DEF PipelineEnds
  <2> QED
    BY <1>0, <2>1, <2>2, <2>3, <2>4, BeginTruthful
<1>6. CASE Exit
  BY <1>0, <1>6, EndsTruthful DEF Exit
<1>7. CASE Stop
  BY <1>0, <1>7, EndsTruthful DEF Stop
<1>8. CASE Kill
  BY <1>0, <1>8, EndsTruthful DEF Kill
<1>9. CASE Upgrade
  BY <1>0, <1>9, EndsTruthful DEF Upgrade
<1>10. ASSUME NEW m \in Mode, ByHand(m) PROVE Truthful'
  <2>1. "cli" \in Proc /\ Begin("cli", m, state) /\ UNCHANGED <<driver, files>> /\ Early("cli")
    BY <1>10 DEF Proc, ByHand, Early
  <2>2. whole' => whole /\ Alone("cli")
    BY <1>10, Zenon DEF ByHand
  <2> QED
    BY <1>0, <2>1, <2>2, BeginTruthful
<1>11. CASE UserWifi
  BY <1>11 DEF UserWifi, Truthful
<1> QED
  BY <1>1, <1>2, <1>3, <1>4, <1>5, <1>6, <1>7, <1>8, <1>9, <1>10, <1>11
     DEF Next, Daemon, Others, Proc
-------------------------------------------------------------------------------
(* The rest of the invariant.                                              *)

LEMMA ReachNext == IInv /\ [Next]_vars => Reach'
<1> SUFFICES ASSUME IInv, [Next]_vars PROVE Reach'
  OBVIOUS
<1>0. TypeOK /\ Reach
  BY DEF IInv
<1> USE DEF phone, driver, unit, run, files, bounds
<1>1. ASSUME NEW p \in Proc, Apply(p) PROVE Reach'
  BY <1>0, <1>1, ApplyReach
<1>2. CASE ~ \E p \in Proc : Apply(p)
  <2>1. UNCHANGED <<filter, chip>> /\ (testmode => testmode') /\ (iface => iface')
    <3>1. CASE Upgrade
      <4>1. testmode'
        BY <3>1, Zenon DEF Upgrade
      <4> QED
        BY <3>1, <4>1 DEF Upgrade
    <3>2. CASE IfaceAppears
      <4>1. iface'
        BY <3>2, Zenon DEF IfaceAppears
      <4> QED
        BY <3>2, <4>1 DEF IfaceAppears
    <3>3. CASE UNCHANGED vars \/ Start \/ Restart \/ PostDone \/ WaitIface \/ Subscribe
               \/ ReadLine \/ LoopEnds \/ PipelineEnds \/ Exit
      <4>1. UNCHANGED <<filter, chip, testmode, iface>>
        BY <3>3 DEF vars, Start, Restart, Starts, PostDone, WaitIface, Subscribe, ReadLine,
                    LoopEnds, PipelineEnds, Exit
      <4> QED
        BY <4>1
    <3>4. CASE \/ Stop \/ Kill \/ (\E m \in Mode : ByHand(m))
               \/ Display \/ Dims \/ SubLost \/ UserWifi
      <4>1. UNCHANGED <<filter, chip, testmode, iface>>
        BY <3>4 DEF Stop, Kill, ByHand, Display, Dims, SubLost, UserWifi
      <4> QED
        BY <4>1
    <3> QED
      BY <1>2, <3>1, <3>2, <3>3, <3>4 DEF Next, Daemon, Others, Proc
  <2>2. \/ at' = at
        \/ at' = [at EXCEPT !["daemon"] = at'["daemon"]] /\ at'["daemon"] \in {"rest", "ioctl"}
        \/ at' = [at EXCEPT !["cli"] = at'["cli"]] /\ at'["cli"] \in {"rest", "ioctl"}
    <3>1. CASE \E m \in Mode : ByHand(m)
      BY <1>0, <3>1 DEF TypeOK, Begin, ByHand, Proc
    <3>2. CASE ReadLine \/ PipelineEnds \/ Exit \/ Stop \/ Kill \/ Upgrade
      BY <1>0, <3>2 DEF TypeOK, Begin, Ends, ReadLine, PipelineEnds, Exit, Stop, Kill,
                  Upgrade, Proc
    <3>3. CASE WaitIface
      BY <1>0, <3>3 DEF TypeOK, Begin, Ends, WaitIface, Proc
    <3>4. CASE UNCHANGED vars \/ Start \/ Restart \/ PostDone \/ Subscribe \/ LoopEnds
               \/ Display \/ Dims \/ SubLost \/ IfaceAppears \/ UserWifi
      BY <3>4 DEF vars, Start, Restart, Starts, PostDone, Subscribe, LoopEnds,
                  Display, Dims, SubLost, IfaceAppears, UserWifi
    <3> QED
      BY <1>2, <3>1, <3>2, <3>3, <3>4 DEF Next, Daemon, Others, Proc
  <2> QED
    BY <1>0, <2>1, <2>2 DEF Reach, TypeOK, Proc
<1> QED
  BY <1>1, <1>2

LEMMA QuietNext == IInv /\ [Next]_vars => Quiet'
<1> SUFFICES ASSUME IInv, [Next]_vars PROVE Quiet'
  OBVIOUS
<1>0. TypeOK /\ Quiet
  BY DEF IInv
<1> USE DEF phone, driver, unit, run, files, bounds, Quiet, Resting, Rests
<1>1. CASE Apply("daemon")
  <2>1. at["daemon"] # "rest" /\ svc' = svc
    BY <1>0, <1>1, ApplyMoves DEF Proc
  <2> QED
    BY <1>0, <2>1
<1>2. CASE Apply("cli")
  <2>1. at'["daemon"] = at["daemon"] /\ svc' = svc
    BY <1>0, <1>2, ApplyMoves DEF Proc
  <2> QED
    BY <1>0, <2>1
<1>3. CASE WaitIface
  <2>1. CASE waited' >= WaitMax
    BY <1>3, <2>1 DEF WaitIface, Ends
  <2>2. CASE ~(waited' >= WaitMax)
    BY <1>0, <1>3, <2>2 DEF WaitIface
  <2> QED
    BY <2>1, <2>2
<1>4. CASE Start \/ Restart \/ PostDone \/ Subscribe \/ LoopEnds
  BY <1>0, <1>4 DEF TypeOK, Start, Restart, Starts, PostDone, Subscribe, LoopEnds
<1>5. CASE ReadLine \/ PipelineEnds \/ Exit \/ Stop \/ Kill \/ Upgrade
  BY <1>0, <1>5 DEF ReadLine, PipelineEnds, Exit, Stop, Kill, Upgrade, Ends
<1>6. ASSUME NEW m \in Mode, ByHand(m) PROVE Quiet'
  BY <1>0, <1>6 DEF TypeOK, ByHand, Begin, Proc
<1>7. CASE UNCHANGED vars \/ Display \/ Dims \/ SubLost \/ IfaceAppears \/ UserWifi
  BY <1>0, <1>7 DEF vars, Display, Dims, SubLost, IfaceAppears, UserWifi
<1> QED
  BY <1>1, <1>2, <1>3, <1>4, <1>5, <1>6, <1>7 DEF Next, Daemon, Others

LEMMA InitIInv == Init => IInv
<1> SUFFICES ASSUME Init PROVE IInv
  OBVIOUS
<1>1. TypeOK
  BY InitTypes
<1>2. \A p \in Proc : at[p] = "rest"
  BY DEF Init
<1>3. ~filter /\ link /\ state = "unset"
  BY DEF Init
<1>4. Reach /\ Quiet
  BY <1>2, <1>3 DEF Reach, Quiet, Resting, Proc
<1>5. Truthful
  BY <1>2, <1>3 DEF Truthful, Exclusive, Stage, Truth, Suspended
<1> QED
  BY <1>1, <1>4, <1>5 DEF IInv

\* STATE and DOWNMARK tell what the hardware does whenever nobody is inside apply
\* (wlan-suspend-mode:50-57, 268-333), unless a command failed, was cut short or
\* overlapped another.
THEOREM StateTells == Spec => []StateIsTrue
<1>1. Init => IInv
  BY InitIInv
<1>2. IInv /\ [Next]_vars => IInv'
  BY TypesNext, ReachNext, QuietNext, TruthfulNext DEF IInv
<1>3. IInv => StateIsTrue
  BY DEF IInv, Truthful, Early, Truth, StateIsTrue
<1> QED
  BY <1>1, <1>2, <1>3, PTL DEF Spec
===============================================================================
