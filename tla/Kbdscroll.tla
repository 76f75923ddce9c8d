------------------------------- MODULE Kbdscroll -------------------------------
(***************************************************************************)
(* kbdscroll's event loop: fingers on a secondary touch surface and keys   *)
(* on the keyboards become one finger's drag on the touchscreen, or arrow  *)
(* keys while the cursor modifier is held.                                 *)
(*                                                                         *)
(* The loop alternates between poll(), draining the keyboards, and         *)
(* draining the pad; each pad frame (the events up to a SYN_REPORT) is     *)
(* read and handled to its end, and the world moves on in between.  The    *)
(* windows the code measures in milliseconds (typing-ms, the word-delete   *)
(* echo, rel-lift-ms) are flags that a step of time takes down.            *)
(*                                                                         *)
(* Positions are in pad units, after pad_xform; a single-touch surface is  *)
(* one with one slot.  Values the code can no longer read (a lifted slot's *)
(* position, a finished gesture's start) are not kept.                     *)
(***************************************************************************)
EXTENDS Integers, Sequences, FiniteSets

CONSTANTS
  Slots,       \* SLOTS: pad contacts tracked
  Relative,    \* the pad reports deltas, not contacts
  PadW, PadH,  \* the pad (or virtual surface), in pad units
  ScrW, ScrH,  \* the screen
  Scale, ScaleX, Unit,   \* scale and scale-x, in units of 1/Unit
  Slop, DriveSlop, StepX, StepY,
  Horizontal,  \* the option horizontal
  WordDelete,  \* word-delete keys and a text-focus file are configured
  Backlight,   \* there is a brightness file to read
  Removable,   \* the pad can disappear
  Mods,        \* the cursor-modifier keys; none when there is no arrow device
  ChordMod,    \* the one that is part of the word-delete chord, or "none"
  QueueMax,    \* pad frames the kernel buffers before it drops them
  KeyMax,      \* bound: the world waits while so many keyboard events are pending
  MaxLost      \* bound: how often the pad's buffer overflows

EDGE_DIV      == 8
SIDE_DIV      == 10
SIDE_STOP_DIV == 20

ASSUME KSAssumption ==
  /\ Slots \in Nat \ {0}
  /\ {Relative, Horizontal, WordDelete, Backlight, Removable} \subseteq BOOLEAN
  /\ {PadW, PadH, ScrW, ScrH, Unit, DriveSlop, Slop, StepX, StepY} \subseteq Nat \ {0}
  /\ Scale \in Nat /\ ScaleX \in Nat
  /\ QueueMax \in Nat /\ KeyMax \in Nat /\ MaxLost \in Nat
  /\ Mods \cap {"typing", "chord", "none"} = {}
  /\ ChordMod \in Mods \cup {"none"}

VARIABLES
  \* the world
  pad,        \* the fingers on the surface: slot -> position
  keys,       \* the modifier keys that are down, as the kernel has it
  display,    \* the backlight is on
  focus,      \* text-focus-file says 1
  gone,       \* the pad was unplugged
  \* the kernel's queues for the daemon
  padq, keyq, lost,
  \* the daemon
  pc, ready,  \* where the loop is, and what poll() reported
  quitting,
  typed,      \* a key was read less than typing-ms ago
  echo,       \* now_ms() < own_keys_until
  still,      \* rel-lift-ms have passed since rel_last
  finger,     \* id, x, y: the contacts as read so far, slot -> position
  relActive,
  altDown, wasAlt, altBlock,
  start,      \* sx, sy while the modifier is held
  drv, axis,  \* the driver contact and its axis
  a,          \* ax, ay
  tracking, scrolling, rejected,
  tSlot,
  origin,     \* x0, y0
  scrollAxis, anchor, padAnchor,
  \* the touchscreen
  contact, spot,
  nth,        \* flips with every touch-down of one gesture
  \* history, for the properties only
  barred,     \* why the finger in a slot may not scroll: it was there while the cursor
              \* was steered
  typedIn,    \* was a key typed in this gesture, before or during its slide?
  seen        \* pad coordinate the contact last followed

world    == <<pad, keys, display, focus, gone>>
queues   == <<padq, keyq, lost>>
keyboard == <<keys, keyq>>
loop     == <<pc, ready, quitting>>
clock    == <<typed, echo, still>>
fingers  == <<finger, relActive>>
cursor   == <<altDown, wasAlt, altBlock, start, drv, axis, a>>
gesture  == <<tracking, scrolling, rejected, tSlot, origin, scrollAxis, anchor, padAnchor>>
touch    == <<contact, spot, nth>>
history  == <<barred, typedIn, seen>>
vars == <<world, queues, loop, clock, fingers, cursor, gesture, touch, history>>

Slot   == 0 .. Slots - 1
NoSlot == -1
Pos    == [x : 0 .. PadW - 1, y : 0 .. PadH - 1]
Zero   == [x |-> 0, y |-> 0]
Hands  == UNION {[S -> Pos] : S \in SUBSET Slot}
Unbarred == [s \in Slot |-> "no"]
None   == [s \in {} |-> Zero]

\* One SYN_REPORT's worth of events: contacts lifted, put down and moved.
Frame == IF Relative THEN [x : 1 - PadW .. PadW - 1, y : 1 - PadH .. PadH - 1]
                     ELSE [up : SUBSET Slot, down : Hands, move : Hands]
Quiet == IF Relative THEN Zero ELSE [up |-> {}, down |-> None, move |-> None]

KeyEvent == [key : Mods \cup {"typing", "chord"}, value : {0, 1}]

FlagsOK ==
  /\ display \in BOOLEAN /\ focus \in BOOLEAN /\ gone \in BOOLEAN
  /\ quitting \in BOOLEAN
  /\ typed \in BOOLEAN /\ echo \in BOOLEAN /\ still \in BOOLEAN
  /\ relActive \in BOOLEAN
  /\ altDown \in BOOLEAN /\ wasAlt \in BOOLEAN /\ altBlock \in BOOLEAN
  /\ tracking \in BOOLEAN /\ scrolling \in BOOLEAN /\ rejected \in BOOLEAN

WorldOK ==
  /\ pad \in Hands
  /\ keys \in SUBSET Mods
  /\ padq \in Seq(Frame) /\ keyq \in Seq(KeyEvent) /\ lost \in 0 .. MaxLost

DaemonOK ==
  /\ pc \in {"poll", "keys", "pad", "frame", "quit", "exit"}
  /\ ready \in SUBSET {"pad", "keys"}
  /\ finger \in Hands
  /\ start \in Hands /\ drv \in Slot \cup {NoSlot} /\ axis \in {"x", "y"}
  /\ a \in [x : Int, y : Int]
  /\ tSlot \in Slot \cup {NoSlot}
  /\ origin \in Pos /\ scrollAxis \in {"x", "y"}
  /\ anchor \in [x : Int, y : Int] /\ padAnchor \in Int
  /\ contact \in {"up", "down"} /\ spot \in [x : Int, y : Int] /\ nth \in {0, 1}
  /\ barred \in [Slot -> {"no", "steered"}]
  /\ typedIn \in {"no", "before", "during"} /\ seen \in Int
  /\ relActive => Relative /\ DOMAIN finger = {0}
  /\ wasAlt => DOMAIN finger \subseteq DOMAIN start
  /\ tracking => tSlot \in Slot

TypeOK == FlagsOK /\ WorldOK /\ DaemonOK

Init ==
  /\ pad = None /\ keys = {} /\ display = TRUE /\ focus = FALSE /\ gone = FALSE
  /\ padq = <<>> /\ keyq = <<>> /\ lost = 0
  /\ pc = "poll" /\ ready = {} /\ quitting = FALSE
  /\ typed = FALSE /\ echo = FALSE /\ still = FALSE
  /\ finger = None /\ relActive = FALSE
  /\ altDown = FALSE /\ wasAlt = FALSE /\ altBlock = FALSE
  /\ start = None /\ drv = NoSlot /\ axis = "x" /\ a = Zero
  /\ tracking = FALSE /\ scrolling = FALSE /\ rejected = FALSE
  /\ tSlot = NoSlot /\ origin = Zero
  /\ scrollAxis = "y" /\ anchor = Zero /\ padAnchor = 0
  /\ contact = "up" /\ spot = Zero /\ nth = 0
  /\ barred = Unbarred /\ typedIn = "no" /\ seen = 0

-------------------------------------------------------------------------------
(* The world.                                                              *)

Running == pc # "exit"     \* the model ends with the process

Restrict(f, S) == [s \in S |-> f[s]]

\* The frame between two hands on the pad; swap: slots lifted and touched in one.
Between(h1, h2, swap) ==
  LET stay == (DOMAIN h1 \cap DOMAIN h2) \ swap IN
  [up   |-> DOMAIN h1 \ stay,
   down |-> Restrict(h2, DOMAIN h2 \ stay),
   move |-> Restrict(h2, {s \in stay : h1[s] # h2[s]})]

\* The kernel queues a frame.  A full buffer is emptied (SYN_DROPPED), and only
\* the SYN_REPORT that follows is left of what it held.
Report(f) ==
  IF Len(padq) < QueueMax
  THEN padq' = Append(padq, f) /\ UNCHANGED lost
  ELSE lost < MaxLost /\ lost' = lost + 1 /\ padq' = <<Quiet>>

\* Fingers come down, move and lift on a surface that reports contacts.
Slide ==
  /\ Running /\ ~Relative /\ ~gone /\ Len(keyq) <= KeyMax
  /\ \E hand \in Hands :
       \E swap \in SUBSET (DOMAIN pad \cap DOMAIN hand) :
         /\ hand # pad \/ swap # {}
         /\ Report(Between(pad, hand, swap))
         /\ pad' = hand
  /\ UNCHANGED <<keys, display, focus, gone, keyq, loop, clock, fingers,
                 cursor, gesture, touch, history>>

\* A finger on a relative pad: only its movement is reported.
RelSlide ==
  /\ Running /\ Relative /\ ~gone /\ pad # None
  /\ \E f \in Frame : Report(f)
  /\ UNCHANGED <<world, keyq, loop, clock, fingers, cursor, gesture, touch, history>>

RelFinger ==
  /\ Running /\ Relative /\ ~gone
  /\ pad' = IF pad = None THEN [s \in {0} |-> Zero] ELSE None
  /\ UNCHANGED <<keys, display, focus, gone, queues, loop, clock, fingers,
                 cursor, gesture, touch, history>>

Type ==
  /\ Running /\ Len(keyq) < KeyMax
  /\ keyq' = Append(keyq, [key |-> "typing", value |-> 1])
  /\ UNCHANGED <<world, padq, lost, loop, clock, fingers, cursor, gesture,
                 touch, history>>

Modifier(m) ==
  /\ Running /\ Len(keyq) < KeyMax
  /\ keys' = IF m \in keys THEN keys \ {m} ELSE keys \cup {m}
  /\ keyq' = Append(keyq, [key |-> m, value |-> IF m \in keys THEN 0 ELSE 1])
  /\ UNCHANGED <<pad, display, focus, gone, padq, lost, loop, clock, fingers,
                 cursor, gesture, touch, history>>

Screen ==
  /\ Running
  /\ \/ Backlight /\ display' = ~display /\ UNCHANGED focus
     \/ WordDelete /\ focus' = ~focus /\ UNCHANGED display
  /\ UNCHANGED <<pad, keys, gone, queues, loop, clock, fingers, cursor,
                 gesture, touch, history>>

\* The pad disappears.  What it had reported stays queued, but no read gets it.
Unplug ==
  /\ Running /\ Removable /\ ~gone /\ gone' = TRUE
  /\ pad' = None
  /\ UNCHANGED <<keys, display, focus, queues, loop, clock, fingers, cursor,
                 gesture, touch, history>>

\* SIGTERM, SIGINT or SIGHUP.  In "poll" it comes either while poll() sleeps, which
\* then returns EINTR, or in the instant before, and poll() sleeps all the same.
Signal ==
  /\ Running /\ ~quitting /\ quitting' = TRUE
  /\ pc' \in IF pc = "poll" THEN {"poll", "quit"} ELSE {pc}
  /\ UNCHANGED <<world, queues, ready, clock, fingers, cursor, gesture, touch, history>>

\* The windows close, the echo window 150 ms after the chord was sent, whether the
\* loop has come round to the keyboards by then or not.
Passes(cond) ==
  /\ Running /\ cond
  /\ UNCHANGED <<world, queues, loop, fingers, cursor, gesture, touch, history>>
TypingOver == Passes(typed) /\ typed' = FALSE /\ UNCHANGED <<echo, still>>
EchoOver   == Passes(echo) /\ echo' = FALSE /\ UNCHANGED <<typed, still>>
StillOver  == Passes(relActive /\ ~still) /\ still' = TRUE /\ UNCHANGED <<typed, echo>>
-------------------------------------------------------------------------------
(* The loop: poll(), the keyboards, a relative pad's lift.                 *)

Release         == contact' = "up" /\ spot' = Zero /\ nth' = 0               \* inj_up
TouchAt(p)      == contact' = "down" /\ spot' = p /\ UNCHANGED nth           \* inj_touch
LiftAndTouch(p) == contact' = "down" /\ spot' = p /\ nth' = 1 - nth

Again == IF quitting THEN "quit" ELSE "poll"     \* while (!quitting)

Quit ==          \* the loop is left, and no contact is left down
  /\ pc = "quit"
  /\ pc' = "exit" /\ Release
  /\ UNCHANGED <<world, queues, ready, quitting, clock, fingers, cursor,
                 gesture, history>>

\* poll() returns: with input, because an unplugged pad is always "ready" (POLLHUP
\* and POLLERR, but POLLIN only with events queued), or because a relative
\* contact is down and the timeout has passed.
Poll ==
  /\ pc = "poll"
  /\ padq # <<>> \/ keyq # <<>> \/ gone \/ relActive
  /\ ready' = {q \in {"pad", "keys"} : IF q = "pad" THEN padq # <<>> ELSE keyq # <<>>}
  /\ pc' = "keys"
  /\ UNCHANGED <<world, queues, quitting, clock, fingers, cursor, gesture, touch, history>>

KeyReady == pc = "keys" /\ "keys" \in ready /\ keyq # <<>>

\* Mutant: a key during the approach does not reject the gesture.
ReadTyping_KeepsGesture ==
  /\ typed' = TRUE
  /\ UNCHANGED <<rejected, altDown>>
  /\ typedIn' = IF ~tracking THEN typedIn ELSE IF scrolling THEN "during" ELSE "before"

\* A key press that is not a modifier's is typing.
ReadTyping ==
  /\ typed' = TRUE
  /\ rejected' = (rejected \/ (tracking /\ ~scrolling))
  /\ typedIn' = IF ~tracking THEN typedIn ELSE IF scrolling THEN "during" ELSE "before"
  /\ UNCHANGED altDown

ReadModifier(e) ==
  /\ altDown' = (e.value = 1)
  /\ UNCHANGED <<rejected, typed, typedIn>>

\* Mutant: a modifier's press is acted on before the echo window is looked at.
ReadKey_PressFirst ==
  /\ KeyReady
  /\ keyq' = Tail(keyq)
  /\ LET e == Head(keyq)
         skip == echo /\ (e.key \notin Mods \/ e.value = 0) IN
     \/ skip /\ UNCHANGED <<rejected, typed, altDown, typedIn>>
     \/ ~skip /\ e.key \in Mods /\ ReadModifier(e)
     \/ ~skip /\ e.key \notin Mods /\ ReadTyping
  /\ UNCHANGED <<world, padq, lost, loop, echo, still, fingers, wasAlt, altBlock,
                 start, drv, axis, a, tracking, scrolling, tSlot, origin,
                 scrollAxis, anchor, padAnchor, touch, barred, seen>>

\* One event read from a keyboard; in the echo window every one is skipped.
ReadKey ==
  /\ KeyReady
  /\ keyq' = Tail(keyq)
  /\ \/ echo /\ UNCHANGED <<rejected, typed, altDown, typedIn>>
     \/ ~echo /\ Head(keyq).key \in Mods /\ ReadModifier(Head(keyq))
     \/ ~echo /\ Head(keyq).key \notin Mods /\ ReadTyping
  /\ UNCHANGED <<world, padq, lost, loop, echo, still, fingers, wasAlt, altBlock,
                 start, drv, axis, a, tracking, scrolling, tSlot, origin,
                 scrollAxis, anchor, padAnchor, touch, barred, seen>>

\* Mutant: poll() blocks for good even while a relative contact is down.
KeysDone_NoLift ==
  /\ pc = "keys" /\ ~KeyReady
  /\ pc' = (IF "pad" \in ready THEN "pad" ELSE Again)
  /\ ready' = {}
  /\ UNCHANGED <<world, queues, quitting, clock, fingers, cursor, gesture, touch, history>>

\* The keyboards are drained.  A relative contact that has been still is lifted by
\* a synthetic SYN_REPORT; otherwise the pad is read if poll() said so.
KeysDone ==
  /\ pc = "keys" /\ ~KeyReady
  /\ IF relActive /\ still
       THEN /\ pc' = "frame"
            /\ finger' = None /\ relActive' = FALSE
            /\ barred' = Unbarred
       ELSE /\ pc' = (IF "pad" \in ready THEN "pad" ELSE Again)
            /\ UNCHANGED <<fingers, barred>>
  /\ ready' = {}                    \* revents is not looked at again
  /\ UNCHANGED <<world, queues, quitting, clock, cursor, gesture, touch,
                 typedIn, seen>>
-------------------------------------------------------------------------------
(* The pad: its events up to a SYN_REPORT change the contacts.             *)

Fresh(f) == DOMAIN f.down \ (DOMAIN finger \ f.up)

\* A position report for a slot whose touch-down was never read changes nothing.
Contacts(f) ==
  [s \in (DOMAIN finger \ f.up) \cup DOMAIN f.down |->
     IF s \in DOMAIN f.down THEN f.down[s]
     ELSE IF s \in DOMAIN f.move THEN f.move[s] ELSE finger[s]]

PadReady == pc = "pad" /\ ~gone /\ padq # <<>>

ReadContacts ==
  /\ PadReady /\ ~Relative
  /\ LET f == Head(padq)
         now == Contacts(f) IN
       /\ finger' = now
       /\ start' = IF wasAlt THEN [s \in DOMAIN now |-> IF s \in Fresh(f) THEN now[s] ELSE start[s]]
                             ELSE None
       /\ barred' = [s \in Slot |-> IF s \in DOMAIN now \ Fresh(f) THEN barred[s] ELSE "no"]
  /\ padq' = Tail(padq)
  /\ pc' = "frame"
  /\ UNCHANGED <<world, keyq, lost, ready, quitting, clock, relActive, altDown,
                 wasAlt, altBlock, drv, axis, a, gesture, touch, typedIn, seen>>

Clamp(v, top) == IF v < 0 THEN 0 ELSE IF v > top THEN top ELSE v

\* The first movement after stillness is the contact coming down, mid-surface.
ReadMovement ==
  /\ PadReady /\ Relative
  /\ LET d == Head(padq)
         from == IF relActive THEN finger[0]
                 ELSE [x |-> (PadW - 1) \div 2, y |-> (PadH - 1) \div 2]
         to == [x |-> Clamp(from.x + d.x, PadW - 1), y |-> Clamp(from.y + d.y, PadH - 1)]
     IN IF d = Zero                            \* no REL event in this frame
        THEN UNCHANGED <<fingers, start, still>>
        ELSE /\ finger' = [s \in {0} |-> to] /\ relActive' = TRUE
             /\ start' = IF wasAlt /\ ~relActive THEN finger' ELSE start
             /\ still' = FALSE
  /\ padq' = Tail(padq)
  /\ pc' = "frame"
  /\ UNCHANGED <<world, keyq, lost, ready, quitting, typed, echo, altDown,
                 wasAlt, altBlock, drv, axis, a, gesture, touch, history>>

PadDone ==       \* EAGAIN
  /\ pc = "pad" /\ ~gone /\ padq = <<>>
  /\ pc' = Again
  /\ UNCHANGED <<world, queues, ready, quitting, clock, fingers, cursor,
                 gesture, touch, history>>

\* Mutant: the read error exits without releasing the contact.
ReadFails_KeepsContact ==
  /\ pc = "pad" /\ gone
  /\ pc' = "exit"
  /\ UNCHANGED <<world, queues, ready, quitting, clock, fingers, cursor,
                 gesture, touch, history>>

ReadFails ==     \* ENODEV: exit 1
  /\ pc = "pad" /\ gone
  /\ pc' = "exit" /\ Release
  /\ UNCHANGED <<world, queues, ready, quitting, clock, fingers, cursor,
                 gesture, history>>
-------------------------------------------------------------------------------
(* Handling the frame: the cursor modifier.                                *)

Handled == /\ pc = "frame" /\ pc' = "pad"
           /\ UNCHANGED <<pad, display, focus, gone, padq, lost, ready, quitting, fingers>>

\* History: no finger on the pad now is to scroll.
Bar == barred' = [s \in Slot |-> IF s \in DOMAIN finger THEN "steered" ELSE barred[s]]

Abs(n)      == IF n < 0 THEN -n ELSE n
Trunc(n, d) == IF n >= 0 THEN n \div d ELSE -((-n) \div d)    \* C's int division
Larger(m, n) == IF m > n THEN m ELSE n
Active      == DOMAIN finger

\* The gesture's values are dead once it is over.
Forget ==
  /\ tracking' = FALSE /\ scrolling' = FALSE
  /\ tSlot' = NoSlot /\ origin' = Zero
  /\ scrollAxis' = "y" /\ anchor' = Zero /\ padAnchor' = 0
  /\ typedIn' = "no" /\ seen' = 0

\* The modifier has come down: whatever moved before it does not count.
EnterCursor ==
  /\ Handled /\ altDown /\ ~wasAlt
  /\ wasAlt' = TRUE
  /\ start' = finger /\ drv' = NoSlot
  /\ Release /\ Forget
  /\ Bar
  /\ UNCHANGED <<keyboard, clock, altDown, altBlock, axis, a, rejected>>

Moved(s)   == Larger(Abs(finger[s].x - start[s].x), Abs(finger[s].y - start[s].y))
Driving    == IF drv \in Active THEN {drv} ELSE {}
\* The last of those that moved furthest, past the slop: never a resting thumb.
Movers     == {s \in Active : /\ Moved(s) >= DriveSlop
                              /\ \A t \in Active : Moved(t) < Moved(s) \/ (Moved(t) = Moved(s) /\ t <= s)}

\* The arrow keys sent for driver s from f bring f within a step of its finger.
Stepped(s, ax, f) ==
  IF ~display THEN f
  ELSE IF ax = "x" THEN [f EXCEPT !.x = @ + StepX * Trunc(finger[s].x - @, StepX)]
                   ELSE [f EXCEPT !.y = @ + StepY * Trunc(finger[s].y - @, StepY)]

SteerCursor ==
  /\ Handled /\ altDown /\ wasAlt
  /\ \/ \E s \in Driving : /\ drv' = s /\ axis' = axis
                           /\ a' = Stepped(s, axis, a)
     \/ /\ Driving = {}
        /\ \E s \in Movers :
             LET ax == IF Abs(finger[s].x - start[s].x) >= Abs(finger[s].y - start[s].y)
                       THEN "x" ELSE "y" IN
             drv' = s /\ axis' = ax /\ a' = Stepped(s, ax, start[s])
     \/ /\ Driving = {} /\ Movers = {}
        /\ drv' = NoSlot /\ axis' = "x" /\ a' = Zero
  /\ Bar
  /\ UNCHANGED <<keyboard, clock, altDown, wasAlt, altBlock, start, gesture, touch,
                 typedIn, seen>>

\* Mutant: fingers that steered the cursor are free to scroll at once.
LeaveCursor_NoBlock ==
  /\ pc = "frame" /\ ~altDown /\ wasAlt
  /\ wasAlt' = FALSE /\ drv' = NoSlot /\ altBlock' = FALSE
  /\ start' = None /\ a' = Zero /\ axis' = "x"
  /\ UNCHANGED <<world, queues, loop, clock, fingers, altDown, gesture, touch, history>>

\* The modifier is up: the fingers that steered the cursor may not scroll.
LeaveCursor ==
  /\ pc = "frame" /\ ~altDown /\ wasAlt
  /\ wasAlt' = FALSE /\ drv' = NoSlot /\ altBlock' = (Active # {})
  /\ start' = None /\ a' = Zero /\ axis' = "x"
  /\ UNCHANGED <<world, queues, loop, clock, fingers, altDown, gesture, touch, history>>

Scrolls == Handled /\ ~altDown /\ ~wasAlt     \* past the modifier's part

Blocked ==
  /\ Scrolls /\ altBlock
  /\ altBlock' = (Active # {})
  /\ UNCHANGED <<keyboard, clock, altDown, wasAlt, start, drv, axis, a, gesture, touch, history>>
-------------------------------------------------------------------------------
(* Handling the frame: scrolling.                                          *)

Scrolling == Scrolls /\ ~altBlock
             /\ UNCHANGED <<altDown, wasAlt, altBlock, start, drv, axis, a, typed, still>>

NoGesture ==
  /\ Scrolling /\ ~tracking /\ ~ \E s \in Active : Active = {s}
  /\ UNCHANGED <<keyboard, echo, gesture, touch, history>>

\* One contact: a gesture begins, rejected when a key was just typed or the
\* display is off.
StartGesture ==
  /\ Scrolling /\ ~tracking
  /\ \E s \in Active :
       /\ Active = {s}
       /\ tracking' = TRUE /\ tSlot' = s /\ origin' = finger[s]
  /\ rejected' = (typed \/ ~display)
  /\ typedIn' = (IF typed THEN "before" ELSE "no")
  /\ UNCHANGED <<keyboard, echo, scrolling, scrollAxis, anchor, padAnchor, touch, barred, seen>>

\* No finger, another finger, or a second one.
Over == Active # {tSlot}

\* Its finger is lifted, or a second one has arrived.
EndGesture ==
  /\ Scrolling /\ tracking /\ Over
  /\ Release /\ Forget
  /\ rejected' = (IF Active = {} THEN FALSE
                  ELSE IF Cardinality(Active) > 1 THEN TRUE ELSE rejected)
  /\ UNCHANGED <<keyboard, echo, barred>>

Goes == Scrolling /\ tracking /\ ~Over

Ignore ==
  /\ Goes /\ rejected
  /\ UNCHANGED <<keyboard, echo, gesture, touch, history>>

Dx == finger[tSlot].x - origin.x
Dy == finger[tSlot].y - origin.y
Sideways == Abs(Dx) > Abs(Dy)
Travels  == Abs(Dx) >= Slop \/ Abs(Dy) >= Slop     \* past the slop

Approach ==
  /\ Goes /\ ~rejected /\ ~scrolling /\ ~Travels
  /\ UNCHANGED <<keyboard, echo, gesture, touch, history>>

\* A sideways slide that may not scroll.
RejectSideways ==
  /\ Goes /\ ~rejected /\ ~scrolling /\ Travels /\ Sideways /\ ~Horizontal
  /\ rejected' = TRUE /\ scrollAxis' = "x"
  /\ UNCHANGED <<keyboard, echo, tracking, scrolling, tSlot, origin, anchor,
                 padAnchor, touch, history>>

DeletesWord == Sideways /\ Horizontal /\ Dx < 0 /\ WordDelete /\ focus

Event(k, v) == [key |-> k, value |-> v]

\* What the kernel makes of the chord: a modifier that is down already is not
\* pressed again, and is up when the chord is over, whoever holds it.
Chord ==
  IF ChordMod = "none" THEN <<Event("chord", 1)>>
  ELSE IF ChordMod \in keys THEN <<Event("chord", 1), Event(ChordMod, 0)>>
  ELSE <<Event(ChordMod, 1), Event("chord", 1), Event(ChordMod, 0)>>

\* In a text field: the chord goes to the keyboard, and so comes back to us.
DeleteWord ==
  /\ Goes /\ ~rejected /\ ~scrolling /\ Travels /\ DeletesWord
  /\ keyq' = keyq \o Chord /\ keys' = keys \ {ChordMod}
  /\ echo' = TRUE
  /\ rejected' = TRUE /\ scrollAxis' = "x"
  /\ UNCHANGED <<tracking, scrolling, tSlot, origin, anchor, padAnchor, touch, history>>

Mid == [x |-> ScrW \div 2, y |-> ScrH \div 2]
Along(ax, p) == IF ax = "x" THEN p.x ELSE p.y

\* Mutant: the drag is measured from the touch, not from where the slop ended.
StartScroll_FromTouch ==
  /\ Goes /\ ~rejected /\ ~scrolling /\ Travels
  /\ Sideways => Horizontal /\ ~DeletesWord
  /\ LET ax == IF Sideways THEN "x" ELSE "y" IN
       /\ scrollAxis' = ax
       /\ anchor' = IF ~Sideways THEN Mid
                    ELSE [Mid EXCEPT !.x = IF Dx < 0 THEN ScrW - ScrW \div SIDE_DIV
                                                     ELSE ScrW \div SIDE_DIV]
       /\ padAnchor' = Along(ax, origin)
       /\ seen' = Along(ax, finger[tSlot])
  /\ scrolling' = TRUE
  /\ origin' = Zero
  /\ TouchAt(anchor')
  /\ UNCHANGED <<keyboard, echo, tracking, rejected, tSlot, barred, typedIn>>

\* The slide is locked to the axis it started on; a sideways drag starts on the
\* side it moves away from.
StartScroll ==
  /\ Goes /\ ~rejected /\ ~scrolling /\ Travels
  /\ Sideways => Horizontal /\ ~DeletesWord
  /\ LET ax == IF Sideways THEN "x" ELSE "y" IN
       /\ scrollAxis' = ax
       /\ anchor' = IF ~Sideways THEN Mid
                    ELSE [Mid EXCEPT !.x = IF Dx < 0 THEN ScrW - ScrW \div SIDE_DIV
                                                     ELSE ScrW \div SIDE_DIV]
       /\ padAnchor' = Along(ax, finger[tSlot])
       /\ seen' = padAnchor'
  /\ scrolling' = TRUE
  /\ origin' = Zero
  /\ TouchAt(anchor')
  /\ UNCHANGED <<keyboard, echo, tracking, rejected, tSlot, barred, typedIn>>

Drags(ax) == Goes /\ ~rejected /\ scrolling /\ scrollAxis = ax
             /\ seen' = Along(ax, finger[tSlot])
             /\ UNCHANGED <<keyboard, echo, tracking, scrolling, rejected, tSlot,
                            origin, scrollAxis, barred, typedIn>>

Tx == anchor.x + Trunc((finger[tSlot].x - padAnchor) * ScaleX, Unit)
Ty == anchor.y + Trunc((finger[tSlot].y - padAnchor) * Scale, Unit)

SideStop == ScrW \div SIDE_STOP_DIV
Edge     == ScrH \div EDGE_DIV

Within(v, lo, hi) == IF v < lo THEN lo ELSE IF v > hi THEN hi ELSE v

\* Mutant: a sideways drag that runs out of screen takes hold again.
DragX_Regrabs ==
  /\ Drags("x")
  /\ IF Tx \in SideStop .. ScrW - SideStop
       THEN TouchAt([x |-> Tx, y |-> anchor.y]) /\ UNCHANGED <<anchor, padAnchor>>
       ELSE /\ anchor' = Mid /\ padAnchor' = finger[tSlot].x
            /\ LiftAndTouch(anchor')

DragX ==         \* held at the edge: a second touch would stop the page change
  /\ Drags("x")
  /\ TouchAt([x |-> Within(Tx, SideStop, ScrW - SideStop), y |-> anchor.y])
  /\ UNCHANGED <<anchor, padAnchor>>

DragY ==
  /\ Drags("y")
  /\ IF Ty < Edge \/ Ty > ScrH - Edge
       THEN /\ anchor' = [anchor EXCEPT !.y = ScrH \div 2]     \* take hold again
            /\ padAnchor' = finger[tSlot].y
            /\ LiftAndTouch([x |-> ScrW \div 2, y |-> anchor'.y])
       ELSE TouchAt([x |-> ScrW \div 2, y |-> Ty]) /\ UNCHANGED <<anchor, padAnchor>>
-------------------------------------------------------------------------------
Handle ==
  \/ EnterCursor \/ SteerCursor \/ LeaveCursor \/ Blocked
  \/ NoGesture \/ StartGesture \/ EndGesture \/ Ignore
  \/ Approach \/ RejectSideways \/ DeleteWord \/ StartScroll \/ DragX \/ DragY

Daemon ==
  \/ Quit \/ Poll \/ ReadKey \/ KeysDone
  \/ ReadContacts \/ ReadMovement \/ PadDone \/ ReadFails
  \/ Handle

World ==
  \/ Slide \/ RelSlide \/ RelFinger
  \/ Type \/ \E m \in Mods : Modifier(m)
  \/ Screen \/ Unplug \/ Signal

Time == TypingOver \/ EchoOver \/ StillOver

Exited == ~Running /\ UNCHANGED vars

Next == Daemon \/ World \/ Time \/ Exited

Spec == Init /\ [][Next]_vars

\* The daemon's loop runs on and stillness lasts; nobody has to touch or type.
FairSpec == Spec /\ WF_vars(Daemon) /\ WF_vars(StillOver)
-------------------------------------------------------------------------------
(* Properties.                                                             *)

\* The injected contact is down exactly while a gesture scrolls, with one finger on
\* the pad, and is up when the process is gone: whatever ends the gesture (a lift,
\* a second finger, the modifier, a signal, a read error) lifts it first
\* (kbdscroll.c:1278-1289, 1202-1211, 1350-1357).
ContactOwned ==
  /\ contact = "down" => scrolling /\ tracking /\ ~rejected /\ ~wasAlt /\ ~altBlock
  /\ scrolling /\ pc # "exit" => contact = "down"
  /\ scrolling /\ pc # "frame" => Active = {tSlot}
  /\ pc = "exit" => contact = "up"

\* A finger that was on the pad while the cursor was steered does not scroll before
\* it has been lifted, however the modifier comes and goes (kbdscroll.c:1248-1259).
SteeredNeverScrolls == scrolling => barred[tSlot] # "steered"

\* A key typed before the slide, at any point since typing-ms before the touch,
\* rejects the gesture for as long as it lasts (kbdscroll.c:1095-1099, 1270).
TypingBeforeSlide == scrolling => typedIn # "before"

\* The contact follows the finger: while one touch lasts it never moves further
\* than the finger did since it was last followed, scaled (kbdscroll.c:1318-1347).
\* The one unit allows for the truncation to whole pixels.
NoJump ==
  [][contact = "down" /\ contact' = "down" /\ nth' = nth /\ scrollAxis = "y"
       => Abs(spot'.y - spot.y) * Unit <= (Abs(seen' - seen) * Scale) + Unit]_vars

\* Cursor mode does not outlive its modifier: with the keyboards drained it is taken
\* for held only if one is.  The echo window swallows the user's own keys with the
\* chord, and a chord read too late presses the modifier itself (kbdscroll.c:640-657,
\* 1083-1094).
ModifierLetsGo == altDown /\ keyq = <<>> => keys # {}

\* What the compositor sees is one finger dragging as FingerDrag says.
Drag == INSTANCE FingerDrag WITH
          Side <- ScrW \div SIDE_DIV,
          dir <- IF contact = "down" THEN scrollAxis ELSE "none"
OneFingerDrag == Drag!Spec

\* When the fingers are off a pad that stays, and the keyboards rest, the contact goes
\* up for good: by the lift, or on a relative pad by stillness (kbdscroll.c:1103-1113,
\* 1278-1289).
LiftLetsGo == <>[](pad = None /\ keyq = <<>> /\ ~gone) => <>[](contact = "up")
===============================================================================
