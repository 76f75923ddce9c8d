---------------------------- MODULE KbdscrollProofs ----------------------------
(***************************************************************************)
(* Theorems about Kbdscroll, for every pad, screen, scale and set of keys. *)
(***************************************************************************)
EXTENDS Kbdscroll, TLAPS

-------------------------------------------------------------------------------
(* The injected contact is owned by the gesture.                           *)

\* The world, time and the end of the process leave daemon and contact alone, but
\* for a signal's effect on pc.
LEMMA WorldLeavesContact ==
  ASSUME World \/ Time \/ Exited
  PROVE  /\ UNCHANGED <<finger, cursor, gesture, touch>>
         /\ pc' = pc \/ (pc = "poll" /\ pc' = "quit")
<1>1. CASE World
  BY <1>1 DEF World, Slide, RelSlide, RelFinger, Type, Modifier, Screen, Unplug, Signal,
              world, queues, loop, clock, fingers, history
<1>2. CASE Time
  BY <1>2 DEF Time, TypingOver, EchoOver, StillOver, Passes, loop, fingers, world, queues
<1>3. CASE Exited
  BY <1>3 DEF Exited, vars, loop, fingers
<1> QED BY <1>1, <1>2, <1>3

\* Every step keeps the contact with the gesture that owns it.
LEMMA ContactStep == ContactOwned /\ [Next]_vars => ContactOwned'
<1> SUFFICES ASSUME ContactOwned, [Next]_vars PROVE ContactOwned'
  OBVIOUS
<1> USE DEF ContactOwned, Active
<1>1. CASE World \/ Time \/ Exited
  BY <1>1, WorldLeavesContact DEF cursor, gesture, touch
<1>2. CASE UNCHANGED vars
  BY <1>2 DEF vars, cursor, gesture, touch, fingers, loop
<1>3. CASE Daemon
  <2> USE DEF cursor, gesture, touch, fingers, loop, queues, world, clock, Release, Again
  <2>1. CASE Quit
    BY <2>1 DEF Quit
  <2>2. CASE Poll
    BY <2>2 DEF Poll
  <2>3. CASE ReadKey
    <3>1. UNCHANGED <<contact, scrolling, tracking, wasAlt, altBlock, finger, tSlot, pc>>
      BY <2>3 DEF ReadKey
    <3>2. UNCHANGED rejected \/ rejected' = (rejected \/ (tracking /\ ~scrolling))
      BY <2>3, Zenon DEF ReadKey, ReadModifier, ReadTyping
    <3>3. rejected' => rejected \/ (tracking /\ ~scrolling)
      BY <3>2, Zenon
    <3> QED BY <3>1, <3>3
  <2>4. CASE KeysDone
    BY <2>4 DEF KeysDone
  <2>5. CASE ReadContacts
    BY <2>5 DEF ReadContacts, PadReady
  <2>6. CASE ReadMovement
    BY <2>6 DEF ReadMovement, PadReady
  <2>7. CASE PadDone
    BY <2>7 DEF PadDone
  <2>8. CASE ReadFails
    BY <2>8 DEF ReadFails
  <2>9. CASE Handle
    <3> USE DEF Handled, Scrolls, Scrolling, Goes, Over
    <3>1. CASE EnterCursor
      BY <3>1 DEF EnterCursor, Forget
    <3>2. CASE SteerCursor
      BY <3>2 DEF SteerCursor
    <3>3. CASE LeaveCursor
      BY <3>3 DEF LeaveCursor
    <3>4. CASE Blocked
      BY <3>4 DEF Blocked
    <3>5. CASE NoGesture
      BY <3>5 DEF NoGesture
    <3>6. CASE StartGesture
      BY <3>6 DEF StartGesture
    <3>7. CASE EndGesture
      BY <3>7 DEF EndGesture, Forget
    <3>8. CASE Ignore \/ Approach
      BY <3>8 DEF Ignore, Approach
    <3>9. CASE RejectSideways
      BY <3>9 DEF RejectSideways
    <3>10. CASE DeleteWord
      BY <3>10 DEF DeleteWord
    <3>11. CASE StartScroll
      BY <3>11 DEF StartScroll, TouchAt
    <3>12. CASE DragX
      BY <3>12 DEF DragX, Drags, TouchAt
    <3>13. CASE DragY
      BY <3>13 DEF DragY, Drags, TouchAt, LiftAndTouch
    <3> QED BY <2>9, <3>1, <3>2, <3>3, <3>4, <3>5, <3>6, <3>7, <3>8, <3>9, <3>10,
               <3>11, <3>12, <3>13 DEF Handle
  <2> QED BY <1>3, <2>1, <2>2, <2>3, <2>4, <2>5, <2>6, <2>7, <2>8, <2>9 DEF Daemon
<1> QED BY <1>1, <1>2, <1>3 DEF Next

\* The touchscreen's contact is down exactly while a gesture scrolls with one finger,
\* and the process never leaves it down.
THEOREM ContactIsOwned == Spec => []ContactOwned
<1>1. Init => ContactOwned
  BY DEF Init, ContactOwned
<1> QED BY <1>1, ContactStep, PTL DEF Spec
-------------------------------------------------------------------------------
(* A key typed before the slide rejects the whole gesture.                 *)

\* TypingBeforeSlide is not inductive: it needs that the key was remembered.
TypingInv ==
  /\ TypingBeforeSlide
  /\ tracking /\ typedIn = "before" => rejected
  /\ scrolling => tracking

LEMMA TypingStep == TypingInv /\ [Next]_vars => TypingInv'
<1> SUFFICES ASSUME TypingInv, [Next]_vars PROVE TypingInv'
  OBVIOUS
<1> USE DEF TypingInv, TypingBeforeSlide, gesture, history
<1>1. CASE World \/ Time \/ Exited
  <2>1. UNCHANGED typedIn
    BY <1>1 DEF World, Slide, RelSlide, RelFinger, Type, Modifier, Screen, Unplug, Signal,
                Time, TypingOver, EchoOver, StillOver, Passes, Exited, vars
  <2> QED BY <1>1, <2>1, WorldLeavesContact
<1>2. CASE UNCHANGED vars
  BY <1>2 DEF vars
<1>3. CASE Daemon
  <2>1. CASE Quit \/ Poll \/ PadDone \/ ReadFails
    BY <2>1 DEF Quit, Poll, PadDone, ReadFails
  <2>2. CASE KeysDone \/ ReadContacts \/ ReadMovement
    BY <2>2 DEF KeysDone, ReadContacts, ReadMovement
  <2>3. CASE ReadKey
    <3>1. UNCHANGED <<scrolling, tracking>>
      BY <2>3 DEF ReadKey
    <3>2. \/ UNCHANGED <<rejected, typedIn>>
          \/ /\ rejected' = (rejected \/ (tracking /\ ~scrolling))
             /\ typedIn' = IF ~tracking THEN typedIn ELSE IF scrolling THEN "during" ELSE "before"
      BY <2>3, Zenon DEF ReadKey, ReadModifier, ReadTyping
    <3>3. CASE UNCHANGED <<rejected, typedIn>>
      BY <3>1, <3>3
    <3>4. CASE /\ rejected' = (rejected \/ (tracking /\ ~scrolling))
               /\ typedIn' = IF ~tracking THEN typedIn ELSE IF scrolling THEN "during" ELSE "before"
      <4>1. rejected \/ (tracking /\ ~scrolling) => rejected'
        BY <3>4, Zenon
      <4>2. scrolling /\ tracking => typedIn' = "during"
        BY <3>4
      <4>3. ~tracking => typedIn' = typedIn
        BY <3>4
      <4> QED BY <3>1, <4>1, <4>2, <4>3
    <3> QED BY <3>2, <3>3, <3>4
  <2>4. CASE Handle
    <3> USE DEF Scrolling, Goes
    <3>1. CASE EnterCursor \/ EndGesture
      BY <3>1 DEF EnterCursor, EndGesture, Forget
    <3>2. CASE SteerCursor \/ LeaveCursor \/ Blocked
      BY <3>2 DEF SteerCursor, LeaveCursor, Blocked
    <3>3. CASE StartGesture
      <4>1. typedIn' = "before" => typed
        BY <3>3 DEF StartGesture
      <4>2. typed => rejected'
        BY <3>3, Zenon DEF StartGesture
      <4>3. tracking' /\ (scrolling' => scrolling) /\ ~tracking
        BY <3>3 DEF StartGesture
      <4> QED BY <4>1, <4>2, <4>3
    <3>4. CASE NoGesture \/ Ignore \/ Approach
      BY <3>4 DEF NoGesture, Ignore, Approach
    <3>5. CASE RejectSideways \/ DeleteWord
      BY <3>5 DEF RejectSideways, DeleteWord
    <3>6. CASE StartScroll
      BY <3>6 DEF StartScroll
    <3>7. CASE DragX \/ DragY
      BY <3>7 DEF DragX, DragY, Drags
    <3> QED BY <2>4, <3>1, <3>2, <3>3, <3>4, <3>5, <3>6, <3>7 DEF Handle
  <2> QED BY <1>3, <2>1, <2>2, <2>3, <2>4 DEF Daemon
<1> QED BY <1>1, <1>2, <1>3 DEF Next

\* A key read in the typing window before the touch, or between touch and slide,
\* keeps that gesture from ever scrolling.
THEOREM TypingRejects == Spec => []TypingBeforeSlide
<1>1. Init => TypingInv
  BY DEF Init, TypingInv, TypingBeforeSlide
<1>2. TypingInv => TypingBeforeSlide
  BY DEF TypingInv
<1> QED BY <1>1, <1>2, TypingStep, PTL DEF Spec
-------------------------------------------------------------------------------
(* Hands on the pad, and the frames that change them.                      *)

\* What it takes to be a hand: a position for some of the slots.
LEMMA HandOf ==
  ASSUME NEW S \in SUBSET Slot, NEW f \in [S -> Pos]
  PROVE  f \in Hands
BY DEF Hands

\* A hand has positions for some of the slots.
LEMMA OfHand ==
  ASSUME NEW f \in Hands
  PROVE  DOMAIN f \subseteq Slot /\ \A s \in DOMAIN f : f[s] \in Pos
BY DEF Hands

\* The empty hand is one.
LEMMA NoHand == None \in Hands /\ DOMAIN None = {}
<1>1. None \in [{} -> Pos] /\ DOMAIN None = {}
  BY DEF None
<1> QED BY <1>1, HandOf

\* A hand restricted to some of its slots is a hand.
LEMMA RestrictedHand ==
  ASSUME NEW f \in Hands, NEW S \in SUBSET DOMAIN f
  PROVE  Restrict(f, S) \in Hands
<1>1. Restrict(f, S) \in [S -> Pos] /\ S \in SUBSET Slot
  BY OfHand DEF Restrict
<1> QED BY <1>1, HandOf

\* The frame between two hands is one the daemon understands.
LEMMA BetweenHands ==
  ASSUME ~Relative, NEW h1 \in Hands, NEW h2 \in Hands,
         NEW swap \in SUBSET (DOMAIN h1 \cap DOMAIN h2)
  PROVE  Between(h1, h2, swap) \in Frame
<1> DEFINE stay == (DOMAIN h1 \cap DOMAIN h2) \ swap
<1>1. DOMAIN h1 \ stay \in SUBSET Slot
  BY OfHand
<1>2. Restrict(h2, DOMAIN h2 \ stay) \in Hands
  BY RestrictedHand
<1>3. Restrict(h2, {s \in stay : h1[s] # h2[s]}) \in Hands
  BY RestrictedHand
<1> QED BY <1>1, <1>2, <1>3 DEF Between, Frame

\* A frame of no events is a frame.
LEMMA QuietFrame == Quiet \in Frame
<1>1. CASE Relative
  BY <1>1, KSAssumption DEF Quiet, Frame, Zero
<1>2. CASE ~Relative
  BY <1>2, NoHand DEF Quiet, Frame
<1> QED BY <1>1, <1>2

\* Reading a frame leaves a hand; the slots it has are old ones or put down.
LEMMA ContactsHand ==
  ASSUME ~Relative, finger \in Hands, NEW f \in Frame
  PROVE  /\ Contacts(f) \in Hands
         /\ DOMAIN Contacts(f) = (DOMAIN finger \ f.up) \cup DOMAIN f.down
<1>1. f.down \in Hands /\ f.move \in Hands /\ f.up \in SUBSET Slot
  BY DEF Frame
<1>2. (DOMAIN finger \ f.up) \cup DOMAIN f.down \in SUBSET Slot
  BY <1>1, OfHand
<1>3. Contacts(f) \in [(DOMAIN finger \ f.up) \cup DOMAIN f.down -> Pos]
  <2> SUFFICES ASSUME NEW s \in (DOMAIN finger \ f.up) \cup DOMAIN f.down
               PROVE  (IF s \in DOMAIN f.down THEN f.down[s]
                       ELSE IF s \in DOMAIN f.move THEN f.move[s] ELSE finger[s]) \in Pos
    BY DEF Contacts
  <2> QED BY <1>1, OfHand
<1> QED BY <1>2, <1>3, HandOf

\* C's division of whole numbers gives whole numbers.
LEMMA TruncInt ==
  ASSUME NEW n \in Int, NEW d \in Nat \ {0}
  PROVE  Trunc(n, d) \in Int
BY DEF Trunc

\* A clamped coordinate is on the surface.
LEMMA ClampRange ==
  ASSUME NEW v \in Int, NEW top \in Nat
  PROVE  Clamp(v, top) \in 0 .. top
BY DEF Clamp
-------------------------------------------------------------------------------
(* Type correctness.                                                       *)

\* The flags stay flags.
LEMMA FlagsStep == TypeOK /\ [Next]_vars => FlagsOK'
<1> SUFFICES ASSUME TypeOK, [Next]_vars PROVE FlagsOK'
  OBVIOUS
<1>0. FlagsOK
  BY DEF TypeOK
<1> USE <1>0 DEF FlagsOK, world, loop, clock, fingers, cursor, gesture
<1>1. CASE Slide \/ RelSlide \/ RelFinger \/ Type \/ \E m \in Mods : Modifier(m)
  <2>1. UNCHANGED <<display, focus, gone, loop, clock, fingers, cursor, gesture>>
    BY <1>1 DEF Slide, RelSlide, RelFinger, Type, Modifier
  <2> QED BY <2>1
<1>2. CASE Screen
  <2>1. UNCHANGED <<gone, quitting, typed, echo, still, relActive, altDown, wasAlt,
                    altBlock, tracking, scrolling, rejected>>
    BY <1>2 DEF Screen
  <2>2. display' \in BOOLEAN /\ focus' \in BOOLEAN
    BY <1>2, Zenon DEF Screen
  <2> QED BY <2>1, <2>2
<1>3. CASE Unplug
  BY <1>3 DEF Unplug
<1>4. CASE Signal
  BY <1>4 DEF Signal
<1>5. CASE Time
  <2>1. UNCHANGED <<world, loop, fingers, cursor, gesture>>
    BY <1>5 DEF Time, TypingOver, EchoOver, StillOver, Passes
  <2>2. typed' \in BOOLEAN /\ echo' \in BOOLEAN /\ still' \in BOOLEAN
    BY <1>5, Zenon DEF Time, TypingOver, EchoOver, StillOver
  <2> QED BY <2>1, <2>2
<1>6. CASE Exited \/ UNCHANGED vars
  BY <1>6 DEF Exited, vars
<1>7. CASE Quit \/ Poll \/ PadDone \/ ReadFails
  BY <1>7 DEF Quit, Poll, PadDone, ReadFails
<1>8. CASE ReadKey
  <2>1. UNCHANGED <<display, focus, gone, quitting, echo, still, relActive, wasAlt,
                    altBlock, tracking, scrolling>>
    BY <1>8 DEF ReadKey
  <2>2. altDown' \in BOOLEAN /\ typed' \in BOOLEAN
    BY <1>8, Zenon DEF ReadKey, ReadModifier, ReadTyping
  <2>3. rejected' \in BOOLEAN
    BY <1>8, Zenon DEF ReadKey, ReadModifier, ReadTyping
  <2> QED BY <2>1, <2>2, <2>3
<1>9. CASE KeysDone \/ ReadContacts \/ ReadMovement
  <2>1. UNCHANGED <<display, focus, gone, quitting, typed, echo, altDown, wasAlt,
                    altBlock, tracking, scrolling, rejected>>
    BY <1>9 DEF KeysDone, ReadContacts, ReadMovement
  <2>2. relActive' \in BOOLEAN /\ still' \in BOOLEAN
    BY <1>9 DEF KeysDone, ReadContacts, ReadMovement
  <2> QED BY <2>1, <2>2
<1>10. CASE Handle
  <2> USE DEF Handled, Scrolls, Scrolling, Goes
  <2>1. UNCHANGED <<display, focus, gone, quitting, typed, still, relActive, altDown>>
    BY <1>10 DEF Handle, EnterCursor, SteerCursor, LeaveCursor, Blocked, NoGesture, StartGesture,
                 EndGesture, Ignore, Approach, RejectSideways, DeleteWord, StartScroll,
                 DragX, DragY, Drags
  <2>2. CASE EnterCursor
    <3>1. UNCHANGED <<echo, altBlock, rejected>>
      BY <2>2 DEF EnterCursor
    <3>2. wasAlt' \in BOOLEAN /\ tracking' \in BOOLEAN /\ scrolling' \in BOOLEAN
      BY <2>2, Zenon DEF EnterCursor, Forget
    <3> QED BY <2>1, <3>1, <3>2
  <2>8. CASE SteerCursor
    <3>1. UNCHANGED <<echo, wasAlt, altBlock, tracking, scrolling, rejected>>
      BY <2>8 DEF SteerCursor
    <3> QED BY <2>1, <3>1
  <2>3. CASE LeaveCursor \/ Blocked
    <3>1. UNCHANGED <<echo, tracking, scrolling, rejected>> /\ wasAlt' \in BOOLEAN
      BY <2>3 DEF LeaveCursor, Blocked
    <3>2. altBlock' \in BOOLEAN
      BY <2>3, Zenon DEF LeaveCursor, Blocked
    <3> QED BY <2>1, <3>1, <3>2
  <2>4. CASE StartGesture
    <3>1. UNCHANGED <<echo, scrolling, wasAlt, altBlock>> /\ tracking' \in BOOLEAN
      BY <2>4 DEF StartGesture
    <3>2. rejected' \in BOOLEAN
      BY <2>4, Zenon DEF StartGesture
    <3> QED BY <2>1, <3>1, <3>2
  <2>5. CASE EndGesture
    <3>1. UNCHANGED <<echo, wasAlt, altBlock>>
      BY <2>5 DEF EndGesture
    <3>2. tracking' \in BOOLEAN /\ scrolling' \in BOOLEAN /\ rejected' \in BOOLEAN
      BY <2>5, Zenon DEF EndGesture, Forget
    <3> QED BY <2>1, <3>1, <3>2
  <2>6. CASE NoGesture \/ Ignore \/ Approach \/ DragX \/ DragY
    BY <2>1, <2>6 DEF NoGesture, Ignore, Approach, DragX, DragY, Drags
  <2>7. CASE RejectSideways \/ DeleteWord \/ StartScroll
    <3>1. UNCHANGED <<tracking, wasAlt, altBlock>>
      BY <2>7 DEF RejectSideways, DeleteWord, StartScroll
    <3>2. echo' \in BOOLEAN /\ scrolling' \in BOOLEAN /\ rejected' \in BOOLEAN
      <4>1. (UNCHANGED echo \/ echo' = TRUE) /\ (UNCHANGED scrolling \/ scrolling' = TRUE)
            /\ (UNCHANGED rejected \/ rejected' = TRUE)
        BY <2>7 DEF RejectSideways, DeleteWord, StartScroll
      <4> QED BY <4>1, Zenon
    <3> QED BY <2>1, <3>1, <3>2
  <2> QED BY <1>10, <2>2, <2>8, <2>3, <2>4, <2>5, <2>6, <2>7 DEF Handle
<1> QED BY <1>1, <1>2, <1>3, <1>4, <1>5, <1>6, <1>7, <1>8, <1>9, <1>10
        DEF Next, Daemon, World

\* The chord is made of key events, and ends by letting its modifier go.
LEMMA ChordEvents ==
  /\ Chord \in Seq(KeyEvent) /\ Len(Chord) \in 1 .. 3
  /\ ChordMod \in Mods => Chord[Len(Chord)] = Event(ChordMod, 0)
  /\ \A i \in 1 .. Len(Chord) : Chord[i].key \in Mods /\ Chord[i].value = 1
                              => Chord[i].key = ChordMod /\ i < Len(Chord)
<1>1. Event("chord", 1) \in KeyEvent /\ "chord" \notin Mods /\ "none" \notin Mods
  BY KSAssumption DEF Event, KeyEvent
<1>2. ChordMod \in Mods => Event(ChordMod, 0) \in KeyEvent /\ Event(ChordMod, 1) \in KeyEvent
  BY DEF Event, KeyEvent
<1>3. CASE ChordMod = "none"
  BY <1>1, <1>3 DEF Chord, Event
<1>4. CASE ChordMod # "none" /\ ChordMod \in keys
  BY <1>1, <1>2, <1>4, KSAssumption DEF Chord, Event
<1>5. CASE ChordMod # "none" /\ ChordMod \notin keys
  BY <1>1, <1>2, <1>5, KSAssumption DEF Chord, Event
<1> QED BY <1>3, <1>4, <1>5

\* What the kernel queues for the daemon stays what the daemon understands.
LEMMA WorldStep == TypeOK /\ [Next]_vars => WorldOK'
<1> SUFFICES ASSUME TypeOK, [Next]_vars PROVE WorldOK'
  OBVIOUS
<1>0. WorldOK /\ finger \in Hands
  BY DEF TypeOK, DaemonOK
<1> USE <1>0 DEF WorldOK, world, queues
<1>r. ASSUME NEW f \in Frame, Report(f)
      PROVE  padq' \in Seq(Frame) /\ lost' \in 0 .. MaxLost
  <2>1. CASE Len(padq) < QueueMax
    BY <1>r, <2>1 DEF Report
  <2>2. CASE ~(Len(padq) < QueueMax)
    <3>1. lost' = lost + 1 /\ lost < MaxLost /\ padq' = <<Quiet>>
      BY <1>r, <2>2 DEF Report
    <3>2. lost' \in 0 .. MaxLost
      BY <3>1, KSAssumption
    <3> QED BY <3>1, <3>2, QuietFrame
  <2> QED BY <2>1, <2>2
<1>1. CASE Slide
  <2>1. PICK hand \in Hands :
          /\ pad' = hand
          /\ \E swap \in SUBSET (DOMAIN pad \cap DOMAIN hand) : Report(Between(pad, hand, swap))
    BY <1>1 DEF Slide
  <2>2. PICK swap \in SUBSET (DOMAIN pad \cap DOMAIN hand) : Report(Between(pad, hand, swap))
    BY <2>1
  <2>3. Between(pad, hand, swap) \in Frame
    BY <1>1, BetweenHands DEF Slide
  <2>4. padq' \in Seq(Frame) /\ lost' \in 0 .. MaxLost
    BY <2>2, <2>3, <1>r
  <2> QED BY <1>1, <2>1, <2>4 DEF Slide
<1>2. CASE RelSlide
  BY <1>2, <1>r DEF RelSlide
<1>3. CASE RelFinger
  <2>1. Zero \in Pos /\ {0} \in SUBSET Slot
    BY KSAssumption DEF Zero, Pos, Slot
  <2>2. [s \in {0} |-> Zero] \in Hands
    BY <2>1, HandOf
  <2> QED BY <1>3, <2>2, NoHand DEF RelFinger
<1>4. CASE Type
  BY <1>4 DEF Type, KeyEvent
<1>5. ASSUME NEW m \in Mods, Modifier(m) PROVE WorldOK'
  <2>1. [key |-> m, value |-> IF m \in keys THEN 0 ELSE 1] \in KeyEvent
    BY DEF KeyEvent
  <2>2. keys' \in SUBSET Mods
    BY <1>5 DEF Modifier
  <2> QED BY <1>5, <2>1, <2>2 DEF Modifier
<1>6. CASE Screen \/ Signal \/ Time \/ Exited \/ UNCHANGED vars
  BY <1>6 DEF Screen, Signal, Time, TypingOver, EchoOver, StillOver, Passes, Exited, vars
<1>7. CASE Unplug
  BY <1>7, NoHand DEF Unplug
<1>8. CASE Quit \/ Poll \/ KeysDone \/ PadDone \/ ReadFails
  BY <1>8 DEF Quit, Poll, KeysDone, PadDone, ReadFails
<1>9. CASE ReadKey
  BY <1>9 DEF ReadKey, KeyReady
<1>10. CASE ReadContacts \/ ReadMovement
  <2>1. UNCHANGED <<pad, keys, keyq, lost>> /\ padq # <<>> /\ padq' = Tail(padq)
    BY <1>10 DEF ReadContacts, ReadMovement, PadReady
  <2> QED BY <2>1
<1>11. CASE Handle
  <2>1. UNCHANGED <<pad, padq, lost>>
    BY <1>11 DEF Handle, EnterCursor, SteerCursor, LeaveCursor, Blocked, NoGesture, StartGesture,
                 EndGesture, Ignore, Approach, RejectSideways, DeleteWord, StartScroll,
                 DragX, DragY, Drags, Handled, Scrolls, Scrolling, Goes
  <2>2. UNCHANGED keyboard \/ (keyq' = keyq \o Chord /\ keys' = keys \ {ChordMod})
    BY <1>11 DEF Handle, EnterCursor, SteerCursor, LeaveCursor, Blocked, NoGesture, StartGesture,
                 EndGesture, Ignore, Approach, RejectSideways, DeleteWord, StartScroll,
                 DragX, DragY, Drags, keyboard
  <2>3. Chord \in Seq(KeyEvent)
    BY ChordEvents
  <2>4. CASE UNCHANGED keyboard
    <3>1. UNCHANGED <<keys, keyq>>
      BY <2>4 DEF keyboard
    <3> QED BY <2>1, <3>1
  <2>5. CASE keyq' = keyq \o Chord /\ keys' = keys \ {ChordMod}
    <3>1. keyq' \in Seq(KeyEvent)
      BY <2>3, <2>5
    <3>2. keys' \in SUBSET Mods
      BY <2>5
    <3> QED BY <2>1, <3>1, <3>2
  <2> QED BY <2>2, <2>4, <2>5
<1> QED BY <1>1, <1>2, <1>3, <1>4, <1>5, <1>6, <1>7, <1>8, <1>9, <1>10, <1>11
        DEF Next, Daemon, World

\* Points are whole numbers, and the origin is a point of the pad.
LEMMA ZeroPos == Zero \in Pos /\ Zero \in [x : Int, y : Int] /\ Pos \subseteq [x : Int, y : Int]
BY KSAssumption DEF Zero, Pos

\* Stepping the cursor keeps the reference point whole.
LEMMA SteppedInt ==
  ASSUME finger \in Hands, NEW s \in Active, NEW ax, NEW f \in [x : Int, y : Int]
  PROVE  Stepped(s, ax, f) \in [x : Int, y : Int]
<1>1. finger[s] \in [x : Int, y : Int]
  BY OfHand, ZeroPos DEF Active
<1>2. Trunc(finger[s].x - f.x, StepX) \in Int /\ Trunc(finger[s].y - f.y, StepY) \in Int
  BY <1>1, TruncInt, KSAssumption
<1>3. /\ f.x + StepX * Trunc(finger[s].x - f.x, StepX) \in Int
      /\ f.y + StepY * Trunc(finger[s].y - f.y, StepY) \in Int
  BY <1>2, KSAssumption
<1> QED BY <1>3 DEF Stepped

\* The screen's landmarks are whole numbers.
LEMMA ScreenInt ==
  /\ ScrW \in Int /\ ScrH \in Int /\ Mid \in [x : Int, y : Int]
  /\ ScrW \div SIDE_DIV \in Int /\ SideStop \in Int /\ Edge \in Int
<1>1. ScrW \in Nat /\ ScrH \in Nat
  BY KSAssumption
<1> QED BY <1>1 DEF Mid, SIDE_DIV, SideStop, SIDE_STOP_DIV, Edge, EDGE_DIV

\* So are the pad's.
LEMMA PadInt ==
  /\ PadW \in Int /\ PadH \in Int /\ PadW - 1 \in Nat /\ PadH - 1 \in Nat
  /\ (PadW - 1) \div 2 \in Int /\ (PadH - 1) \div 2 \in Int
<1>1. PadW \in Nat \ {0} /\ PadH \in Nat \ {0}
  BY KSAssumption
<1> QED BY <1>1

\* Where a drag would put the contact is a whole number.
LEMMA DragInt ==
  ASSUME finger[tSlot] \in Pos, anchor \in [x : Int, y : Int], padAnchor \in Int
  PROVE  Tx \in Int /\ Ty \in Int
<1>1. finger[tSlot].x - padAnchor \in Int /\ finger[tSlot].y - padAnchor \in Int
  BY ZeroPos
<1>2. (finger[tSlot].x - padAnchor) * ScaleX \in Int /\ (finger[tSlot].y - padAnchor) * Scale \in Int
  BY <1>1, KSAssumption
<1>3. Unit \in Nat \ {0}
  BY KSAssumption
<1>4. /\ Trunc((finger[tSlot].x - padAnchor) * ScaleX, Unit) \in Int
      /\ Trunc((finger[tSlot].y - padAnchor) * Scale, Unit) \in Int
  BY <1>2, <1>3, TruncInt
<1> QED BY <1>4 DEF Tx, Ty

\* The daemon's own variables keep their types in every step of the loop.
LEMMA DaemonStep == TypeOK /\ [Next]_vars => DaemonOK'
<1> SUFFICES ASSUME TypeOK, [Next]_vars PROVE DaemonOK'
  OBVIOUS
<1>0. DaemonOK /\ padq \in Seq(Frame)
  BY DEF TypeOK, WorldOK
<1> USE <1>0 DEF DaemonOK
<1>1. CASE World \/ Time \/ Exited
  <2>1. UNCHANGED <<ready, relActive, history>>
    BY <1>1 DEF World, Slide, RelSlide, RelFinger, Type, Modifier, Screen, Unplug, Signal, Time,
                TypingOver, EchoOver, StillOver, Passes, Exited, vars, loop, fingers
  <2> QED BY <1>1, <2>1, WorldLeavesContact DEF cursor, gesture, touch, history
<1>2. CASE UNCHANGED vars
  BY <1>2 DEF vars, loop, fingers, cursor, gesture, touch, history
<1>3. CASE Quit \/ PadDone \/ ReadFails
  <2>1. UNCHANGED <<ready, fingers, cursor, gesture, history>>
    BY <1>3 DEF Quit, PadDone, ReadFails
  <2>2. pc' \in {"poll", "quit", "exit"}
    BY <1>3 DEF Quit, PadDone, ReadFails, Again
  <2>3. UNCHANGED touch \/ (contact' = "up" /\ spot' = Zero /\ nth' = 0)
    BY <1>3 DEF Quit, PadDone, ReadFails, Release
  <2> QED BY <2>1, <2>2, <2>3, ZeroPos DEF fingers, cursor, gesture, touch, history
<1>4. CASE Poll
  BY <1>4 DEF Poll, fingers, cursor, gesture, touch, history
<1>5. CASE ReadKey
  <2>1. typedIn' \in {"no", "before", "during"}
    BY <1>5 DEF ReadKey, ReadModifier, ReadTyping
  <2> QED BY <1>5, <2>1 DEF ReadKey, loop, fingers, touch
<1>6. CASE KeysDone
  <2>1. Unbarred \in [Slot -> {"no", "steered"}]
    BY DEF Unbarred
  <2> QED BY <1>6, <2>1, NoHand DEF KeysDone, Again, fingers, cursor, gesture, touch
<1>7. CASE ReadContacts
  <2> DEFINE f == Head(padq)
             now == Contacts(f)
  <2>1. ~Relative /\ f \in Frame
    BY <1>7 DEF ReadContacts, PadReady
  <2>2. now \in Hands /\ DOMAIN now = (DOMAIN finger \ f.up) \cup DOMAIN f.down
    BY <2>1, ContactsHand
  <2>3. finger' = now /\ pc' = "frame"
    BY <1>7 DEF ReadContacts
  <2>4. start' \in Hands /\ (wasAlt => DOMAIN now \subseteq DOMAIN start')
    <3>1. CASE wasAlt
      <4>1. start' = [s \in DOMAIN now |-> IF s \in Fresh(f) THEN now[s] ELSE start[s]]
        BY <1>7, <3>1 DEF ReadContacts
      <4>2. \A s \in DOMAIN now \ Fresh(f) : s \in DOMAIN start
        BY <2>2, <3>1 DEF Fresh
      <4>3. start' \in [DOMAIN now -> Pos]
        BY <2>2, <4>1, <4>2, OfHand
      <4>4. DOMAIN now \in SUBSET Slot
        BY <2>2, OfHand
      <4> QED BY <4>1, <4>3, <4>4, HandOf
    <3>2. CASE ~wasAlt
      BY <1>7, <3>2, NoHand DEF ReadContacts
    <3> QED BY <3>1, <3>2
  <2>5. barred' \in [Slot -> {"no", "steered"}]
    BY <1>7 DEF ReadContacts
  <2>6. UNCHANGED <<ready, relActive, wasAlt, drv, axis, a, gesture, touch, typedIn, seen>>
    BY <1>7 DEF ReadContacts
  <2>7. ~relActive
    BY <2>1
  <2> QED BY <2>2, <2>3, <2>4, <2>5, <2>6, <2>7 DEF gesture, touch
<1>8. CASE ReadMovement
  <2> DEFINE d == Head(padq)
             from == IF relActive THEN finger[0]
                     ELSE [x |-> (PadW - 1) \div 2, y |-> (PadH - 1) \div 2]
             to == [x |-> Clamp(from.x + d.x, PadW - 1), y |-> Clamp(from.y + d.y, PadH - 1)]
  <2>1. d.x \in Int /\ d.y \in Int
    <3>1. d \in Frame /\ Relative
      BY <1>8 DEF ReadMovement, PadReady
    <3>2. d \in [x : 1 - PadW .. PadW - 1, y : 1 - PadH .. PadH - 1]
      BY <3>1 DEF Frame
    <3> QED BY <3>2, PadInt
  <2>2. from.x \in Int /\ from.y \in Int
    <3>1. CASE relActive
      <4>1. finger[0] \in Pos
        BY <3>1, OfHand
      <4> QED BY <3>1, <4>1, ZeroPos
    <3>2. CASE ~relActive
      BY <3>2, PadInt
    <3> QED BY <3>1, <3>2
  <2>3. to \in Pos
    <3> HIDE DEF from, d
    <3>1. from.x + d.x \in Int /\ from.y + d.y \in Int
      BY <2>1, <2>2
    <3> QED BY <3>1, PadInt, ClampRange DEF Pos
  <2>4. 0 \in Slot
    BY KSAssumption DEF Slot
  <2>5. [s \in {0} |-> to] \in Hands
    <3> HIDE DEF to
    <3>1. [s \in {0} |-> to] \in [{0} -> Pos] /\ {0} \in SUBSET Slot
      BY <2>3, <2>4
    <3> QED BY <3>1, HandOf
  <2>6. UNCHANGED <<ready, wasAlt, drv, axis, a, gesture, touch, history>> /\ pc' = "frame"
    BY <1>8 DEF ReadMovement, cursor
  <2>7. \/ UNCHANGED <<finger, relActive, start>>
        \/ /\ Relative /\ finger' = [s \in {0} |-> to]
           /\ start' = IF wasAlt /\ ~relActive THEN finger' ELSE start
    BY <1>8 DEF ReadMovement, PadReady, fingers
  <2> HIDE DEF to
  <2>8. start' \in Hands /\ finger' \in Hands
    BY <2>5, <2>7
  <2>9. (relActive' => Relative /\ DOMAIN finger' = {0}) /\ (wasAlt => DOMAIN finger' \subseteq DOMAIN start')
    BY <2>7
  <2> QED BY <2>6, <2>8, <2>9 DEF gesture, touch, history
<1>9. CASE Handle
  <2> USE DEF Handled, Scrolls, Scrolling, Goes, loop, fingers, touch, history
  <2>bar. ASSUME Bar
          PROVE  barred' \in [Slot -> {"no", "steered"}]
    BY <2>bar DEF Bar
  <2>1. CASE EnterCursor
    <3>1. barred' \in [Slot -> {"no", "steered"}]
      BY <2>1, <2>bar DEF EnterCursor
    <3> QED BY <2>1, <3>1, ZeroPos DEF EnterCursor, Release, Forget
  <2>2. CASE SteerCursor
    <3>1. barred' \in [Slot -> {"no", "steered"}]
      BY <2>2, <2>bar DEF SteerCursor
    <3>2. /\ UNCHANGED <<finger, relActive, wasAlt, start, gesture, touch, typedIn, seen, ready>>
          /\ pc' = "pad" /\ wasAlt
      BY <2>2 DEF SteerCursor
    <3>3. ASSUME NEW s \in Driving, drv' = s /\ axis' = axis /\ a' = Stepped(s, axis, a)
          PROVE  drv' \in Slot /\ axis' \in {"x", "y"} /\ a' \in [x : Int, y : Int]
      <4>1. s \in Active /\ s \in Slot
        BY OfHand DEF Driving, Active
      <4> QED BY <3>3, <4>1, SteppedInt
    <3>4. ASSUME NEW s \in Movers, NEW ax \in {"x", "y"},
                 drv' = s /\ axis' = ax /\ a' = Stepped(s, ax, start[s])
          PROVE  drv' \in Slot /\ axis' \in {"x", "y"} /\ a' \in [x : Int, y : Int]
      <4>1. s \in Active /\ s \in Slot /\ s \in DOMAIN start
        BY <3>2, OfHand DEF Movers, Active
      <4>2. start[s] \in [x : Int, y : Int]
        BY <4>1, OfHand, ZeroPos
      <4> QED BY <3>4, <4>1, <4>2, SteppedInt
    <3>5. drv' \in Slot \cup {NoSlot} /\ axis' \in {"x", "y"} /\ a' \in [x : Int, y : Int]
      BY <2>2, <3>3, <3>4, ZeroPos DEF SteerCursor
    <3> QED BY <3>1, <3>2, <3>5 DEF gesture
  <2>3. CASE LeaveCursor
    BY <2>3, NoHand, ZeroPos DEF LeaveCursor, gesture
  <2>4. CASE Blocked
    BY <2>4 DEF Blocked, gesture
  <2>5. CASE NoGesture \/ Ignore \/ Approach
    <3>1. UNCHANGED <<finger, relActive, ready, wasAlt, start, drv, axis, a, gesture, touch, history>>
          /\ pc' = "pad"
      BY <2>5 DEF NoGesture, Ignore, Approach
    <3> QED BY <3>1 DEF gesture
  <2>6. CASE StartGesture
    <3>1. barred' \in [Slot -> {"no", "steered"}] /\ typedIn' \in {"no", "before", "during"}
      BY <2>6, <2>bar DEF StartGesture
    <3>2. tSlot' \in Slot /\ origin' \in Pos
      BY <2>6, OfHand DEF StartGesture, Active
    <3> QED BY <2>6, <3>1, <3>2 DEF StartGesture
  <2>7. CASE EndGesture
    BY <2>7, ZeroPos DEF EndGesture, Release, Forget
  <2>8. CASE RejectSideways \/ DeleteWord
    <3>1. UNCHANGED <<finger, relActive, ready, wasAlt, start, drv, axis, a, tracking, tSlot,
                      origin, anchor, padAnchor, touch, history>> /\ pc' = "pad" /\ scrollAxis' = "x"
      BY <2>8 DEF RejectSideways, DeleteWord
    <3> QED BY <3>1
  <2>g. ASSUME Goes
        PROVE  /\ finger[tSlot] \in Pos /\ tSlot \in Active
               /\ \A ax \in {"x", "y"} : Along(ax, finger[tSlot]) \in Int
    <3>1. tSlot \in Active
      BY <2>g DEF Over
    <3>2. finger[tSlot] \in Pos
      BY <3>1, OfHand DEF Active
    <3> QED BY <3>1, <3>2, ZeroPos DEF Along
  <2>9. CASE StartScroll
    <3>1. /\ UNCHANGED <<finger, relActive, ready, wasAlt, start, drv, axis, a, tracking, tSlot,
                         barred, typedIn, nth>>
          /\ pc' = "pad" /\ origin' = Zero /\ contact' = "down" /\ spot' = anchor'
          /\ scrollAxis' = IF Sideways THEN "x" ELSE "y"
          /\ padAnchor' = Along(scrollAxis', finger[tSlot]) /\ seen' = padAnchor'
      BY <2>9 DEF StartScroll, TouchAt
    <3>2. anchor' \in [x : Int, y : Int]
      <4>1. \/ anchor' = Mid
            \/ anchor' = [Mid EXCEPT !.x = ScrW - ScrW \div SIDE_DIV]
            \/ anchor' = [Mid EXCEPT !.x = ScrW \div SIDE_DIV]
        BY <2>9 DEF StartScroll
      <4> QED BY <4>1, ScreenInt
    <3>3. padAnchor' \in Int /\ scrollAxis' \in {"x", "y"}
      BY <2>9, <2>g, <3>1 DEF StartScroll
    <3> QED BY <3>1, <3>2, <3>3, ZeroPos
  <2>10. CASE DragX
    <3>1. /\ UNCHANGED <<finger, relActive, ready, wasAlt, start, drv, axis, a, tracking, tSlot,
                         origin, scrollAxis, anchor, padAnchor, barred, typedIn, nth>>
          /\ pc' = "pad" /\ contact' = "down" /\ seen' = Along("x", finger[tSlot])
          /\ spot' = [x |-> Within(Tx, SideStop, ScrW - SideStop), y |-> anchor.y]
      BY <2>10 DEF DragX, Drags, TouchAt
    <3>2. Goes
      BY <2>10 DEF DragX, Drags
    <3>3. Tx \in Int /\ SideStop \in Int /\ ScrW - SideStop \in Int
      BY <3>2, <2>g, DragInt, ScreenInt
    <3>4. spot' \in [x : Int, y : Int] /\ seen' \in Int
      BY <3>1, <3>2, <3>3, <2>g DEF Within
    <3> QED BY <3>1, <3>4
  <2>11. CASE DragY
    <3>1. /\ UNCHANGED <<finger, relActive, ready, wasAlt, start, drv, axis, a, tracking, tSlot,
                         origin, scrollAxis, barred, typedIn>>
          /\ pc' = "pad" /\ contact' = "down" /\ seen' = Along("y", finger[tSlot])
      BY <2>11 DEF DragY, Drags, TouchAt, LiftAndTouch
    <3>2. Goes
      BY <2>11 DEF DragY, Drags
    <3>3. Ty \in Int /\ ScrW \div 2 \in Int /\ ScrH \div 2 \in Int /\ finger[tSlot].y \in Int
      BY <3>2, <2>g, DragInt, ZeroPos, ScreenInt DEF Mid
    <3>4. anchor' \in [x : Int, y : Int] /\ padAnchor' \in Int
      BY <2>11, <3>3 DEF DragY
    <3>5. spot' \in [x : Int, y : Int] /\ nth' \in {0, 1}
      BY <2>11, <3>3, <3>4 DEF DragY, TouchAt, LiftAndTouch
    <3>6. seen' \in Int
      BY <3>1, <3>2, <2>g
    <3> QED BY <3>1, <3>4, <3>5, <3>6
  <2> QED BY <1>9, <2>1, <2>2, <2>3, <2>4, <2>5, <2>6, <2>7, <2>8, <2>9, <2>10, <2>11 DEF Handle
<1> QED BY <1>1, <1>2, <1>3, <1>4, <1>5, <1>6, <1>7, <1>8, <1>9 DEF Next, Daemon

\* Every variable keeps its type, for every pad, screen and configuration.
THEOREM TypeCorrect == Spec => []TypeOK
<1>1. Init => TypeOK
  <2>1. Init => FlagsOK
    BY Zenon DEF Init, FlagsOK
  <2>2. Init => WorldOK
    BY NoHand, KSAssumption DEF Init, WorldOK
  <2>3. Init => DaemonOK
    BY NoHand, ZeroPos, KSAssumption DEF Init, DaemonOK, Unbarred, Zero
  <2> QED BY <2>1, <2>2, <2>3 DEF TypeOK
<1>2. TypeOK /\ [Next]_vars => TypeOK'
  BY FlagsStep, WorldStep, DaemonStep DEF TypeOK
<1> QED BY <1>1, <1>2, PTL DEF Spec
-------------------------------------------------------------------------------
(* Fingers that steered the cursor do not scroll.                          *)

\* Why SteeredNeverScrolls holds: a finger is barred only while it is on the pad, and
\* one that steered is either still steering or blocks all scrolling.
SteeredInv ==
  /\ \A s \in Slot : barred[s] # "no" => s \in Active
  /\ ~wasAlt /\ (\E s \in Slot : barred[s] = "steered") => altBlock
  /\ scrolling => tracking /\ ~wasAlt /\ ~altBlock
  /\ Relative /\ ~relActive => Active = {}

LEMMA SteeredStep == TypeOK /\ SteeredInv /\ [Next]_vars => SteeredInv'
<1> SUFFICES ASSUME TypeOK, SteeredInv, [Next]_vars PROVE SteeredInv'
  OBVIOUS
<1>0. barred \in [Slot -> {"no", "steered"}] /\ padq \in Seq(Frame) /\ finger \in Hands
      /\ (relActive => Relative /\ Active = {0})
  BY DEF TypeOK, DaemonOK, WorldOK, Active
<1> USE <1>0 DEF SteeredInv, Active
<1>1. CASE World \/ Time \/ Exited
  <2>1. UNCHANGED <<relActive, barred>>
    BY <1>1 DEF World, Slide, RelSlide, RelFinger, Type, Modifier, Screen, Unplug, Signal, Time,
                TypingOver, EchoOver, StillOver, Passes, Exited, vars, fingers, history
  <2> QED BY <1>1, <2>1, WorldLeavesContact DEF cursor, gesture
<1>2. CASE UNCHANGED vars
  BY <1>2 DEF vars, fingers, cursor, gesture, history
<1>3. CASE Quit \/ PadDone \/ ReadFails \/ Poll \/ ReadKey
  <2>1. UNCHANGED <<relActive, barred, finger, wasAlt, altBlock, scrolling, tracking>>
    BY <1>3 DEF Quit, PadDone, ReadFails, Poll, ReadKey, fingers, cursor, gesture, history
  <2> QED BY <2>1
<1>4. CASE KeysDone
  <2>1. UNCHANGED <<wasAlt, altBlock, scrolling, tracking>>
    BY <1>4 DEF KeysDone, cursor, gesture
  <2>2. UNCHANGED <<fingers, barred>> \/ (finger' = None /\ barred' = Unbarred)
    BY <1>4 DEF KeysDone
  <2> QED BY <2>1, <2>2, NoHand DEF Unbarred, fingers
<1>5. CASE ReadContacts
  <2> DEFINE f == Head(padq)
  <2>1. UNCHANGED <<relActive, wasAlt, altBlock, scrolling, tracking>> /\ ~Relative /\ f \in Frame
    BY <1>5 DEF ReadContacts, PadReady, gesture
  <2>2. /\ finger' = Contacts(f)
        /\ barred' = [s \in Slot |-> IF s \in DOMAIN Contacts(f) \ Fresh(f) THEN barred[s] ELSE "no"]
    BY <1>5 DEF ReadContacts
  <2> HIDE DEF f
  <2> QED BY <2>1, <2>2
<1>6. CASE ReadMovement
  <2>1. UNCHANGED <<barred, wasAlt, altBlock, scrolling, tracking>> /\ Relative
    BY <1>6 DEF ReadMovement, PadReady, gesture, history
  <2>2. UNCHANGED fingers \/ (relActive' = TRUE /\ DOMAIN finger' = {0})
    BY <1>6 DEF ReadMovement
  <2> QED BY <2>1, <2>2 DEF fingers
<1>7. CASE Handle
  <2> USE DEF Scrolls, Scrolling, Goes
  <2>0. UNCHANGED <<finger, relActive>>
    BY <1>7 DEF Handle, EnterCursor, SteerCursor, LeaveCursor, Blocked, NoGesture, StartGesture,
                EndGesture, Ignore, Approach, RejectSideways, DeleteWord, StartScroll,
                DragX, DragY, Drags, Handled, fingers
  <2>bar. ASSUME Bar
          PROVE  \A s \in Slot : barred'[s] = IF s \in DOMAIN finger THEN "steered" ELSE barred[s]
    BY <2>bar DEF Bar
  <2>1. CASE EnterCursor
    BY <2>0, <2>1, <2>bar DEF EnterCursor, Forget
  <2>2. CASE SteerCursor
    BY <2>0, <2>2, <2>bar DEF SteerCursor, gesture
  <2>3. CASE LeaveCursor \/ Blocked
    <3>1. UNCHANGED <<barred, scrolling, tracking>> /\ ~wasAlt'
      BY <2>3 DEF LeaveCursor, Blocked, gesture, history
    <3>2. altBlock' <=> DOMAIN finger # {}
      BY <2>3, Zenon DEF LeaveCursor, Blocked
    <3>3. ~scrolling
      BY <2>3 DEF LeaveCursor, Blocked
    <3> QED BY <2>0, <3>1, <3>2, <3>3
  <2>4. CASE StartGesture
    <3>1. UNCHANGED <<wasAlt, altBlock, scrolling>> /\ tracking' /\ ~altBlock /\ ~wasAlt
      BY <2>4 DEF StartGesture
    <3>2. UNCHANGED barred
      BY <2>4 DEF StartGesture
    <3> QED BY <2>0, <3>1, <3>2
  <2>5. CASE EndGesture
    BY <2>0, <2>5 DEF EndGesture, Forget
  <2>6. CASE NoGesture \/ Ignore \/ Approach \/ RejectSideways \/ DeleteWord \/ StartScroll
             \/ DragX \/ DragY
    <3>1. UNCHANGED <<barred, wasAlt, altBlock, tracking>> /\ ~wasAlt /\ ~altBlock
      BY <2>6 DEF NoGesture, Ignore, Approach, RejectSideways, DeleteWord, StartScroll, DragX,
                  DragY, Drags, gesture, history
    <3>2. UNCHANGED scrolling \/ tracking
      BY <2>6 DEF NoGesture, Ignore, Approach, RejectSideways, DeleteWord, StartScroll, DragX,
                  DragY, Drags, gesture
    <3> QED BY <2>0, <3>1, <3>2
  <2> QED BY <1>7, <2>1, <2>2, <2>3, <2>4, <2>5, <2>6 DEF Handle
<1> QED BY <1>1, <1>2, <1>3, <1>4, <1>5, <1>6, <1>7 DEF Next, Daemon

\* A finger that was on the pad while the modifier steered the cursor scrolls only
\* after it has been lifted, for any number of fingers and modifier keys.
THEOREM SteeringFingersBarred == Spec => []SteeredNeverScrolls
<1>1. Init => SteeredInv
  BY NoHand DEF Init, SteeredInv, Unbarred, Active
<1>2. TypeOK /\ SteeredInv => SteeredNeverScrolls
  BY DEF SteeredInv, SteeredNeverScrolls, TypeOK, DaemonOK
<1> QED BY <1>1, <1>2, SteeredStep, TypeCorrect, PTL DEF Spec
-------------------------------------------------------------------------------
(* The contact is one finger's drag.                                       *)

\* Where the contact is: nowhere while it is up; while it is down, on the row it was
\* put on, or as far from its anchor as the finger it follows, scaled.
DragInv ==
  /\ contact = "up" => spot = Zero /\ nth = 0
  /\ contact = "down" /\ scrollAxis = "x" => anchor.y = Mid.y
  /\ contact = "down" /\ scrollAxis = "y" =>
       spot.y = anchor.y + Trunc((seen - padAnchor) * Scale, Unit)

\* What a step may do to the contact: nothing; let it go; put it down; drag it.
Rests == UNCHANGED <<contact, spot, nth>>
         /\ (contact = "down" => UNCHANGED <<scrollAxis, anchor, padAnchor, seen>>)

\* Every step of the program is one of these.
LEMMA ContactSteps ==
  ASSUME ContactOwned, [Next]_vars
  PROVE  Rests \/ Release \/ StartScroll \/ DragX \/ DragY
<1> USE DEF Rests, gesture, touch, history
<1>1. CASE World \/ Time \/ Exited \/ UNCHANGED vars
  <2>1. UNCHANGED <<gesture, touch, history>>
    BY <1>1 DEF World, Slide, RelSlide, RelFinger, Type, Modifier, Screen, Unplug, Signal,
                Time, TypingOver, EchoOver, StillOver, Passes, Exited, vars
  <2> QED BY <2>1
<1>2. CASE Quit \/ ReadFails
  BY <1>2 DEF Quit, ReadFails
<1>3. CASE Poll \/ PadDone \/ KeysDone \/ ReadContacts \/ ReadMovement
  BY <1>3 DEF Poll, PadDone, KeysDone, ReadContacts, ReadMovement
<1>4. CASE ReadKey
  BY <1>4 DEF ReadKey
<1>5. CASE EnterCursor \/ EndGesture
  BY <1>5 DEF EnterCursor, EndGesture
<1>6. CASE SteerCursor \/ LeaveCursor \/ Blocked \/ NoGesture \/ Ignore \/ Approach
  BY <1>6 DEF SteerCursor, LeaveCursor, Blocked, NoGesture, Ignore, Approach
<1>7. CASE StartGesture
  BY <1>7 DEF StartGesture, Scrolling
<1>8. CASE RejectSideways \/ DeleteWord
  <2>1. contact # "down"
    BY <1>8 DEF RejectSideways, DeleteWord, ContactOwned
  <2> QED BY <1>8, <2>1 DEF RejectSideways, DeleteWord
<1> QED BY <1>1, <1>2, <1>3, <1>4, <1>5, <1>6, <1>7, <1>8 DEF Next, Daemon, Handle

\* Whole units: C's division is off by less than one of them, and towards zero.
LEMMA TruncOf ==
  ASSUME NEW n \in Int, NEW d \in Nat \ {0}
  PROVE  /\ n >= 0 => Trunc(n, d) * d <= n /\ n < Trunc(n, d) * d + d /\ Trunc(n, d) >= 0
         /\ n < 0 => Trunc(n, d) * d >= n /\ n > Trunc(n, d) * d - d /\ Trunc(n, d) <= 0
<1>1. \A k \in Nat : (k \div d) * d <= k /\ k < (k \div d) * d + d /\ k \div d \in Nat
  OBVIOUS
<1>2. CASE n >= 0
  BY <1>1, <1>2 DEF Trunc
<1>3. CASE n < 0
  <2>1. Trunc(n, d) = -((-n) \div d) /\ -n \in Nat
    BY <1>3 DEF Trunc
  <2> DEFINE q == (-n) \div d
  <2>2. q * d <= -n /\ -n < q * d + d /\ q \in Nat
    BY <1>1, <2>1
  <2>3. (-q) * d = -(q * d)
    BY <2>2
  <2> HIDE DEF q
  <2>4. Trunc(n, d) = -q
    BY <2>1 DEF q
  <2> QED BY <1>3, <2>2, <2>3, <2>4
<1> QED BY <1>2, <1>3

\* Two quotients are no further apart than what was divided, and one unit.
LEMMA TruncStep ==
  ASSUME NEW m \in Int, NEW n \in Int, NEW d \in Nat \ {0}
  PROVE  Abs(Trunc(m, d) - Trunc(n, d)) * d <= Abs(m - n) + d
<1> DEFINE p == Trunc(m, d)
           q == Trunc(n, d)
<1>1. p \in Int /\ q \in Int
  BY TruncInt
<1>2. /\ m >= 0 => p * d <= m /\ m < p * d + d /\ p >= 0
      /\ m < 0 => p * d >= m /\ m > p * d - d /\ p <= 0
  BY TruncOf
<1>3. /\ n >= 0 => q * d <= n /\ n < q * d + d /\ q >= 0
      /\ n < 0 => q * d >= n /\ n > q * d - d /\ q <= 0
  BY TruncOf
<1> HIDE DEF p, q
<1>4. (p - q) * d = p * d - q * d /\ (-(p - q)) * d = q * d - p * d
  BY <1>1
<1>5. p * d \in Int /\ q * d \in Int
  BY <1>1
<1>6. p * d - q * d <= Abs(m - n) + d /\ q * d - p * d <= Abs(m - n) + d
  <2> DEFINE u == p * d
             w == q * d
  <2>0. /\ m >= 0 => u <= m /\ m < u + d
        /\ m < 0 => u >= m /\ m > u - d
        /\ n >= 0 => w <= n /\ n < w + d
        /\ n < 0 => w >= n /\ n > w - d
        /\ u \in Int /\ w \in Int
        /\ (m >= 0 => u >= 0) /\ (m < 0 => u <= 0)
        /\ (n >= 0 => w >= 0) /\ (n < 0 => w <= 0)
    BY <1>1, <1>2, <1>3, <1>5
  <2>1. u - w <= Abs(m - n) + d /\ w - u <= Abs(m - n) + d
    <3> HIDE DEF u, w
    <3>1. CASE m >= n
      BY <2>0, <3>1 DEF Abs
    <3>2. CASE m < n
      BY <2>0, <3>2 DEF Abs
    <3> QED BY <3>1, <3>2
  <2> QED BY <2>1
<1>7. Abs(p - q) = p - q \/ Abs(p - q) = -(p - q)
  BY <1>1 DEF Abs
<1>8. Abs(p - q) * d <= Abs(m - n) + d
  BY <1>4, <1>6, <1>7
<1> QED BY <1>8 DEF p, q

\* Scaling a distance scales its size.
LEMMA AbsTimes ==
  ASSUME NEW k \in Int, NEW c \in Nat
  PROVE  Abs(k * c) = Abs(k) * c
<1>1. k * c \in Int /\ (-k) * c = -(k * c)
  OBVIOUS
<1>2. CASE k >= 0
  <2>1. k * c >= 0
    BY <1>2
  <2> QED BY <1>1, <1>2, <2>1 DEF Abs
<1>3. CASE k < 0
  <2>1. k * c <= 0
    BY <1>3
  <2> QED BY <1>1, <1>3, <2>1 DEF Abs
<1> QED BY <1>2, <1>3

\* The finger a contact follows is on the pad.
LEMMA FollowedFinger ==
  ASSUME TypeOK, Goes
  PROVE  finger[tSlot] \in Pos /\ finger[tSlot].x \in Int /\ finger[tSlot].y \in Int
<1>1. tSlot \in Active /\ finger \in Hands
  BY DEF Goes, Over, TypeOK, DaemonOK
<1>2. finger[tSlot] \in Pos
  BY <1>1, OfHand DEF Active
<1> QED BY <1>2, ZeroPos

\* Every step keeps the contact where DragInv says.
LEMMA DragStep == TypeOK /\ ContactOwned /\ DragInv /\ [Next]_vars => DragInv'
<1> SUFFICES ASSUME TypeOK, ContactOwned, DragInv, [Next]_vars PROVE DragInv'
  OBVIOUS
<1>0. /\ anchor \in [x : Int, y : Int] /\ padAnchor \in Int /\ contact \in {"up", "down"}
      /\ Unit \in Nat \ {0} /\ Scale \in Int /\ scrollAxis \in {"x", "y"}
  BY KSAssumption DEF TypeOK, DaemonOK
<1> USE DEF DragInv
<1>1. CASE Rests
  <2>1. Mid' = Mid
    BY DEF Mid
  <2> QED BY <1>1 DEF Rests, Mid, Trunc
<1>2. CASE Release
  BY <1>2 DEF Release
<1>3. CASE StartScroll
  <2>1. Goes /\ contact' = "down" /\ spot' = anchor' /\ seen' = padAnchor'
        /\ padAnchor' = Along(scrollAxis', finger[tSlot]) /\ scrollAxis' \in {"x", "y"}
    BY <1>3 DEF StartScroll, TouchAt
  <2>2. padAnchor' \in Int
    BY <2>1, FollowedFinger DEF Along
  <2>3. anchor'.y = Mid.y /\ anchor'.y \in Int
    <3>1. \/ anchor' = Mid
          \/ anchor' = [Mid EXCEPT !.x = ScrW - ScrW \div SIDE_DIV]
          \/ anchor' = [Mid EXCEPT !.x = ScrW \div SIDE_DIV]
      BY <1>3 DEF StartScroll
    <3> QED BY <3>1, ScreenInt
  <2>4. (seen' - padAnchor') * Scale = 0
    BY <2>1, <2>2, <1>0
  <2>5. Trunc(0, Unit) = 0
    BY <1>0 DEF Trunc
  <2> QED BY <2>1, <2>3, <2>4, <2>5
<1>4. CASE DragX
  <2>1. contact' = "down" /\ scrollAxis' = "x" /\ anchor' = anchor
        /\ contact = "down" /\ scrollAxis = "x"
    BY <1>4, <1>0 DEF DragX, Drags, TouchAt, Goes, Scrolling, Scrolls, Handled, ContactOwned
  <2> QED BY <2>1
<1>5. CASE DragY
  <2>1. Goes /\ contact' = "down" /\ scrollAxis' = "y" /\ seen' = finger[tSlot].y
    BY <1>5 DEF DragY, Drags, TouchAt, LiftAndTouch, Along
  <2>2. finger[tSlot].y \in Int
    BY <2>1, FollowedFinger
  <2>3. CASE Ty < Edge \/ Ty > ScrH - Edge
    <3>1. /\ anchor' = [anchor EXCEPT !.y = ScrH \div 2] /\ padAnchor' = finger[tSlot].y
          /\ spot' = [x |-> ScrW \div 2, y |-> anchor'.y]
      BY <1>5, <2>3 DEF DragY, LiftAndTouch
    <3>2. anchor'.y \in Int
      BY <3>1, <1>0, ScreenInt DEF Mid
    <3>3. (seen' - padAnchor') * Scale = 0
      BY <2>1, <2>2, <3>1, <1>0
    <3>4. Trunc(0, Unit) = 0
      BY <1>0 DEF Trunc
    <3> QED BY <2>1, <3>1, <3>2, <3>3, <3>4
  <2>4. CASE ~(Ty < Edge \/ Ty > ScrH - Edge)
    <3>1. spot'.y = Ty /\ UNCHANGED <<anchor, padAnchor>>
      BY <1>5, <2>4 DEF DragY, TouchAt
    <3> QED BY <2>1, <3>1 DEF Ty
  <2> QED BY <2>3, <2>4
<1> QED BY <1>1, <1>2, <1>3, <1>4, <1>5, ContactSteps

\* Where every contact is, in any run of the program.
LEMMA Dragged == Spec => [](TypeOK /\ ContactOwned /\ DragInv)
<1>1. Init => DragInv
  BY DEF Init, DragInv
<1> QED BY <1>1, DragStep, TypeCorrect, ContactIsOwned, PTL DEF Spec

\* While one touch of a vertical drag lasts, it moves no further than the finger it
\* follows did, scaled and rounded to a pixel: the history that leads up to a touch
\* cannot make the page jump.
THEOREM ContactFollows == Spec => NoJump
<1> DEFINE Follows == contact = "down" /\ contact' = "down" /\ nth' = nth /\ scrollAxis = "y"
                        => Abs(spot'.y - spot.y) * Unit <= (Abs(seen' - seen) * Scale) + Unit
<1>1. TypeOK /\ ContactOwned /\ DragInv /\ [Next]_vars => Follows
  <2> SUFFICES ASSUME TypeOK, ContactOwned, DragInv, [Next]_vars,
                      contact = "down", contact' = "down", nth' = nth, scrollAxis = "y"
               PROVE  Abs(spot'.y - spot.y) * Unit <= (Abs(seen' - seen) * Scale) + Unit
    OBVIOUS
  <2>0. /\ anchor \in [x : Int, y : Int] /\ padAnchor \in Int /\ seen \in Int /\ nth \in {0, 1}
        /\ spot \in [x : Int, y : Int] /\ Unit \in Nat \ {0} /\ Scale \in Nat
    BY KSAssumption DEF TypeOK, DaemonOK
  <2>1. CASE Rests
    <3>1. spot'.y - spot.y = 0 /\ seen' - seen = 0
      BY <2>0, <2>1 DEF Rests
    <3> QED BY <2>0, <3>1 DEF Abs
  <2>2. CASE StartScroll
    BY <2>2 DEF StartScroll, ContactOwned
  <2>3. CASE DragX
    BY <2>3 DEF DragX, Drags
  <2>4. CASE DragY
    <3>1. Goes /\ seen' = finger[tSlot].y
      BY <2>4 DEF DragY, Drags, Along
    <3>2. seen' \in Int
      BY <3>1, FollowedFinger
    <3>3. ~(Ty < Edge \/ Ty > ScrH - Edge)
      BY <2>4, <2>0 DEF DragY, LiftAndTouch
    <3>4. spot'.y = anchor.y + Trunc((seen' - padAnchor) * Scale, Unit)
      BY <2>4, <3>1, <3>3 DEF DragY, TouchAt, Ty
    <3>5. spot.y = anchor.y + Trunc((seen - padAnchor) * Scale, Unit)
      BY DEF DragInv
    <3> DEFINE m == (seen' - padAnchor) * Scale
               n == (seen - padAnchor) * Scale
    <3>6. m \in Int /\ n \in Int
      BY <2>0, <3>2
    <3>7. m - n = (seen' - seen) * Scale
      BY <2>0, <3>2
    <3>8. Abs(m - n) = Abs(seen' - seen) * Scale
      BY <2>0, <3>2, <3>7, AbsTimes
    <3>9. Trunc(m, Unit) \in Int /\ Trunc(n, Unit) \in Int
      BY <3>6, <2>0, TruncInt
    <3>10. spot'.y - spot.y = Trunc(m, Unit) - Trunc(n, Unit)
      <4> HIDE DEF m, n
      <4>1. spot'.y = anchor.y + Trunc(m, Unit) /\ spot.y = anchor.y + Trunc(n, Unit)
        BY <3>4, <3>5 DEF m, n
      <4> QED BY <4>1, <2>0, <3>9
    <3> HIDE DEF m, n
    <3>11. Abs(Trunc(m, Unit) - Trunc(n, Unit)) * Unit <= Abs(m - n) + Unit
      BY <3>6, <2>0, TruncStep
    <3> QED BY <3>8, <3>10, <3>11
  <2>5. CASE Release
    BY <2>5 DEF Release
  <2> QED BY <2>1, <2>2, <2>3, <2>4, <2>5, ContactSteps
<1>2. TypeOK /\ ContactOwned /\ DragInv /\ [Next]_vars => [Follows]_vars
  BY <1>1
<1>3. Spec => [][Follows]_vars
  BY <1>2, Dragged, PTL DEF Spec
<1> QED BY <1>3 DEF NoJump, Follows
-------------------------------------------------------------------------------
(* Refinement: Kbdscroll implements FingerDrag.                            *)

\* The lanes are inside the screen.
LEMMA LanesInside ==
  /\ SideStop \in Nat /\ SideStop <= ScrW - SideStop /\ ScrW - SideStop <= ScrW
  /\ Edge \in Nat /\ ScrH - Edge <= ScrH
  /\ ScrW \div 2 \in 0 .. ScrW /\ ScrH \div 2 \in 0 .. ScrH
<1>1. ScrW \in Nat /\ ScrH \in Nat
  BY KSAssumption
<1> QED BY <1>1 DEF SideStop, SIDE_STOP_DIV, Edge, EDGE_DIV

\* The program starts as the drag does: nothing touched.
LEMMA DragInit == Init => Drag!Init
BY DEF Init, Drag!Init, Zero

\* Every step of the program is a step of the drag or leaves it as it is.
LEMMA DragSimulated ==
  ASSUME TypeOK, ContactOwned, DragInv, [Next]_vars
  PROVE  [Drag!Next]_(Drag!vars)
<1>0. anchor \in [x : Int, y : Int] /\ padAnchor \in Int /\ contact \in {"up", "down"}
      /\ scrollAxis \in {"x", "y"}
  BY DEF TypeOK, DaemonOK
<1>1. CASE Rests
  BY <1>0, <1>1 DEF Rests, Drag!vars
<1>2. CASE Release
  <2>1. CASE contact = "up"
    BY <1>2, <2>1 DEF Release, DragInv, Drag!vars
  <2>2. CASE contact = "down"
    BY <1>2, <2>2 DEF Release, Zero, Drag!Next, Drag!Lift
  <2> QED BY <1>0, <2>1, <2>2
<1>3. CASE StartScroll
  <2>1. contact = "up"
    BY <1>0, <1>3 DEF StartScroll, ContactOwned
  <2>2. contact' = "down" /\ nth' = 0 /\ scrollAxis' \in {"x", "y"}
    BY <1>3, <2>1 DEF StartScroll, TouchAt, DragInv
  <2>3. spot' \in Drag!Start[scrollAxis']
    BY <1>3 DEF StartScroll, TouchAt, Drag!Start, Drag!Mid, Mid
  <2> QED BY <2>1, <2>2, <2>3 DEF Drag!Next, Drag!Grab
<1>4. CASE DragX
  <2>1. /\ contact = "down" /\ contact' = "down" /\ scrollAxis = "x" /\ scrollAxis' = "x"
        /\ nth' = nth /\ anchor.y = Mid.y
        /\ spot' = [x |-> Within(Tx, SideStop, ScrW - SideStop), y |-> anchor.y]
    BY <1>0, <1>4 DEF DragX, Drags, TouchAt, Goes, Scrolling, Scrolls, Handled, ContactOwned,
                      DragInv
  <2>2. Tx \in Int
    BY <1>0, <1>4, FollowedFinger, DragInt DEF DragX, Drags
  <2>3. Within(Tx, SideStop, ScrW - SideStop) \in SideStop .. ScrW - SideStop
    BY <2>2, LanesInside, ScreenInt DEF Within
  <2>4. spot' \in Drag!Lane("x")
    BY <2>1, <2>3, LanesInside, ScreenInt DEF Drag!Lane, Drag!Mid, Mid
  <2> QED BY <2>1, <2>4 DEF Drag!Next, Drag!Move
<1>5. CASE DragY
  <2>1. contact = "down" /\ contact' = "down" /\ scrollAxis = "y" /\ scrollAxis' = "y"
    BY <1>0, <1>5 DEF DragY, Drags, TouchAt, LiftAndTouch, Goes, Scrolling, Scrolls, Handled,
                      ContactOwned
  <2>2. CASE Ty < Edge \/ Ty > ScrH - Edge
    <3>1. spot' = Drag!Mid /\ nth' = 1 - nth
      BY <1>0, <1>5, <2>2 DEF DragY, LiftAndTouch, Drag!Mid
    <3> QED BY <2>1, <3>1 DEF Drag!Next, Drag!Regrab
  <2>3. CASE ~(Ty < Edge \/ Ty > ScrH - Edge)
    <3>1. spot' = [x |-> ScrW \div 2, y |-> Ty] /\ nth' = nth
      BY <1>5, <2>3 DEF DragY, TouchAt
    <3>2. Ty \in Int
      BY <1>0, <1>5, FollowedFinger, DragInt DEF DragY, Drags
    <3>3. spot' \in Drag!Lane("y")
      BY <2>3, <3>1, <3>2, LanesInside, ScreenInt DEF Drag!Lane, Drag!Mid
    <3> QED BY <2>1, <3>1, <3>3 DEF Drag!Next, Drag!Move
  <2> QED BY <2>2, <2>3
<1> QED BY <1>1, <1>2, <1>3, <1>4, <1>5, ContactSteps

\* What the compositor sees is one finger dragging: a touch begins on the fixed spot,
\* keeps to its axis and inside the margins, takes hold again only vertically and is
\* let go, for any pad, screen, scale and order of events.
THEOREM ImplementsFingerDrag == Spec => OneFingerDrag
<1> QED BY DragInit, DragSimulated, Dragged, PTL DEF Spec, OneFingerDrag, Drag!Spec
-------------------------------------------------------------------------------
(* Cursor mode lets go of its modifier.                                    *)

\* A release of modifier m is among the events of queue q from the i-th on.
LetsGo(m, q, i) == \E j \in i .. Len(q) : q[j] = Event(m, 0)

\* While the echo window is open the modifier is not taken for held; if it is, some
\* modifier is down or its release is still to be read; and so it is for every press
\* that is still to be read.
WindowClear == echo => ~altDown
HeldKnown   == altDown => \E m \in Mods : m \in keys \/ LetsGo(m, keyq, 1)
PressKnown  == \A m \in Mods : \A i \in 1 .. Len(keyq) :
                 keyq[i] = Event(m, 1) => m \in keys \/ LetsGo(m, keyq, i)

ModifierInv == WindowClear /\ HeldKnown /\ PressKnown

\* New events keep what is known of the old ones, when a modifier that they leave up
\* is let go by them.
LEMMA KeysAppended ==
  ASSUME HeldKnown, PressKnown, UNCHANGED altDown, keyq \in Seq(KeyEvent),
         NEW t \in Seq(KeyEvent), keyq' = keyq \o t,
         \A m \in Mods : m \in keys /\ m \notin keys' => LetsGo(m, t, 1),
         \A m \in Mods : \A i \in 1 .. Len(t) :
            t[i] = Event(m, 1) => m \in keys' \/ LetsGo(m, t, i)
  PROVE  HeldKnown' /\ PressKnown'
<1>1. Len(keyq) \in Nat /\ Len(t) \in Nat /\ Len(keyq') = Len(keyq) + Len(t)
  OBVIOUS
<1>2. \A i \in 1 .. Len(keyq) : keyq'[i] = keyq[i]
  OBVIOUS
<1>3. \A i \in 1 .. Len(t) : keyq'[Len(keyq) + i] = t[i]
  OBVIOUS
<1>4. ASSUME NEW m, NEW i \in Nat \ {0}, LetsGo(m, keyq, i) PROVE LetsGo(m, keyq', i)
  BY <1>1, <1>2, <1>4 DEF LetsGo
<1>5. ASSUME NEW m, NEW i \in Nat \ {0}, LetsGo(m, t, i) PROVE LetsGo(m, keyq', Len(keyq) + i)
  <2>1. PICK j \in i .. Len(t) : t[j] = Event(m, 0)
    BY <1>5 DEF LetsGo
  <2>2. Len(keyq) + j \in Len(keyq) + i .. Len(keyq') /\ keyq'[Len(keyq) + j] = Event(m, 0)
    BY <1>1, <1>3, <2>1
  <2> QED BY <2>2 DEF LetsGo
<1>6. ASSUME NEW m, NEW i \in Nat \ {0}, NEW k \in Nat \ {0}, k <= i, LetsGo(m, keyq', i)
      PROVE  LetsGo(m, keyq', k)
  BY <1>1, <1>6 DEF LetsGo
<1>7. ASSUME NEW m \in Mods, NEW i \in 1 .. Len(keyq) + 1, m \in keys \/ LetsGo(m, keyq, i)
      PROVE  m \in keys' \/ LetsGo(m, keyq', i)
  BY <1>1, <1>4, <1>5, <1>6, <1>7
<1>8. HeldKnown'
  BY <1>1, <1>7 DEF HeldKnown, LetsGo
<1>9. PressKnown'
  <2> SUFFICES ASSUME NEW m \in Mods, NEW i \in 1 .. Len(keyq'), keyq'[i] = Event(m, 1)
               PROVE  m \in keys' \/ LetsGo(m, keyq', i)
    BY DEF PressKnown, LetsGo, Event
  <2>1. CASE i <= Len(keyq)
    <3>1. i \in 1 .. Len(keyq) /\ keyq[i] = Event(m, 1)
      BY <1>1, <1>2, <2>1
    <3> QED BY <1>1, <1>7, <3>1 DEF PressKnown
  <2>2. CASE i > Len(keyq)
    <3>1. i - Len(keyq) \in 1 .. Len(t) /\ t[i - Len(keyq)] = Event(m, 1)
      BY <1>1, <1>3, <2>2
    <3>2. Len(keyq) + (i - Len(keyq)) = i
      BY <1>1
    <3> QED BY <1>1, <1>5, <3>1, <3>2
  <2> QED BY <1>1, <2>1, <2>2
<1> QED BY <1>8, <1>9

\* Reading the first event keeps what is known of the others.
LEMMA KeyRead ==
  ASSUME ModifierInv, keyq \in Seq(KeyEvent), ReadKey, altDown \in BOOLEAN
  PROVE  ModifierInv'
<1>1. keyq # <<>> /\ keyq' = Tail(keyq) /\ keys' = keys /\ echo' = echo
  BY DEF ReadKey, KeyReady, world
<1>2. Len(keyq) \in Nat \ {0} /\ Len(keyq') = Len(keyq) - 1
      /\ \A i \in 1 .. Len(keyq') : keyq'[i] = keyq[i + 1]
  BY <1>1
<1>3. keyq[1] = Head(keyq) /\ Head(keyq) \in KeyEvent
  BY <1>1
<1>4. ASSUME NEW m, NEW i \in 2 .. Len(keyq) + 1, LetsGo(m, keyq, i) PROVE LetsGo(m, keyq', i - 1)
  <2>1. PICK j \in i .. Len(keyq) : keyq[j] = Event(m, 0)
    BY <1>4 DEF LetsGo
  <2>2. j - 1 \in i - 1 .. Len(keyq') /\ keyq'[j - 1] = Event(m, 0)
    BY <1>2, <2>1
  <2> QED BY <2>2 DEF LetsGo
<1>5. ASSUME NEW m, LetsGo(m, keyq, 1), Head(keyq) # Event(m, 0) PROVE LetsGo(m, keyq', 1)
  <2>1. LetsGo(m, keyq, 2)
    BY <1>2, <1>3, <1>5 DEF LetsGo
  <2> QED BY <1>2, <1>4, <2>1
<1>6. WindowClear'
  <2>1. echo => UNCHANGED altDown
    BY Zenon DEF ReadKey
  <2> QED BY <1>1, <2>1 DEF ModifierInv, WindowClear
<1>7. PressKnown'
  <2> SUFFICES ASSUME NEW m \in Mods, NEW i \in 1 .. Len(keyq'), keyq'[i] = Event(m, 1)
               PROVE  m \in keys' \/ LetsGo(m, keyq', i)
    BY DEF PressKnown, LetsGo, Event
  <2>1. i + 1 \in 1 .. Len(keyq) /\ keyq[i + 1] = Event(m, 1) /\ i + 1 \in 2 .. Len(keyq) + 1
    BY <1>2
  <2>2. m \in keys \/ LetsGo(m, keyq, i + 1)
    BY <2>1 DEF ModifierInv, PressKnown
  <2>3. (i + 1) - 1 = i
    OBVIOUS
  <2> QED BY <1>1, <1>4, <2>1, <2>2, <2>3
<1>8. HeldKnown'
  <2> SUFFICES ASSUME altDown' PROVE \E m \in Mods : m \in keys' \/ LetsGo(m, keyq', 1)
    BY DEF HeldKnown, LetsGo, Event
  <2>1. CASE Head(keyq).key \in Mods /\ ~echo
    <3>1. Head(keyq).value = 1
      BY <2>1, Zenon DEF ReadKey, ReadModifier
    <3> DEFINE m == Head(keyq).key
    <3>2. m \in Mods /\ keyq[1] = Event(m, 1)
      BY <1>3, <2>1, <3>1 DEF KeyEvent, Event
    <3>3. m \in keys \/ LetsGo(m, keyq, 1)
      BY <1>2, <3>2 DEF ModifierInv, PressKnown
    <3>4. Head(keyq) # Event(m, 0)
      BY <3>1 DEF Event
    <3> QED BY <1>1, <1>5, <3>2, <3>3, <3>4
  <2>2. CASE Head(keyq).key \notin Mods \/ echo
    <3>1. altDown
      BY <2>2, Zenon DEF ReadKey, ReadTyping
    <3>2. ~echo
      BY <3>1 DEF ModifierInv, WindowClear
    <3>3. PICK m \in Mods : m \in keys \/ LetsGo(m, keyq, 1)
      BY <3>1 DEF ModifierInv, HeldKnown
    <3>4. Head(keyq) # Event(m, 0)
      BY <2>2, <3>2 DEF Event
    <3> QED BY <1>1, <1>5, <3>3, <3>4
  <2> QED BY <2>1, <2>2
<1> QED BY <1>6, <1>7, <1>8 DEF ModifierInv

\* Every step keeps what is known of the modifier.
LEMMA ModifierStep == TypeOK /\ ModifierInv /\ [Next]_vars => ModifierInv'
<1> SUFFICES ASSUME TypeOK, ModifierInv, [Next]_vars PROVE ModifierInv'
  OBVIOUS
<1>0. keyq \in Seq(KeyEvent) /\ keys \in SUBSET Mods /\ altDown \in BOOLEAN
  BY DEF TypeOK, WorldOK, FlagsOK
<1>1. ASSUME UNCHANGED <<keyq, keys, altDown>>, echo' => echo PROVE ModifierInv'
  BY <1>1 DEF ModifierInv, WindowClear, HeldKnown, PressKnown, LetsGo, Event
<1>2. CASE Type
  <2>1. /\ UNCHANGED <<echo, altDown, keys>>
        /\ keyq' = Append(keyq, Event("typing", 1))
    BY <1>2 DEF Type, Event, clock, cursor, world
  <2>2. Event("typing", 1) \in KeyEvent /\ "typing" \notin Mods
    BY KSAssumption DEF Event, KeyEvent
  <2> DEFINE t == <<Event("typing", 1)>>
  <2>3. t \in Seq(KeyEvent) /\ keyq' = keyq \o t /\ Len(t) = 1 /\ t[1] = Event("typing", 1)
    BY <1>0, <2>1, <2>2
  <2>4. \A m \in Mods : \A i \in 1 .. Len(t) : t[i] # Event(m, 1)
    BY <2>2, <2>3 DEF Event
  <2>5. HeldKnown' /\ PressKnown'
    <3> HIDE DEF t
    <3> QED BY <1>0, <2>1, <2>3, <2>4, KeysAppended DEF ModifierInv
  <2> QED BY <2>1, <2>5 DEF ModifierInv, WindowClear
<1>3. ASSUME NEW m \in Mods, Modifier(m) PROVE ModifierInv'
  <2> DEFINE v == IF m \in keys THEN 0 ELSE 1
             t == <<Event(m, v)>>
  <2>1. /\ UNCHANGED <<echo, altDown>>
        /\ keys' = IF m \in keys THEN keys \ {m} ELSE keys \cup {m}
        /\ keyq' = Append(keyq, Event(m, v))
    BY <1>3 DEF Modifier, Event, clock, cursor
  <2>2. Event(m, v) \in KeyEvent
    BY DEF Event, KeyEvent
  <2>3. t \in Seq(KeyEvent) /\ keyq' = keyq \o t /\ Len(t) = 1 /\ t[1] = Event(m, v)
    BY <1>0, <2>1, <2>2
  <2>4. \A n \in Mods : n \in keys /\ n \notin keys' => LetsGo(n, t, 1)
    <3> SUFFICES ASSUME NEW n \in Mods, n \in keys, n \notin keys' PROVE LetsGo(n, t, 1)
      OBVIOUS
    <3>1. n = m /\ v = 0
      BY <2>1
    <3> QED BY <2>3, <3>1 DEF LetsGo
  <2>5. \A n \in Mods : \A i \in 1 .. Len(t) : t[i] = Event(n, 1) => n \in keys'
    <3> SUFFICES ASSUME NEW n \in Mods, Event(m, v) = Event(n, 1) PROVE n \in keys'
      BY <2>3
    <3>1. n = m /\ v = 1
      BY DEF Event
    <3> QED BY <2>1, <3>1
  <2>6. HeldKnown' /\ PressKnown'
    <3> HIDE DEF t, v
    <3> QED BY <1>0, <2>1, <2>3, <2>4, <2>5, KeysAppended DEF ModifierInv
  <2> QED BY <2>1, <2>6 DEF ModifierInv, WindowClear
<1>4. CASE ReadKey
  BY <1>0, <1>4, KeyRead
<1>5. CASE DeleteWord
  <2>1. UNCHANGED altDown /\ ~altDown /\ keyq' = keyq \o Chord /\ keys' = keys \ {ChordMod}
    BY <1>5 DEF DeleteWord, Goes, Scrolling, Scrolls
  <2>2. ChordMod \in Mods => \A i \in 1 .. Len(Chord) : LetsGo(ChordMod, Chord, i)
    BY ChordEvents DEF LetsGo
  <2>3. 1 \in 1 .. Len(Chord)
    BY ChordEvents
  <2>4. \A m \in Mods : m \in keys /\ m \notin keys' => LetsGo(m, Chord, 1)
    BY <2>1, <2>2, <2>3
  <2>5. \A m \in Mods : \A i \in 1 .. Len(Chord) : Chord[i] = Event(m, 1) => LetsGo(m, Chord, i)
    BY <2>2, ChordEvents DEF Event
  <2>6. HeldKnown' /\ PressKnown'
    BY <1>0, <2>1, <2>4, <2>5, ChordEvents, KeysAppended DEF ModifierInv
  <2> QED BY <2>1, <2>6 DEF ModifierInv, WindowClear
<1>6. CASE World \/ Time \/ Exited \/ UNCHANGED vars
  <2>1. CASE Slide \/ RelSlide \/ RelFinger \/ Screen \/ Unplug \/ Signal \/ Time \/ Exited
             \/ UNCHANGED vars
    <3>1. UNCHANGED <<keyq, keys, altDown>> /\ (echo' = echo \/ echo' = FALSE)
      BY <2>1 DEF Slide, RelSlide, RelFinger, Screen, Unplug, Signal, Time, TypingOver, EchoOver,
                  StillOver, Passes, Exited, vars, queues, clock, cursor, world
    <3>2. echo' => echo
      BY <3>1, Zenon
    <3> QED BY <1>1, <3>1, <3>2
  <2> QED BY <1>2, <1>3, <1>6, <2>1 DEF World
<1>7. CASE Quit \/ Poll \/ KeysDone \/ ReadContacts \/ ReadMovement \/ PadDone \/ ReadFails
  <2>1. UNCHANGED <<keyq, keys, altDown, echo>>
    BY <1>7 DEF Quit, Poll, KeysDone, ReadContacts, ReadMovement, PadDone, ReadFails, queues, clock,
                cursor, world
  <2> QED BY <1>1, <2>1
<1>8. CASE EnterCursor \/ SteerCursor \/ LeaveCursor \/ Blocked \/ NoGesture \/ StartGesture
           \/ EndGesture \/ Ignore \/ Approach \/ RejectSideways \/ StartScroll \/ DragX \/ DragY
  <2>1. UNCHANGED <<keyq, keys, altDown, echo>>
    BY <1>8 DEF EnterCursor, SteerCursor, LeaveCursor, Blocked, NoGesture, StartGesture,
                EndGesture, Ignore, Approach, RejectSideways, StartScroll, DragX, DragY, Drags,
                Goes, Scrolling, queues, clock, world, keyboard
  <2> QED BY <1>1, <2>1
<1> QED BY <1>4, <1>5, <1>6, <1>7, <1>8 DEF Next, Daemon, Handle

\* Once the keyboards are drained, the cursor modifier is taken for held only if one
\* is, wherever the echo window closed among the chord and the user's own keys, for
\* any set of modifiers and any chord.
THEOREM ModifierIsLetGo == Spec => []ModifierLetsGo
<1>1. Init => ModifierInv
  BY DEF Init, ModifierInv, WindowClear, HeldKnown, PressKnown
<1>2. TypeOK /\ ModifierInv => ModifierLetsGo
  BY DEF ModifierInv, HeldKnown, LetsGo, ModifierLetsGo
<1> QED BY <1>1, <1>2, ModifierStep, TypeCorrect, PTL DEF Spec
===============================================================================
