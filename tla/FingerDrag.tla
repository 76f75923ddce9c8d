------------------------------ MODULE FingerDrag ------------------------------
(***************************************************************************)
(* What kbdscroll promises the compositor: a slide on the pad is one       *)
(* finger's drag on the touchscreen.  The finger comes down on a fixed     *)
(* spot, keeps to one axis and to a margin inside the screen, and lifts.   *)
(* A vertical drag may take hold again mid-screen; a sideways drag is one  *)
(* touch from beginning to end.                                            *)
(***************************************************************************)
EXTENDS Integers

CONSTANTS
  ScrW, ScrH,    \* the screen, in its own units
  Edge,          \* a vertical drag stays this far from the top and bottom
  Side,          \* a sideways drag starts this far from a side ...
  SideStop       \* ... and stays this far from both

VARIABLES
  contact,  \* "up" or "down"
  spot,     \* where the contact is
  dir,      \* the axis of the drag
  nth       \* which touch of the drag this is (0, 1, 0 ...)

vars == <<contact, spot, dir, nth>>

Mid     == [x |-> ScrW \div 2, y |-> ScrH \div 2]
Start   == [y |-> {Mid}, x |-> {[Mid EXCEPT !.x = Side], [Mid EXCEPT !.x = ScrW - Side]}]
Lane(d) == {p \in [x : 0 .. ScrW, y : 0 .. ScrH] :
              IF d = "y" THEN p.x = Mid.x /\ p.y \in Edge .. ScrH - Edge
                         ELSE p.y = Mid.y /\ p.x \in SideStop .. ScrW - SideStop}

Init == contact = "up" /\ spot = [x |-> 0, y |-> 0] /\ dir = "none" /\ nth = 0

Grab ==
  /\ contact = "up" /\ contact' = "down"
  /\ dir' \in {"x", "y"}
  /\ spot' \in Start[dir']
  /\ nth' = 0

Move ==
  /\ contact = "down"
  /\ spot' \in Lane(dir)
  /\ UNCHANGED <<contact, dir, nth>>

Regrab ==
  /\ contact = "down" /\ dir = "y"
  /\ spot' = Mid
  /\ nth' = 1 - nth
  /\ UNCHANGED <<contact, dir>>

Lift ==
  /\ contact = "down" /\ contact' = "up"
  /\ spot' = [x |-> 0, y |-> 0] /\ dir' = "none" /\ nth' = 0

Next == Grab \/ Move \/ Regrab \/ Lift

Spec == Init /\ [][Next]_vars
===============================================================================
