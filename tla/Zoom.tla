-------------------------------- MODULE Zoom --------------------------------
(***************************************************************************)
(* The mouse and the keyboard of teststramv3/zoom.c: events_cb moves and   *)
(* scales the picture on the mixer's pad.  The horizontal axis; the        *)
(* vertical one has 480 and 48 for 640 and 64.                             *)
(***************************************************************************)
EXTENDS Integers

CONSTANTS
    X,              \* where the pointer may be: 0 .. 639
    MaxEvents       \* bound: events

ZoomAssumption == X \subseteq 0 .. 639 /\ 320 \in X /\ MaxEvents \in Nat

VARIABLES
    xpos,           \* of the pad
    scale,          \* its width is 640 + 64 * scale
    clicked, clicked_x, clicked_xpos,
    terminate,
    count,          \* events so far
    drag,           \* history: where an undisturbed drag began, and the pointer now
    zooms           \* history since the last reset, if all it saw was zooms at one
                    \*   point: that point, the least and the greatest scale

vars == <<xpos, scale, clicked, clicked_x, clicked_xpos, terminate, count, drag, zooms>>

WIDTH == 640
Width == WIDTH + 64 * scale
NoDrag == [on |-> FALSE, from |-> 0, at |-> 0, pos |-> 0]
Fresh == [on |-> TRUE, at |-> {}, least |-> 0, most |-> 0]

TypeOK ==
    /\ xpos \in Int /\ scale \in -MaxEvents .. MaxEvents
    /\ clicked \in BOOLEAN /\ clicked_x \in X \cup {0} /\ clicked_xpos \in Int
    /\ terminate \in BOOLEAN /\ count \in 0 .. MaxEvents
    /\ drag.on => clicked /\ drag.from = clicked_x
    /\ zooms.on => zooms.least <= scale /\ scale <= zooms.most

Init ==
    /\ xpos = 0 /\ scale = 0
    /\ clicked = FALSE /\ clicked_x = 0 /\ clicked_xpos = 0
    /\ terminate = FALSE /\ count = 0
    /\ drag = NoDrag /\ zooms = Fresh

-----------------------------------------------------------------------------
\* A position in tenths, assigned to a gint: the fraction is cut off.
Floor(t) == t \div 10                    \* mutant: rounded down
Cut(t) == IF t >= 0 THEN t \div 10 ELSE -((-t) \div 10)

\* zoom_in (d = 1) and zoom_out (d = -1) at x: (x / 640) * 64 is x tenths.
ZoomAt(x, d) ==
    /\ scale' = scale + d
    /\ xpos' = Cut(10 * xpos - d * x)
    /\ zooms' = [on |-> zooms.on /\ zooms.at \subseteq {x}, at |-> {x},
                 least |-> IF scale' < zooms.least THEN scale' ELSE zooms.least,
                 most |-> IF scale' > zooms.most THEN scale' ELSE zooms.most]

reset_zoom == xpos' = 0 /\ scale' = 0 /\ zooms' = Fresh

MoveTo(p) ==
    /\ xpos' = p /\ scale' = scale
    /\ zooms' = [zooms EXCEPT !.on = @ /\ p = xpos]

Still == UNCHANGED <<xpos, scale, zooms>>
Event == ~terminate /\ count < MaxEvents /\ count' = count + 1 /\ UNCHANGED terminate

\* Left, Right, plus, minus, r; Up and Down are the other axis.
KeyPress ==
    /\ Event
    /\ \/ MoveTo(xpos - 10) \/ MoveTo(xpos + 10)
       \/ ZoomAt(320, 1) \/ ZoomAt(320, -1)
       \/ reset_zoom
       \/ Still
    /\ drag' = NoDrag
    /\ UNCHANGED <<clicked, clicked_x, clicked_xpos>>

MouseMove(x) ==
    /\ Event
    /\ IF clicked THEN MoveTo(clicked_xpos + (x - clicked_x)) ELSE Still
    /\ drag' = [drag EXCEPT !.at = IF drag.on THEN x ELSE @]
    /\ UNCHANGED <<clicked, clicked_x, clicked_xpos>>

LastPosition == clicked_xpos             \* mutant: the pad's position not taken at the press
PressPosition == xpos

Press(x) ==
    /\ Event
    /\ clicked' = TRUE /\ clicked_x' = x /\ clicked_xpos' = PressPosition
    /\ drag' = [on |-> TRUE, from |-> x, at |-> x, pos |-> xpos]
    /\ Still

\* The other buttons, and the wheel, move clicked_x as well, drag or no drag.
PressOther(x) ==
    /\ Event
    /\ reset_zoom \/ ZoomAt(x, 1) \/ ZoomAt(x, -1) \/ Still
    /\ clicked_x' = x
    /\ drag' = NoDrag
    /\ UNCHANGED <<clicked, clicked_xpos>>

Scroll(x) ==
    /\ Event
    /\ ZoomAt(x, 1) \/ ZoomAt(x, -1) \/ Still
    /\ clicked_x' = x
    /\ drag' = NoDrag
    /\ UNCHANGED <<clicked, clicked_xpos>>

Release ==
    /\ Event
    /\ clicked' = FALSE
    /\ drag' = NoDrag
    /\ Still
    /\ UNCHANGED <<clicked_x, clicked_xpos>>

\* handle_message: an error or the end of the stream.
Terminate ==
    /\ ~terminate /\ terminate' = TRUE
    /\ UNCHANGED <<xpos, scale, clicked, clicked_x, clicked_xpos, count, drag, zooms>>

Next == KeyPress \/ Release \/ Terminate \/ \E x \in X : MouseMove(x) \/ Press(x) \/ PressOther(x) \/ Scroll(x)

-----------------------------------------------------------------------------
\* While a button is held and nothing but the pointer moves, the picture has
\* moved as far as the pointer.  A key, another button or the wheel during the
\* drag ends this: the next move starts from where that event was.
DragFollowsPointer == drag.on => xpos = drag.pos + (drag.at - drag.from)

\* Zooming in and out at one point does not bring the picture back, each step
\* cuts a fraction off, but it stays between the places it would have if it had
\* been at 0 with the greatest, or with the least, of the scales used.
CutsStayInside ==
    zooms.on => \A x \in zooms.at :
        /\ -(scale - zooms.least) * x <= 10 * xpos
        /\ 10 * xpos <= (zooms.most - scale) * x
=============================================================================
