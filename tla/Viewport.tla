------------------------------- MODULE Viewport -------------------------------
(* The viewport of the VNC console: novnc/display.js, viewportChange and     *)
(* getCleanDirtyReset, and the update requests rfb.js builds from them.  The *)
(* canvas shows a viewport of the framebuffer; cleanRect is what of it the   *)
(* server has drawn, to be asked for incrementally, while all the rest must  *)
(* be asked for in full or it would stay blank.                              *)
(* A definition X_Name before Name is Name with a fault, for the mutants.    *)
EXTENDS Integers, FiniteSets

CONSTANTS
    MaxWidth, MaxHeight,     \* bounds: of the framebuffer, in cells
    MaxMove,                 \* bound: of one move of the viewport
    Logo                     \* its w and h, to which clear resizes

ASSUME LogoAssumption == Logo \in [w : Nat, h : Nat]

VARIABLES
    clip,          \* conf.viewport: whether the viewport may be a part
    fb,            \* fb_width, fb_height
    viewport,      \* x, y, w, h
    cleanRect,     \* x1, y1, x2, y2
    shown,         \* history: cells of the canvas drawn or asked for in full
    again          \* history: there was a connection before this one

viewVars == <<clip, fb, viewport, cleanRect, shown, again>>

Cell(x, y) == <<x, y>>
Box(x, y, w, h) == [x |-> x, y |-> y, w |-> w, h |-> h]
InBox(b) == {Cell(i, j) : i \in b.x..b.x + b.w - 1, j \in b.y..b.y + b.h - 1}
-----------------------------------------------------------------------------
(* viewportChange, for each coordinate: the size may not pass the            *)
(* framebuffer's, and the clean part shrinks with it; then the position      *)
(* moves, within the framebuffer.                                            *)
NewSize(size, full) == IF size > full THEN full ELSE size

CleanAfterSize(at, old, new, last) ==
    IF new < old /\ last > at + new - 1 THEN at + new - 1 ELSE last

NewDelta(delta, at, size, full) ==
    LET d    == IF at + delta < 0 THEN 0 - at ELSE delta
        last == at + size - 1
    IN  IF last + d >= full THEN d - ((last + d) - full + 1) ELSE d

Least(a, b) == IF a < b THEN a ELSE b
Most(a, b)  == IF a > b THEN a ELSE b

(* The whole of it.  Cells that leave the viewport are lost; what comes in   *)
(* is painted white.                                                         *)
X_CleanAfterMove(cr, x, y, w, h) == cr
CleanAfterMove(cr, x, y, w, h) ==
    [x1 |-> Most(cr.x1, x), y1 |-> Most(cr.y1, y),
     x2 |-> Least(cr.x2, x + w - 1), y2 |-> Least(cr.y2, y + h - 1)]

ViewportChange(deltaX, deltaY, width, height, full, kept) ==
    LET v  == viewport
        w  == NewSize(width, full.w)
        h  == NewSize(height, full.h)
        dx == NewDelta(deltaX, v.x, w, full.w)
        dy == NewDelta(deltaY, v.y, h, full.h)
        cr == [cleanRect EXCEPT !.x2 = CleanAfterSize(v.x, v.w, w, @),
                                !.y2 = CleanAfterSize(v.y, v.h, h, @)]
    IN  /\ viewport' = Box(v.x + dx, v.y + dy, w, h)
        /\ cleanRect' = IF dx = 0 /\ dy = 0 THEN cr
                        ELSE CleanAfterMove(cr, v.x + dx, v.y + dy, w, h)
        /\ shown' = kept \cap InBox(Box(v.x, v.y, w, h)) \cap InBox(viewport')

(* Without clip, the viewport is the framebuffer whatever is asked for.      *)
Change(deltaX, deltaY, width, height, full, kept) ==
    IF clip THEN ViewportChange(deltaX, deltaY, width, height, full, kept)
    ELSE ViewportChange(0 - viewport.w, 0 - viewport.h, full.w, full.h, full, kept)

(* that.resize, from ServerInitialisation and DesktopSize, and from clear    *)
(* when a connection ends: what was drawn is gone, cleanRect stays.          *)
Resize(w, h) ==
    /\ fb' = [w |-> w, h |-> h]
    /\ Change(0, 0, viewport.w, viewport.h, fb', shown) /\ UNCHANGED <<clip, again>>

ClearView ==
    /\ fb' = Logo /\ Change(0, 0, viewport.w, viewport.h, fb', {})
    /\ again' = (again \/ shown # {}) /\ UNCHANGED clip

Scroll(deltaX, deltaY, width, height) ==
    /\ Change(deltaX, deltaY, width, height, fb, shown)
    /\ UNCHANGED <<clip, fb, again>>
-----------------------------------------------------------------------------
(* getCleanDirtyReset.                                                       *)
CleanBox(c) == Box(c.x1, c.y1, c.x2 - c.x1 + 1, c.y2 - c.y1 + 1)

AllDirty(c) == c.x1 >= c.x2 \/ c.y1 >= c.y2

DirtyBoxes(v, c) ==
    LET vx2    == v.x + v.w - 1
        vy2    == v.y + v.h - 1
        left   == Box(v.x, v.y, c.x1 - v.x + 1, v.h)
        right  == Box(c.x2 + 1, v.y, vx2 - c.x2, v.h)
        top    == Box(c.x1, v.y, c.x2 - c.x1 + 1, c.y1 - v.y)
        bottom == Box(c.x1, c.y2 + 1, c.x2 - c.x1 + 1, vy2 - c.y2)
    IN  IF AllDirty(c) THEN {v}
        ELSE (IF v.x < c.x1 THEN {left} ELSE {}) \cup (IF vx2 > c.x2 THEN {right} ELSE {})
             \cup (IF v.y < c.y1 THEN {top} ELSE {}) \cup (IF vy2 > c.y2 THEN {bottom} ELSE {})

InFull == UNION {InBox(b) : b \in DirtyBoxes(viewport, cleanRect)}

(* fbUpdateRequests.                                                         *)
FbUpdateRequests ==
    /\ cleanRect' = [x1 |-> viewport.x, y1 |-> viewport.y,
                     x2 |-> viewport.x + viewport.w - 1, y2 |-> viewport.y + viewport.h - 1]
    /\ shown' = shown \cup (InFull \cap InBox(viewport))
    /\ UNCHANGED <<clip, fb, viewport, again>>

ViewInit ==
    /\ clip \in BOOLEAN /\ fb = [w |-> 0, h |-> 0]
    /\ viewport = Box(0, 0, 0, 0) /\ cleanRect = [x1 |-> 0, y1 |-> 0, x2 |-> -1, y2 |-> -1]
    /\ shown = {} /\ again = FALSE

ViewNext ==
    \/ \E w \in 1..MaxWidth, h \in 1..MaxHeight : Resize(w, h)
    \/ \E dx \in -MaxMove..MaxMove, dy \in -MaxMove..MaxMove,
          w \in 1..MaxWidth, h \in 1..MaxHeight : Scroll(dx, dy, w, h)
    \/ FbUpdateRequests \/ ClearView

ViewSpec == ViewInit /\ [][ViewNext]_viewVars
-----------------------------------------------------------------------------
(* Whatever sequence of resizes and moves went before, the next requests of  *)
(* a first connection ask in full for every cell of the viewport that the    *)
(* server has not drawn.                                                     *)
BlankIsAskedFor == again \/ InBox(viewport) \subseteq shown \cup InFull
=============================================================================
