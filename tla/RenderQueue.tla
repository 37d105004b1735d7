----------------------------- MODULE RenderQueue -----------------------------
(* The drawing queue of the VNC console: novnc/display.js, and the encodings *)
(* of rfb.js that draw.  A JPEG or PNG is decoded by the browser in its own  *)
(* time, so what must not overtake it waits behind it in renderQ, which is   *)
(* scanned when its first action comes and then once per animation frame.    *)
(* Only Tight and CopyRect use the queue: Raw, RRE and Hextile draw at once. *)
(* A definition X_Name before Name is Name with a fault, for the mutants.    *)
EXTENDS Integers, Sequences, SequencesExt

CONSTANTS
    Cells,         \* of the framebuffer, numbered from 1
    Colours,       \* what a cell can show
    MaxQueue,      \* bound: actions that wait
    MaxFrames      \* bound: animation frames asked for

ASSUME CellsAssumption == Cells \subseteq Nat /\ \A i, j \in Cells : i..j \subseteq Cells

Blank == "blank"   \* a cell of the cleared canvas

VARIABLES
    canvas,        \* what each cell shows
    renderQ,       \* display.js: the same
    frames,        \* calls of scan_renderQ the browser owes us
    sentInOrder,   \* history: the canvas, had each action been drawn as it came
    mixed          \* history: something was drawn at once while others waited

queueVars == <<canvas, renderQ, frames, sentInOrder, mixed>>

(* The types of the queue's actions, by what they do: fill, blit and blitRgb *)
(* paint cells, img paints them once it is complete, copy copies a strip.    *)
Paint(type, at, c) == [type |-> type, at |-> at, colour |-> c, by |-> 0, complete |-> type = "fill"]
Copy(at, by) == [type |-> "copy", at |-> at, colour |-> Blank, by |-> by, complete |-> TRUE]

Rects == {i..j : i, j \in Cells} \ {{}}
Actions == {Paint(t, at, c) : t \in {"fill", "img"}, at \in Rects, c \in Colours}
           \cup {Copy(at, by) : at \in Rects, by \in {-1, 1}}
Fits(a) == \A c \in a.at : c + a.by \in Cells

Draw(a, old) ==
    [c \in Cells |-> IF c \notin a.at THEN old[c]
                     ELSE IF a.type = "copy" THEN old[c + a.by] ELSE a.colour]

DrawAll(q, old) == FoldLeft(LAMBDA shown, a : Draw(a, shown), old, q)

(* scan_renderQ: draw up to the first image that is not complete, and come   *)
(* back with the next frame if there is one.                                 *)
X_Scan(q, owed) ==                   \* what is complete overtakes what is not
    LET waiting == SelectSeq(q, LAMBDA a : ~a.complete)
    IN  /\ canvas' = DrawAll(SelectSeq(q, LAMBDA a : a.complete), canvas)
        /\ renderQ' = waiting
        /\ frames' = owed + (IF waiting # <<>> THEN 1 ELSE 0)

Scan(q, owed) ==
    LET first == SelectInSeq(q, LAMBDA a : ~a.complete)
        n     == IF first = 0 THEN Len(q) ELSE first - 1
    IN  /\ canvas' = DrawAll(SubSeq(q, 1, n), canvas)
        /\ renderQ' = SubSeq(q, n + 1, Len(q))
        /\ frames' = owed + (IF n < Len(q) THEN 1 ELSE 0)

QueueInit ==
    /\ canvas = [c \in Cells |-> Blank] /\ sentInOrder = canvas
    /\ renderQ = <<>> /\ frames = 0 /\ mixed = FALSE

(* display.renderQ_push, of COPYRECT and TIGHT.                              *)
RenderQPush(a) ==
    /\ Fits(a) /\ Len(renderQ) < MaxQueue /\ frames < MaxFrames
    /\ sentInOrder' = Draw(a, sentInOrder)
    /\ IF renderQ = <<>> THEN Scan(<<a>>, frames)
       ELSE renderQ' = Append(renderQ, a) /\ UNCHANGED <<canvas, frames>>
    /\ UNCHANGED mixed

(* blitImage, fillRect and the tiles, of RAW, RRE and HEXTILE.               *)
DrawAtOnce(a) ==
    /\ a.type = "fill"
    /\ sentInOrder' = Draw(a, sentInOrder) /\ canvas' = Draw(a, canvas)
    /\ mixed' = (mixed \/ renderQ # <<>>)
    /\ UNCHANGED <<renderQ, frames>>

(* The browser has decoded an image.                                         *)
ImageComplete(i) ==
    /\ i \in DOMAIN renderQ /\ ~renderQ[i].complete
    /\ renderQ' = [renderQ EXCEPT ![i].complete = TRUE]
    /\ UNCHANGED <<canvas, frames, sentInOrder, mixed>>

AnimFrame ==
    /\ frames > 0 /\ Scan(renderQ, frames - 1)
    /\ UNCHANGED <<sentInOrder, mixed>>

(* that.clear, when the connection ends: the frames owed are not cancelled.  *)
X_ClearQueue ==                            \* the queue is kept, its scanner is not
    /\ canvas' = [c \in Cells |-> Blank] /\ sentInOrder' = DrawAll(renderQ, canvas')
    /\ frames' = 0 /\ mixed' = FALSE /\ UNCHANGED renderQ

ClearQueue ==
    /\ canvas' = [c \in Cells |-> Blank] /\ sentInOrder' = canvas'
    /\ renderQ' = <<>> /\ mixed' = FALSE /\ UNCHANGED frames

QueueNext ==
    \/ \E a \in Actions : RenderQPush(a) \/ DrawAtOnce(a)
    \/ \E i \in DOMAIN renderQ : ImageComplete(i)
    \/ AnimFrame \/ ClearQueue

QueueSpec == QueueInit /\ [][QueueNext]_queueVars /\ WF_queueVars(AnimFrame)
-----------------------------------------------------------------------------
(* Whatever the order in which images become complete, the canvas ends as if *)
(* every rectangle had been drawn when it came, provided that all that came  *)
(* while others waited went through the queue.                               *)
QueuedInOrder == mixed \/ DrawAll(renderQ, canvas) = sentInOrder

(* Something that waits in the queue always has a frame coming that will     *)
(* scan it again: also after a connection was closed while images waited and *)
(* its frames outlived it.                                                   *)
AlwaysScanned == renderQ # <<>> => frames > 0
=============================================================================
