---------------------------- MODULE SpiceDisplay ----------------------------
(* The display channel of the SPICE console: spice-html5/display.js and the  *)
(* 64-bit reads of spicedataview.js.  Surfaces are canvases; pictures are    *)
(* drawn in the order of the messages, but for JPEGs, which the browser      *)
(* decodes and hands back with onload when it is done; the server keeps      *)
(* count of the images it told the client to cache.  One part of each        *)
(* surface is followed, which every picture that is drawn covers; a surface  *)
(* whose format is not handled, which is never made, is left out.            *)
(* A definition X_Name before Name is Name with a fault, for the mutants.    *)
EXTENDS Integers, FiniteSets, Functions

CONSTANTS
    Surfaces,      \* surface ids; the server uses an id again after a destroy
    Images,        \* image ids, pairs <<high, low>> of the two 32-bit halves
    Translucent,   \* the images that have alpha
    Canvases,      \* bound: canvases in use at a time
    MaxPending,    \* bound: JPEGs being decoded
    OrBits(_, _)   \* the bitwise | of two numbers of 32 bits

VARIABLES
    surfaces,      \* the canvas of each surface, or NoCanvas
    primary_surface,
    onScreen,      \* the canvases in the page
    hooked,        \* the canvases with the event handlers
    argb,          \* the canvases of surfaces whose format has alpha
    paint,         \* of each canvas: "blank", "sheer" (alpha shows) or "solid"
    cache,         \* made, and the pictures in it by the id they go under
    pending,       \* images with onload: surface, its canvas then, image, ...
    stream,        \* the surface of the stream, or NoSurface
    ended, displayDeaf,   \* the connection was stopped; a handler threw
    right,         \* the canvases that show what the server drew on them last
    doubt,         \* history: canvases whose last picture the client cannot draw
    serverCache    \* external and history: what the server had cached, see Ledger

surfaceVars == <<surfaces, primary_surface, onScreen, hooked, argb>>
pictureVars == <<right, doubt, paint>>
displayVars == <<surfaceVars, pictureVars, cache, pending, stream, ended, displayDeaf, serverCache>>

NoCanvas == 0
NoSurface == 0

ASSUME DisplayAssumption ==
    /\ NoCanvas \notin Canvases /\ NoSurface \notin Surfaces
    /\ Translucent \subseteq Images

(* getUint64: a shift by 32 is none, so that the two halves are or'ed.       *)
Keys == [id \in Images |-> OrBits(id[1], id[2])]
getUint64(id) == Keys[id]
SameKey(id) == {other \in Images : getUint64(other) = getUint64(id)}

Exists(s) == ~displayDeaf /\ ~ended /\ surfaces[s] # NoCanvas
Loading(c) == \E p \in pending : p.canvas = c
Free == Canvases \ (Range(surfaces) \cup {p.canvas : p \in pending})
-----------------------------------------------------------------------------
(* ImageData: an image with its own alpha, with none, with the blue that a   *)
(* bitmap of format RGBA is given for it, or a cut from the canvas.          *)
Picture(id, alpha) == [image |-> id, alpha |-> alpha]
Sheer(picture) == picture.image \in Translucent /\ picture.alpha \in {"own", "wrong"}
AsSent(picture, c) ==
    IF picture.image \in Translucent /\ c \in argb THEN picture.alpha = "own" ELSE picture.alpha # "cut"

stripAlpha(picture) == IF Sheer(picture) THEN Picture(picture.image, "none") ELSE picture
(* What draw_copy_helper leaves of the ImageData: on a surface without alpha *)
(* it is stripped, in the cache as well.                                     *)
Drawn(picture, c) == IF c \in argb THEN picture ELSE stripAlpha(picture)

(* Where alpha counts, putImageDataWithAlpha blends.                         *)
Blends(sheer, c) == sheer /\ c \in argb /\ paint[c] # "blank"
Painted(sheer, c) == IF c \in argb /\ sheer /\ paint[c] # "solid" THEN "sheer" ELSE "solid"

(* A picture put on the canvas of s at once: whether it is what the server   *)
(* means, whether alpha shows in it, and whether the client says it can draw *)
(* it.  JPEGs of that canvas that are on their way are not the last any more.*)
Overtaken(c) == {IF p.canvas = c THEN [p EXCEPT !.last = FALSE] ELSE p : p \in pending}
Draw(s, asSent, sheer, can) ==
    LET c == surfaces[s]
    IN  /\ right' = IF asSent /\ ~Blends(sheer, c) THEN right \cup {c} ELSE right \ {c}
        /\ paint' = [paint EXCEPT ![c] = Painted(sheer, c)]
        /\ doubt' = IF can /\ ~Blends(sheer, c) THEN doubt \ {c} ELSE doubt \cup {c}
        /\ pending' = Overtaken(c)

(* A picture that is not drawn: a FIXME in the log.                          *)
NotDrawn(s, can) ==
    LET c == surfaces[s]
    IN  /\ right' = right \ {c} /\ UNCHANGED paint
        /\ doubt' = IF can THEN doubt \ {c} ELSE doubt \cup {c}
        /\ pending' = Overtaken(c)

(* The cache with one more picture; the message that caches makes it first.  *)
X_Cached(id, picture) ==                  \* what has the key already stays
    [made |-> TRUE, of |-> [k \in DOMAIN cache.of \cup {getUint64(id)} |->
                              IF k \in DOMAIN cache.of THEN cache.of[k] ELSE picture]]
Cached(id, picture) ==
    [made |-> TRUE, of |-> [k \in DOMAIN cache.of \cup {getUint64(id)} |->
                              IF k = getUint64(id) THEN picture ELSE cache.of[k]]]

(* What the server may expect of an image it had cached, from what it sent:  *)
(* "out" is not cached, "whole" as sent, "flat" perhaps without its alpha,   *)
(* "lost" unknown.  Every image with the same key is concerned.              *)
Ledger(id, state) ==
    [other \in Images |-> IF other = id THEN state
                          ELSE IF other \in SameKey(id) /\ serverCache[other] # "out" THEN "lost"
                          ELSE serverCache[other]]
Flattened(id) ==
    [other \in Images |-> IF other \in SameKey(id) \cap Translucent /\ serverCache[other] = "whole"
                          THEN "flat" ELSE serverCache[other]]
Lasting(picture) ==
    IF picture.alpha = "own" THEN "whole" ELSE IF picture.alpha = "none" THEN "flat" ELSE "lost"

(* DRAW_COPY of a QUIC, LZ or plain bitmap, with CACHE_ME or without; plain  *)
(* means no clip, no mask, the whole source and SPICE_ROPD_OP_PUT, the rest  *)
(* being drawn as if it were.                                                *)
CacheMe(id) == serverCache[id] = "out"
DrawBitmap(s, id, alpha, plain, cacheMe) ==
    LET c == surfaces[s]  picture == Picture(id, alpha)
    IN  /\ Exists(s) /\ (cacheMe => CacheMe(id))
        /\ alpha = "wrong" => id \in Translucent
        /\ Draw(s, plain /\ AsSent(picture, c), Sheer(picture), plain /\ AsSent(picture, c))
        /\ IF cacheMe THEN /\ cache' = Cached(id, Drawn(picture, c))
                           /\ serverCache' = Ledger(id, Lasting(Drawn(picture, c)))
                      ELSE UNCHANGED <<cache, serverCache>>
        /\ UNCHANGED <<surfaceVars, stream, ended, displayDeaf>>
(* Of a format or a type that is not handled, or of no image.                *)
DrawUnknown(s, id, cacheMe) ==
    /\ Exists(s) /\ (cacheMe => CacheMe(id))
    /\ NotDrawn(s, FALSE)
    /\ serverCache' = IF cacheMe THEN [serverCache EXCEPT ![id] = "lost"] ELSE serverCache
    /\ UNCHANGED <<surfaceVars, cache, stream, ended, displayDeaf>>

(* DRAW_COPY from the cache: an image that is not there is not drawn.        *)
DrawFromCache(s, id, plain) ==
    LET c == surfaces[s]  k == getUint64(id)
        usable == serverCache[id] = "whole" \/ (serverCache[id] = "flat" /\ c \notin argb)
    IN  /\ Exists(s) /\ serverCache[id] # "out"
        /\ IF k \notin DOMAIN cache.of
           THEN NotDrawn(s, plain /\ usable) /\ UNCHANGED <<cache, serverCache>>
           ELSE LET picture == cache.of[k]
                IN  /\ Draw(s, plain /\ picture.image = id /\ AsSent(picture, c), Sheer(picture),
                            plain /\ usable)
                    /\ cache' = [cache EXCEPT !.of[k] = Drawn(@, c)]
                    /\ serverCache' = IF c \in argb THEN serverCache ELSE Flattened(id)
        /\ UNCHANGED <<surfaceVars, stream, ended, displayDeaf>>

(* DRAW_COPY from a surface, and COPY_BITS within one.                       *)
DrawSurface(s, from, plain) ==
    LET source == surfaces[from]
    IN  /\ Exists(s) /\ Exists(from)
        /\ Draw(s, plain /\ source \in right, paint[source] # "solid",
                plain /\ source \notin doubt /\ ~Loading(source))
        /\ UNCHANGED <<surfaceVars, cache, stream, ended, displayDeaf, serverCache>>

(* DRAW_FILL: only a solid brush is drawn.                                   *)
DrawFill(s, solid, plain) ==
    /\ Exists(s)
    /\ IF solid THEN Draw(s, plain, FALSE, plain) ELSE NotDrawn(s, FALSE)
    /\ UNCHANGED <<surfaceVars, cache, stream, ended, displayDeaf, serverCache>>

(* DRAW_COPY of a JPEG, with an image of its alpha if that counts: onload    *)
(* will draw it.                                                             *)
Decode(s, id, plain, cacheMe) ==
    LET c == surfaces[s]  sheer == id \in Translucent /\ c \in argb
    IN  /\ Exists(s) /\ Cardinality(pending) < MaxPending
        /\ pending' = Overtaken(c) \cup {[surface |-> s, canvas |-> c, image |-> id, sheer |-> sheer,
                                          plain |-> plain, cacheMe |-> cacheMe, last |-> TRUE]}
        /\ right' = right \ {c}
        /\ doubt' = IF plain /\ ~(sheer /\ (paint[c] # "blank" \/ Loading(c)))
                    THEN doubt \ {c} ELSE doubt \cup {c}
        /\ UNCHANGED paint
DrawJpeg(s, id, plain, cacheMe) ==
    /\ Decode(s, id, plain, cacheMe) /\ (cacheMe => CacheMe(id))
    /\ serverCache' = IF cacheMe THEN [serverCache EXCEPT ![id] = "lost"] ELSE serverCache
    /\ UNCHANGED <<surfaceVars, cache, stream, ended, displayDeaf>>

(* handle_draw_jpeg_onload: on the surface that has the id now, or on a      *)
(* canvas of its own if there is none.  After stop there is no list to look  *)
(* it up in.  A JPEG that comes after a later picture is in the way of it.   *)
(* Without an image of its alpha the box it was drawn to is what is cached.  *)
Late(p) == ~p.last /\ ~\E q \in pending : q.canvas = p.canvas /\ q.last
Grabbed(p) == IF p.sheer THEN Picture(p.image, "own")
           ELSE IF p.plain THEN stripAlpha(Picture(p.image, "own")) ELSE Picture(p.image, "cut")
Onload(p) ==
    LET c == surfaces[p.surface]
        own == c = p.canvas
    IN  /\ p \in pending /\ pending' = pending \ {p}
        /\ IF c = NoCanvas \/ ended THEN UNCHANGED pictureVars
           ELSE /\ right' = IF own /\ p.last /\ p.plain /\ ~Blends(p.sheer, c)
                            THEN right \cup {c} ELSE right \ {c}
                /\ paint' = [paint EXCEPT ![c] = Painted(p.sheer, c)]
                /\ doubt' = IF own /\ ~Late(p) THEN doubt ELSE doubt \cup {c}
        /\ IF p.cacheMe /\ ~ended
           THEN /\ cache' = Cached(p.image, Grabbed(p))
                /\ serverCache' = Ledger(p.image, IF serverCache[p.image] = "out" THEN "out" ELSE Lasting(Grabbed(p)))
           ELSE UNCHANGED <<cache, serverCache>>
        /\ UNCHANGED <<surfaceVars, stream, ended, displayDeaf>>

(* INVAL_LIST; there is no cache to look in before the first is cached.      *)
InvalList(ids) ==
    /\ ~displayDeaf /\ ~ended /\ ids # {} /\ \A id \in ids : serverCache[id] # "out"
    /\ serverCache' = [other \in Images |->
                         IF other \in ids \/ serverCache[other] = "out" THEN "out"
                         ELSE IF \E id \in ids : other \in SameKey(id) THEN "lost"
                         ELSE serverCache[other]]
    /\ displayDeaf' = ~cache.made
    /\ cache' = [cache EXCEPT !.of = Restrict(@, DOMAIN @ \ {getUint64(id) : id \in ids})]
    /\ UNCHANGED <<surfaceVars, pictureVars, pending, stream, ended>>
-----------------------------------------------------------------------------
(* hook_events and unhook_events, of the canvas of the primary surface.       *)
HookEvents(c)   == hooked' = hooked \cup {c}
UnhookEvents(c) == hooked' = hooked \ {c}

SurfaceCreate(s, primary, alpha) ==
    /\ ~displayDeaf /\ ~ended /\ surfaces[s] = NoCanvas
    /\ primary => primary_surface = NoSurface
    /\ \E c \in Free :
         /\ surfaces' = [surfaces EXCEPT ![s] = c]
         /\ argb' = IF alpha THEN argb \cup {c} ELSE argb
         /\ right' = right \cup {c} /\ doubt' = doubt \ {c}
         /\ paint' = [paint EXCEPT ![c] = IF alpha THEN "blank" ELSE "solid"]
         /\ IF primary THEN primary_surface' = s /\ onScreen' = onScreen \cup {c} /\ HookEvents(c)
                       ELSE UNCHANGED <<primary_surface, onScreen, hooked>>
    /\ UNCHANGED <<cache, pending, stream, ended, displayDeaf, serverCache>>

Forgotten(canvases) ==
    /\ argb' = argb \ canvases /\ right' = right \ canvases /\ doubt' = doubt \ canvases
    /\ paint' = [c \in Canvases |-> IF c \in canvases THEN "solid" ELSE paint[c]]

(* delete_surface for a surface, or for all when the session stops.          *)
X_Delete(gone) ==                         \* the events stay
    /\ surfaces' = [s \in Surfaces |-> IF s \in gone THEN NoCanvas ELSE surfaces[s]]
    /\ IF primary_surface \in gone
       THEN /\ primary_surface' = NoSurface
            /\ onScreen' = onScreen \ {surfaces[primary_surface]} /\ UNCHANGED hooked
       ELSE UNCHANGED <<primary_surface, onScreen, hooked>>
    /\ Forgotten({surfaces[s] : s \in gone})
    /\ UNCHANGED <<cache, pending, stream, displayDeaf, serverCache>>

Delete(gone) ==
    /\ surfaces' = [s \in Surfaces |-> IF s \in gone THEN NoCanvas ELSE surfaces[s]]
    /\ IF primary_surface \in gone
       THEN /\ primary_surface' = NoSurface
            /\ onScreen' = onScreen \ {surfaces[primary_surface]}
            /\ UnhookEvents(surfaces[primary_surface])
       ELSE UNCHANGED <<primary_surface, onScreen, hooked>>
    /\ Forgotten({surfaces[s] : s \in gone})
    /\ UNCHANGED <<cache, pending, stream, displayDeaf, serverCache>>

SurfaceDestroy(s) == Exists(s) /\ Delete({s}) /\ UNCHANGED ended
DisplayStop == ~ended /\ ended' = TRUE /\ Delete({s \in Surfaces : surfaces[s] # NoCanvas})

StreamCreate(s) ==
    /\ Exists(s) /\ stream = NoSurface /\ stream' = s
    /\ UNCHANGED <<surfaceVars, pictureVars, cache, pending, ended, displayDeaf, serverCache>>
StreamData(image, plain) ==
    /\ stream # NoSurface /\ Decode(stream, image, plain, FALSE)
    /\ UNCHANGED <<surfaceVars, cache, stream, ended, displayDeaf, serverCache>>
StreamDestroy ==
    /\ ~displayDeaf /\ ~ended /\ stream # NoSurface /\ stream' = NoSurface
    /\ UNCHANGED <<surfaceVars, pictureVars, cache, pending, ended, displayDeaf, serverCache>>

DisplayInit ==
    /\ surfaces = [s \in Surfaces |-> NoCanvas] /\ primary_surface = NoSurface
    /\ onScreen = {} /\ hooked = {} /\ argb = {} /\ paint = [c \in Canvases |-> "solid"]
    /\ cache = [made |-> FALSE, of |-> <<>>] /\ pending = {} /\ stream = NoSurface
    /\ ended = FALSE /\ displayDeaf = FALSE
    /\ right = {} /\ doubt = {} /\ serverCache = [id \in Images |-> "out"]

DrawNext(s) ==
    \/ \E id \in Images, cacheMe, plain \in BOOLEAN :
         \/ \E alpha \in {"own", "wrong"} : DrawBitmap(s, id, alpha, plain, cacheMe)
         \/ DrawUnknown(s, id, cacheMe) \/ DrawJpeg(s, id, plain, cacheMe) \/ DrawFromCache(s, id, plain)
    \/ \E plain \in BOOLEAN :
         \/ \E from \in Surfaces : DrawSurface(s, from, plain)
         \/ \E solid \in BOOLEAN : DrawFill(s, solid, plain)
DisplayNext ==
    \/ \E s \in Surfaces :
         \/ DrawNext(s) \/ SurfaceDestroy(s) \/ StreamCreate(s)
         \/ \E primary, alpha \in BOOLEAN : SurfaceCreate(s, primary, alpha)
    \/ \E id \in Images \ Translucent, plain \in BOOLEAN : StreamData(id, plain)
    \/ \E p \in pending : Onload(p)
    \/ \E ids \in SUBSET Images : InvalList(ids)
    \/ StreamDestroy \/ DisplayStop
DisplaySpec == DisplayInit /\ [][DisplayNext]_displayVars
-----------------------------------------------------------------------------
(* A surface shows the picture the server sent last for it, from wherever it *)
(* came, the cache included, whatever the browser decodes when and whatever  *)
(* was drawn, cached and forgotten before.  Doubt names the exceptions: the  *)
(* kinds of pictures the client says it does not draw, or draws as if they   *)
(* were plain; alpha that would have to replace what is there; an image the  *)
(* server believes to be cached but that came in such a kind, is still being *)
(* decoded, was flattened by a surface without alpha or shares its key; what *)
(* is copied from such a surface; and a JPEG that came back too late.        *)
LastPictureShows ==
    \A s \in Surfaces : LET c == surfaces[s] IN
        Exists(s) /\ c \notin doubt /\ ~Loading(c) => c \in right

(* The page shows the primary surface and listens to it, and to nothing      *)
(* else, whatever surfaces came and went and after the connection stopped.   *)
PrimaryHasTheEvents ==
    LET primary == {surfaces[s] : s \in {primary_surface} \ {NoSurface}}
    IN  onScreen = primary /\ hooked = primary
=============================================================================
