--------------------------- MODULE MCSpiceDisplay ---------------------------
(* Two images, one with alpha, that go under one key in the cache.           *)
EXTENDS SpiceDisplay, Bitwise, TLC

TwoImages == {<<2, 4>>, <<4, 2>>}
OneSheer == {<<2, 4>>}
BitOr(a, b) == a | b

(* What the stream and what the cache do, without their product: a frame of  *)
(* the stream is never cached.  Of two JPEGs on their way, which may come in *)
(* either order, none is cached or has alpha.                                *)
Apart ==
    /\ cache.made => stream = NoSurface /\ Cardinality(pending) < 2
    /\ Cardinality(pending) > 1 => \A p \in pending : ~p.cacheMe /\ ~p.sheer
Spec == DisplayInit /\ [][DisplayNext /\ Apart']_displayVars

Alike == Permutations(Surfaces) \cup Permutations(Canvases)
=============================================================================
