--------------------------- MODULE MCTapPlatform ---------------------------
EXTENDS TapPlatform, TLC

CONSTANTS k1, k2, a1, a2, r1, r2, q1, q2

MCKeys == {k1, k2}
MCCapturedUnder == (k1 :> a1) @@ (k2 :> a1)
MCBatches == {<<k1>>, <<k2>>, <<k1, k2>>}
MCOneBatch == {<<k1, k2>>}

(* The second item replays a tap of the first page on the second. *)
MCFeed == <<k1, k2, k1>>
MCShortFeed == <<k1, k2>>

Symmetry == Permutations({r1, r2})
=============================================================================
