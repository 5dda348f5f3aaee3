----------------------------- MODULE MCFixLadder -----------------------------
(* Two rungs stand for the five.  A validation past the gate on one pair, *)
(* one below it on enough pairs, a significant regression, and one without  *)
(* an e-value: two of them cull the first, and the regression revives it.   *)
EXTENDS FixLadder, TLC

MCCeilings == {NoTier, 0, L4}
MCResults  == {[e |-> 3, gain |-> 1, pairs |-> 1], [e |-> 1, gain |-> 1, pairs |-> 2],
               [e |-> 4, gain |-> -1, pairs |-> 2], [e |-> -1, gain |-> 0, pairs |-> 0]}
=============================================================================
