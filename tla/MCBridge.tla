------------------------------ MODULE MCBridge ------------------------------
(* Bridge on a recorded case k1 and a case k2 that has no record.  The code *)
(* may say a, which is also what k1's record says, or b.  The main run takes *)
(* a for the blank answer, so that blank records and replies occur too.      *)
EXTENDS Bridge, TLC
CONSTANTS a, b, k1, k2, e1
MCObserved == (k1 :> a) @@ (k2 :> Missing)

(* A big enhanced request with a big reply, and two kinds of direct call.  *)
BigEnhanced == {[case |-> k1, sig |-> e1]}
MCRequest   == BigEnhanced \cup {[case |-> k1, sig |-> "live"], [case |-> k2, sig |-> "direct"]}
=============================================================================
