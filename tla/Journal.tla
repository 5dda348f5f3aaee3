------------------------------- MODULE Journal -------------------------------
(***************************************************************************)
(* What a run directory promises about the cycles of a diagnosis run: they *)
(* are worked through one after the other from the first, a completed one  *)
(* is never worked on again and none is left out, however often the run is *)
(* broken off and taken up, and no run completes more than MaxCycles.  A   *)
(* new run starts a new journal with its first completed cycle.            *)
(***************************************************************************)
EXTENDS Naturals

CONSTANTS Runs, MaxCycles, NoWork

VARIABLES
  run,   \* the run whose journal it is
  done,  \* how many of its cycles are complete: 0 .. done - 1
  at     \* the cycle at hand, [run, cycle], or NoWork

Following(r) == IF r = run THEN done ELSE 0

Init == run \in Runs /\ done = 0 /\ at = NoWork

Take ==
  \E r \in Runs :
    /\ at = NoWork /\ Following(r) < MaxCycles
    /\ at' = [run |-> r, cycle |-> Following(r)]
    /\ UNCHANGED <<run, done>>

Complete ==
  /\ at # NoWork
  /\ run' = at.run /\ done' = at.cycle + 1
  /\ at' = NoWork

Drop == at # NoWork /\ at' = NoWork /\ UNCHANGED <<run, done>>

Next == Take \/ Complete \/ Drop

Spec == Init /\ [][Next]_<<run, done, at>>
=============================================================================
