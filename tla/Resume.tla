------------------------------- MODULE Resume -------------------------------
(***************************************************************************)
(* AutoDiagnoseLoop over a run directory: the M1 -> M5 cycle with its      *)
(* early stops, the checkpoint and heartbeat after a cycle, the hooks at   *)
(* the end, and what a crash leaves of it to the next process: a fresh     *)
(* loop, a resumed one, or the same instance run once more.                *)
(*                                                                         *)
(* checkpoint, heartbeat, stored, ragged, lessons and committed are on     *)
(* disk; the rest is a process's memory, except errors and tears, which    *)
(* count what went wrong on the disk.  The store is a JsonlStore, of which *)
(* results.jsonl is modelled: an append to it may fail or be cut short,    *)
(* and the loop goes on.                                                   *)
(***************************************************************************)
EXTENDS Naturals, FiniteSets

CONSTANTS
  MaxCycles,     \* max_cycles
  MaxHypotheses, \* bound: hypotheses of one diagnosis
  Analyzer,      \* those whose results a probe returns
  MaxNow,        \* bound: seconds the clock shows
  MaxFaults,     \* bound: appends that fail or are cut short
  AnalysisOnly,  \* diagnosis_agent is None
  None, Torn     \* no file, and one whose rewriting was cut short

Runs   == 0 .. MaxNow   \* a run's id is the second its loop was built in
Cycles == 0 .. MaxCycles
Mark   == [run : Runs, cycle : Cycles]
Line   == [run : Runs, cycle : Cycles, analyzer : Analyzer]

ASSUME ResumeAssumption ==
  /\ MaxCycles \in Nat \ {0} /\ MaxHypotheses \in Nat \ {0} /\ MaxNow \in Nat
  /\ AnalysisOnly \in BOOLEAN /\ MaxFaults \in Nat /\ IsFiniteSet(Analyzer)
  /\ None \notin Mark /\ Torn \notin Mark /\ None # Torn

VARIABLES
  now, checkpoint, heartbeat, lessons, committed,
  stored, ragged,        \* the lines a load returns; whether the file's last one is broken
  errors, tears,         \* appends that raised OSError, and that the process died in
  pc, runId,
  start, cycle,          \* range(start_cycle, max_cycles)
  pending,               \* results of the cycle's probe not yet appended
  todo, flat,            \* hypotheses left, consecutive cycles without confidence
  resolved, last         \* the report, and whether the cycle at hand ends the loop

store == <<stored, ragged, errors, tears>>
disk  == <<checkpoint, heartbeat, store, lessons, committed>>
loop  == <<runId, start, cycle, pending, todo, flat, resolved, last>>
vars  == <<now, disk, pc, loop>>

-----------------------------------------------------------------------------
Init ==
  /\ now = 0 /\ checkpoint = None /\ heartbeat = None
  /\ stored = {} /\ ragged = FALSE /\ errors = 0 /\ tears = 0
  /\ lessons = {} /\ committed = {}
  /\ pc = "off" /\ runId = 0 /\ start = 0 /\ cycle = 0 /\ pending = {}
  /\ todo = 0 /\ flat = 0 /\ resolved = FALSE /\ last = FALSE

Tick == now < MaxNow /\ now' = now + 1 /\ UNCHANGED <<disk, pc, loop>>

(* Mutant: resume at the last completed cycle. *)
StartOfMutant(r) ==
  IF checkpoint # None /\ checkpoint.run = r THEN checkpoint.cycle ELSE 0

(* The cycle a run with this id starts from; a checkpoint that is there can *)
(* be read (read_checkpoint takes one that cannot for a missing one).       *)
StartOf(r) ==
  IF checkpoint # None /\ checkpoint.run = r THEN checkpoint.cycle + 1 ELSE 0

Begin(r) ==
  /\ runId' = r /\ start' = StartOf(r) /\ cycle' = StartOf(r)
  /\ pending' = {} /\ todo' = 0 /\ flat' = 0 /\ resolved' = FALSE /\ last' = FALSE
  /\ pc' = "cycle"
  /\ UNCHANGED <<now, disk>>

(* A new AutoDiagnoseLoop on the run directory, and its run().              *)
Fresh == pc \in {"off", "returned"} /\ Begin(now)

(* AutoDiagnoseLoop.resume: the checkpoint's run id, if there is one.       *)
Resume ==
  /\ pc \in {"off", "returned"}
  /\ Begin(IF checkpoint = None THEN now ELSE checkpoint.run)

(* run() once more on the instance that returned, or raised.                *)
Again == pc = "returned" /\ Begin(runId)

-----------------------------------------------------------------------------
(* The range is through, or the tokens spent by the cycles of this process  *)
(* reach the budget.                                                        *)
Stop ==
  /\ pc = "cycle"
  /\ cycle >= MaxCycles \/ cycle > start
  /\ pc' = "end"
  /\ UNCHANGED <<now, disk, loop>>

(* Mutant: one cycle past the range. *)
ProbeMutant ==
  /\ pc = "cycle" /\ cycle <= MaxCycles
  /\ \/ pc' = "end" /\ UNCHANGED pending
     \/ pc' = "probed" /\ pending' = Analyzer
  /\ UNCHANGED <<now, disk, runId, start, cycle, todo, flat, resolved, last>>

(* M1: without results the loop ends; otherwise they are to be stored.      *)
Probe ==
  /\ pc = "cycle" /\ cycle < MaxCycles
  /\ \/ pc' = "end" /\ UNCHANGED pending
     \/ pc' = "probed" /\ pending' = Analyzer
  /\ UNCHANGED <<now, disk, runId, start, cycle, todo, flat, resolved, last>>

LineOf(a) == [run |-> runId, cycle |-> cycle, analyzer |-> a]

(* The next result is handed to the store.                                  *)
Hand(a) ==
  /\ pc = "probed" /\ a \in pending /\ pending' = pending \ {a}
  /\ UNCHANGED <<now, checkpoint, heartbeat, lessons, committed, pc, runId, start, cycle,
                 todo, flat, resolved, last>>

(* Mutant: a load stops at the first broken line. *)
AddResultMutant(a) ==
  /\ Hand(a)
  /\ stored' = IF ragged THEN stored ELSE stored \cup {LineOf(a)}
  /\ UNCHANGED <<ragged, errors, tears>>

(* The append writes a whole line.  It continues a broken one, if that is   *)
(* how the file ends, and a load skips the two as one malformed line.       *)
AddResult(a) ==
  /\ Hand(a)
  /\ stored' = IF ragged THEN stored ELSE stored \cup {LineOf(a)}
  /\ ragged' = FALSE
  /\ UNCHANGED <<errors, tears>>

(* The append raises OSError: nothing or a part of the line is written, a   *)
(* warning is logged and the loop goes on.                                  *)
AddFails(a) ==
  /\ Hand(a)
  /\ errors + tears < MaxFaults /\ errors' = errors + 1
  /\ ragged' \in {ragged, TRUE}
  /\ UNCHANGED <<stored, tears>>

(* M2 and M3: no diagnosis agent or no hypothesis completes the cycle and   *)
(* ends the loop.                                                           *)
Diagnose ==
  /\ pc = "probed" /\ pending = {}
  /\ \/ pc' = "mark" /\ last' = TRUE /\ UNCHANGED todo
     \/ /\ ~ AnalysisOnly
        /\ todo' \in 1 .. MaxHypotheses
        /\ pc' = "operate" /\ UNCHANGED last
  /\ UNCHANGED <<now, disk, runId, start, cycle, pending, flat, resolved>>

(* M5 on one hypothesis: a fix ends the loop with the cycle complete.       *)
Operate ==
  /\ pc = "operate" /\ todo > 0
  /\ todo' = todo - 1
  /\ \/ pc' = "mark" /\ resolved' = TRUE /\ last' = TRUE
     \/ UNCHANGED <<pc, resolved, last>>
  /\ UNCHANGED <<now, disk, runId, start, cycle, pending, flat>>

(* Two cycles running without confidence end the loop, the second one not   *)
(* marked complete.                                                         *)
Judge ==
  /\ pc = "operate" /\ todo = 0
  /\ flat' \in {0, flat + 1}
  /\ pc' = IF flat' = 2 THEN "end" ELSE "mark"
  /\ UNCHANGED <<now, disk, runId, start, cycle, pending, todo, resolved, last>>

(* Mutant: the heartbeat comes before the checkpoint. *)
SwappedMutant ==
  /\ pc = "mark"
  /\ IF heartbeat = [run |-> runId, cycle |-> cycle]
       THEN /\ checkpoint' = heartbeat /\ pc' = "beat"
            /\ UNCHANGED heartbeat
       ELSE /\ heartbeat' = [run |-> runId, cycle |-> cycle]
            /\ UNCHANGED <<pc, checkpoint>>
  /\ UNCHANGED <<now, store, lessons, committed, loop>>

(* _on_cycle_complete: the checkpoint is replaced, the heartbeat truncated  *)
(* and rewritten in place.                                                  *)
WriteCheckpoint ==
  /\ pc = "mark"
  /\ checkpoint' = [run |-> runId, cycle |-> cycle]
  /\ pc' = "beat"
  /\ UNCHANGED <<now, heartbeat, store, lessons, committed, loop>>

TruncateHeartbeat ==
  /\ pc = "beat" /\ heartbeat' = Torn /\ pc' = "beating"
  /\ UNCHANGED <<now, checkpoint, store, lessons, committed, loop>>

WriteHeartbeat ==
  /\ pc = "beating"
  /\ heartbeat' = [run |-> runId, cycle |-> cycle]
  /\ IF last THEN pc' = "end" /\ UNCHANGED cycle
             ELSE pc' = "cycle" /\ cycle' = cycle + 1
  /\ UNCHANGED <<now, checkpoint, store, lessons, committed, runId, start, pending,
                 todo, flat, resolved, last>>

(* _on_loop_end: a lesson of an unresolved run, then git: a resolved run is *)
(* committed, unless git fails; otherwise the working tree is reset.        *)
EndLoop ==
  /\ pc = "end"
  /\ lessons' = IF resolved THEN lessons ELSE lessons \cup {runId}
  /\ committed' \in {committed} \cup (IF resolved THEN {committed \cup {runId}} ELSE {})
  /\ pc' = "returned"
  /\ UNCHANGED <<now, checkpoint, heartbeat, store, loop>>

(* An agent's exception, or a checkpoint or heartbeat that cannot be        *)
(* written, leaves run() but not the instance.                              *)
Raise ==
  /\ pc \notin {"off", "returned"} /\ pc' = "returned" /\ pending' = {}
  /\ UNCHANGED <<now, disk, runId, start, cycle, todo, flat, resolved, last>>

(* The process dies: what it kept in memory is gone, and a line it was      *)
(* appending may be cut short.                                              *)
Crash ==
  /\ pc # "off"
  /\ \/ UNCHANGED <<ragged, tears>>
     \/ /\ pending # {} /\ errors + tears < MaxFaults
        /\ ragged' = TRUE /\ tears' = tears + 1
  /\ pc' = "off" /\ runId' = 0 /\ start' = 0 /\ cycle' = 0
  /\ pending' = {} /\ todo' = 0 /\ flat' = 0 /\ resolved' = FALSE /\ last' = FALSE
  /\ UNCHANGED <<now, checkpoint, heartbeat, stored, errors, lessons, committed>>

-----------------------------------------------------------------------------
Store == \E a \in Analyzer : AddResult(a) \/ AddFails(a)
Cycle == Stop \/ Probe \/ Store \/ Diagnose \/ Operate \/ Judge
Hooks == WriteCheckpoint \/ TruncateHeartbeat \/ WriteHeartbeat \/ EndLoop

Next == Tick \/ Fresh \/ Resume \/ Again \/ Cycle \/ Hooks \/ Raise \/ Crash

Spec == Init /\ [][Next]_vars

-----------------------------------------------------------------------------
(* Properties.                                                              *)

(* Every variable holds a value of its kind.                                *)
StoreOK ==
  /\ stored \subseteq Line /\ ragged \in BOOLEAN
  /\ errors \in Nat /\ tears \in Nat /\ errors + tears <= MaxFaults

TypeOK ==
  /\ now \in Runs
  /\ checkpoint \in Mark \cup {None} /\ heartbeat \in Mark \cup {None, Torn}
  /\ StoreOK /\ lessons \subseteq Runs /\ committed \subseteq Runs
  /\ pc \in {"off", "cycle", "probed", "operate", "mark", "beat", "beating", "end",
             "returned"}
  /\ runId \in Runs /\ start \in Cycles /\ cycle \in Cycles /\ pending \subseteq Analyzer
  /\ todo \in 0 .. MaxHypotheses /\ flat \in 0 .. 2
  /\ resolved \in BOOLEAN /\ last \in BOOLEAN

(* The checkpoint is a journal of its run's cycles: through crashes,        *)
(* resumptions and new loops on the directory a run takes up the cycle      *)
(* after its last complete one, never one of those, and skips none.         *)
Working == pc \in {"probed", "operate", "mark"}
J == INSTANCE Journal WITH
       NoWork <- None,
       run    <- IF checkpoint = None THEN 0 ELSE checkpoint.run,
       done   <- IF checkpoint = None THEN 0 ELSE checkpoint.cycle + 1,
       at     <- IF Working THEN [run |-> runId, cycle |-> cycle] ELSE None
ImplementsJournal == J!Spec

(* What the checkpoint calls complete is in the store, but for what faults  *)
(* of the disk cost: the result of an append that failed, and the one whose *)
(* line was appended to a broken one.  So a load lacks at most two results  *)
(* of complete cycles for each failed append and one for each crash that    *)
(* cut a line short, whichever process ran the cycles and however often     *)
(* one was killed; and none where nothing of that happened.                 *)
Completed ==
  {l \in Line : checkpoint # None /\ l.run = checkpoint.run /\ l.cycle <= checkpoint.cycle}
LossIsBounded == Cardinality(Completed \ stored) <= 2 * errors + tears

(* The heartbeat never tells of a cycle that a resumption would run again:  *)
(* it is unreadable, of another run, or not ahead of the checkpoint.        *)
HeartbeatFollows ==
  heartbeat \in Mark =>
    /\ checkpoint # None
    /\ heartbeat.run = checkpoint.run => heartbeat.cycle <= checkpoint.cycle
=============================================================================
