---------------------------- MODULE ResumeProofs ----------------------------
(***************************************************************************)
(* The run directory is a journal of the run's cycles, for any number of   *)
(* cycles and hypotheses and any clock.                                    *)
(***************************************************************************)
EXTENDS Resume, FiniteSetTheorems, TLAPS

(* A process works on the cycle after its run's last complete one.         *)
Alive  == pc \in {"cycle", "probed", "operate", "mark", "beat", "beating"}
InTurn ==
  /\ Alive => flat <= 1
  /\ pc # "probed" => pending = {}
  /\ pc \in {"cycle", "probed", "operate", "mark"} => cycle = StartOf(runId)
  /\ pc \in {"probed", "operate", "mark", "beat", "beating"} => cycle < MaxCycles
  /\ pc \in {"beat", "beating"} => checkpoint = [run |-> runId, cycle |-> cycle]
  /\ checkpoint # None => checkpoint.cycle < MaxCycles

(* Runs come in the order of their ids: a live process is of the           *)
(* checkpoint's run or a later one, the heartbeat of it or an earlier one. *)
RunsInOrder ==
  /\ checkpoint # None => checkpoint.run <= now
  /\ pc # "off" => runId <= now /\ (checkpoint # None => checkpoint.run <= runId)
  /\ heartbeat \in Mark => checkpoint # None /\ heartbeat.run <= checkpoint.run

IInv == TypeOK /\ InTurn /\ RunsInOrder /\ HeartbeatFollows

(* A step that does not write to the store leaves it well-typed.           *)
LEMMA StoreKept ==
  ASSUME StoreOK, UNCHANGED store
  PROVE  StoreOK'
  BY Zenon DEF StoreOK, store

(* The invariant holds initially.                                          *)
THEOREM InitIInv == Init => IInv
<1> SUFFICES ASSUME Init PROVE IInv
  OBVIOUS
<1> USE ResumeAssumption DEF Init
<1>1. 0 \in Runs /\ 0 \in Cycles /\ 0 \in 0 .. MaxHypotheses
  BY DEF Runs, Cycles
<1>2. resolved \in BOOLEAN /\ last \in BOOLEAN
  BY Zenon
<1>3. TypeOK
  <2>1. 0 \in 0 .. 2
    OBVIOUS
  <2>2. /\ now \in Runs /\ runId \in Runs /\ start \in Cycles /\ cycle \in Cycles
        /\ todo \in 0 .. MaxHypotheses /\ flat \in 0 .. 2
    BY <1>1, <2>1, Zenon
  <2>3. /\ checkpoint \in Mark \cup {None} /\ heartbeat \in Mark \cup {None, Torn}
        /\ lessons \subseteq Runs /\ committed \subseteq Runs
        /\ pending \subseteq Analyzer
        /\ pc \in {"off", "cycle", "probed", "operate", "mark", "beat", "beating", "end",
                   "returned"}
    BY Zenon
  <2>4. errors \in Nat /\ tears \in Nat /\ errors + tears <= MaxFaults
    OBVIOUS
  <2>5. stored \subseteq Line /\ ragged \in BOOLEAN
    BY Zenon
  <2> QED BY <1>2, <2>2, <2>3, <2>4, <2>5, Zenon DEF TypeOK, StoreOK
<1> QED BY <1>3 DEF IInv, InTurn, Alive, RunsInOrder, HeartbeatFollows

(* The cycle a run starts from is one of the range, or just past it.       *)
LEMMA StartIsACycle ==
  ASSUME TypeOK, InTurn, NEW r \in Runs
  PROVE  StartOf(r) \in Cycles
  BY ResumeAssumption DEF TypeOK, InTurn, StartOf, Cycles, Mark
-----------------------------------------------------------------------------
(* A run that begins, at whatever cycle the checkpoint gives it, keeps    *)
(* the invariant.                                                         *)
LEMMA BeginKeeps ==
  ASSUME IInv, NEW r \in Runs, Begin(r), r <= now, checkpoint # None => checkpoint.run <= r
  PROVE  IInv'
<1> USE ResumeAssumption DEF IInv, Begin, disk
<1>1. StartOf(r) \in Cycles
  BY StartIsACycle
<1>2. TypeOK'
  <2>1. 0 \in 0 .. MaxHypotheses /\ 0 \in 0 .. 2
    OBVIOUS
  <2> QED BY <1>1, <2>1, StoreKept DEF TypeOK
<1>3. InTurn'
  BY DEF InTurn, Alive, StartOf
<1>4. RunsInOrder' /\ HeartbeatFollows'
  BY DEF RunsInOrder, HeartbeatFollows
<1> QED BY <1>2, <1>3, <1>4

(* A fresh loop, a resumed one and a second run keep the invariant.       *)
LEMMA StartKeeps ==
  ASSUME IInv, Fresh \/ Resume \/ Again
  PROVE  IInv'
<1>1. CASE Fresh
  BY <1>1, BeginKeeps, ResumeAssumption DEF Fresh, IInv, TypeOK, RunsInOrder, Runs
<1>2. CASE Resume
  <2>1. CASE checkpoint = None
    BY <1>2, <2>1, BeginKeeps, ResumeAssumption DEF Resume, IInv, TypeOK, Runs
  <2>2. CASE checkpoint # None
    <3>1. checkpoint.run \in Runs /\ checkpoint.run <= now
      BY <2>2 DEF IInv, TypeOK, RunsInOrder, Mark
    <3> QED BY <1>2, <2>2, <3>1, BeginKeeps, ResumeAssumption DEF Resume, Runs
  <2> QED BY <2>1, <2>2
<1>3. CASE Again
  BY <1>3, BeginKeeps DEF Again, IInv, TypeOK, RunsInOrder
<1> QED BY <1>1, <1>2, <1>3

(* Working on the hypotheses of a cycle touches neither disk nor cycle.    *)
LEMMA WorkKeeps ==
  ASSUME IInv,
         todo' \in 0 .. MaxHypotheses, resolved' \in BOOLEAN, last' \in BOOLEAN,
         pc \in {"probed", "operate"}, pc' \in {"mark", "operate"},
         UNCHANGED <<now, checkpoint, heartbeat, store, lessons, committed>>,
         UNCHANGED <<runId, start, cycle, flat>>, pending = {}, pending' = {}
  PROVE  IInv'
<1> USE DEF IInv
<1>1. TypeOK'
  <2>1. pc' \in {"off", "cycle", "probed", "operate", "mark", "beat", "beating", "end",
                 "returned"}
    OBVIOUS
  <2>2. /\ now' \in Runs /\ checkpoint' \in Mark \cup {None}
        /\ heartbeat' \in Mark \cup {None, Torn} /\ pending' \subseteq Analyzer
        /\ lessons' \subseteq Runs /\ committed' \subseteq Runs
    BY Zenon DEF TypeOK
  <2>3. StoreOK'
    BY StoreKept, Zenon DEF TypeOK
  <2>4. runId' \in Runs /\ start' \in Cycles /\ cycle' \in Cycles /\ flat' \in 0 .. 2
    BY Zenon DEF TypeOK
  <2> QED BY <2>1, <2>2, <2>3, <2>4, Zenon DEF TypeOK
<1>2. InTurn'
  BY DEF InTurn, Alive, StartOf
<1> QED BY <1>1, <1>2 DEF RunsInOrder, HeartbeatFollows

(* Handing a result to the store moves nothing else: the invariant stays   *)
(* as long as the store's own variables do.                                *)
LEMMA HandKeeps ==
  ASSUME IInv, NEW a \in Analyzer, Hand(a), StoreOK'
  PROVE  IInv'
<1> USE DEF IInv, Hand
<1>1. resolved' \in BOOLEAN /\ last' \in BOOLEAN
  BY Zenon DEF TypeOK
<1>2. TypeOK'
  <2>1. /\ pending' \subseteq Analyzer /\ UNCHANGED <<now, checkpoint, heartbeat, lessons>>
        /\ UNCHANGED <<committed, pc, runId, start, cycle, todo, flat>>
    BY DEF TypeOK
  <2> QED BY <1>1, <2>1, Zenon DEF TypeOK
<1>3. InTurn'
  BY DEF InTurn, Alive, StartOf
<1> QED BY <1>2, <1>3 DEF RunsInOrder, HeartbeatFollows

(* A whole line, a failed append: either way the store stays well-typed.   *)
LEMMA StoreKeeps ==
  ASSUME IInv, Store
  PROVE  IInv'
<1>1. PICK a \in Analyzer : AddResult(a) \/ AddFails(a)
  BY DEF Store
<1>2. LineOf(a) \in Line
  <2>1. runId \in Runs /\ cycle \in Cycles
    BY DEF IInv, TypeOK
  <2> QED BY <2>1 DEF LineOf, Line
<1>3. StoreOK /\ Hand(a)
  BY <1>1 DEF IInv, TypeOK, AddResult, AddFails
<1>4. stored' \subseteq Line /\ ragged' \in BOOLEAN
  <2>1. CASE AddResult(a)
    BY <1>2, <1>3, <2>1, Zenon DEF AddResult, StoreOK
  <2>2. CASE AddFails(a)
    BY <1>3, <2>2, Zenon DEF AddFails, StoreOK
  <2> QED BY <1>1, <2>1, <2>2
<1>5. errors' \in Nat /\ tears' \in Nat /\ errors' + tears' <= MaxFaults
  <2>1. /\ errors \in Nat /\ tears \in Nat /\ errors + tears <= MaxFaults
        /\ MaxFaults \in Nat
    BY <1>3, ResumeAssumption DEF StoreOK
  <2>2. /\ tears' = tears
        /\ errors' = errors \/ (errors' = errors + 1 /\ errors + tears < MaxFaults)
    BY <1>1 DEF AddResult, AddFails
  <2> QED BY <2>1, <2>2
<1> QED BY <1>3, <1>4, <1>5, HandKeeps, Zenon DEF StoreOK

(* Every step of the cycle keeps the invariant.                            *)
LEMMA CycleKeeps ==
  ASSUME IInv, Cycle
  PROVE  IInv'
<1> USE ResumeAssumption DEF IInv
<1>1. CASE Stop
  BY <1>1, StoreKept DEF Stop, disk, loop, TypeOK, InTurn, Alive, RunsInOrder,
     HeartbeatFollows, StartOf
<1>2. CASE Probe
  <2> USE <1>2 DEF Probe, disk
  <2>1. TypeOK'
    BY StoreKept DEF TypeOK, InTurn
  <2>2. InTurn'
    BY DEF TypeOK, InTurn, Alive, StartOf
  <2> QED BY <2>1, <2>2 DEF RunsInOrder, HeartbeatFollows
<1>3. CASE Store
  BY <1>3, StoreKeeps
<1>4. CASE Diagnose
  <2>1. /\ todo' \in 0 .. MaxHypotheses /\ pc' \in {"mark", "operate"} /\ pc = "probed"
        /\ UNCHANGED <<now, checkpoint, heartbeat, store, lessons, committed>>
        /\ UNCHANGED <<runId, start, cycle, flat>> /\ pending = {} /\ pending' = {}
    BY <1>4 DEF Diagnose, disk, TypeOK
  <2>2. resolved' \in BOOLEAN /\ last' \in BOOLEAN
    BY <1>4, Zenon DEF Diagnose, TypeOK
  <2> QED BY <2>1, <2>2, WorkKeeps
<1>5. CASE Operate
  <2>1. /\ todo' \in 0 .. MaxHypotheses /\ pc' \in {"mark", "operate"} /\ pc = "operate"
        /\ UNCHANGED <<now, checkpoint, heartbeat, store, lessons, committed>>
        /\ UNCHANGED <<runId, start, cycle, flat>> /\ pending = {} /\ pending' = {}
    BY <1>5 DEF Operate, disk, TypeOK, InTurn
  <2>2. resolved' \in BOOLEAN /\ last' \in BOOLEAN
    BY <1>5, Zenon DEF Operate, TypeOK
  <2> QED BY <2>1, <2>2, WorkKeeps
<1>6. CASE Judge
  <2> USE <1>6 DEF Judge, disk
  <2>1. flat' \in 0 .. 2 /\ (flat' # 2 => flat' <= 1)
    BY DEF TypeOK, InTurn, Alive
  <2>2. TypeOK'
    BY <2>1, StoreKept DEF TypeOK
  <2>3. InTurn'
    BY <2>1 DEF TypeOK, InTurn, Alive, StartOf
  <2> QED BY <2>2, <2>3 DEF RunsInOrder, HeartbeatFollows
<1> QED BY <1>1, <1>2, <1>3, <1>4, <1>5, <1>6 DEF Cycle
-----------------------------------------------------------------------------
(* The checkpoint moves on by one cycle, or to the first of a later run.   *)
LEMMA CheckpointKeeps ==
  ASSUME IInv, WriteCheckpoint
  PROVE  IInv'
<1> USE ResumeAssumption DEF IInv, WriteCheckpoint, loop
<1>0. /\ [run |-> runId, cycle |-> cycle] \in Mark
      /\ cycle = StartOf(runId) /\ cycle \in Nat /\ runId \in Nat
  BY DEF TypeOK, InTurn, Mark, Cycles, Runs
<1>1. TypeOK'
  BY <1>0, StoreKept DEF TypeOK
<1>2. InTurn'
  BY <1>0 DEF TypeOK, InTurn, Alive, StartOf
<1>3. RunsInOrder'
  BY <1>0 DEF RunsInOrder, TypeOK, Mark, Runs
<1>4. HeartbeatFollows'
  <2>1. SUFFICES ASSUME heartbeat \in Mark, heartbeat.run = runId
                 PROVE  heartbeat.cycle <= cycle
    BY <1>0 DEF HeartbeatFollows, Mark
  <2>2. checkpoint # None /\ checkpoint.run = runId
    BY <1>0, <2>1 DEF RunsInOrder, TypeOK, Mark, Runs
  <2>3. heartbeat.cycle <= checkpoint.cycle /\ cycle = checkpoint.cycle + 1
    BY <1>0, <2>1, <2>2 DEF HeartbeatFollows, StartOf
  <2> QED BY <2>1, <2>2, <2>3 DEF TypeOK, Mark, Cycles
<1> QED BY <1>1, <1>2, <1>3, <1>4

(* The hooks after a cycle and at the end keep the invariant.             *)
LEMMA HooksKeep ==
  ASSUME IInv, Hooks
  PROVE  IInv'
<1> USE ResumeAssumption DEF IInv
<1>1. CASE WriteCheckpoint
  BY <1>1, CheckpointKeeps
<1>2. CASE TruncateHeartbeat
  BY <1>2, StoreKept DEF TruncateHeartbeat, loop, TypeOK, InTurn, Alive, RunsInOrder,
     HeartbeatFollows, StartOf
<1>3. CASE WriteHeartbeat
  <2> USE <1>3 DEF WriteHeartbeat
  <2>0. /\ checkpoint = [run |-> runId, cycle |-> cycle] /\ heartbeat' = checkpoint
        /\ cycle < MaxCycles /\ cycle \in Nat /\ runId \in Nat /\ checkpoint \in Mark
    BY DEF TypeOK, InTurn, Mark, Cycles, Runs
  <2>1. cycle' \in Cycles
    BY <2>0 DEF TypeOK, Cycles
  <2>2. TypeOK'
    BY <2>0, <2>1, StoreKept DEF TypeOK
  <2>3. InTurn'
    BY <2>0 DEF TypeOK, InTurn, Alive, StartOf
  <2>4. RunsInOrder' /\ HeartbeatFollows'
    BY <2>0 DEF RunsInOrder, HeartbeatFollows
  <2> QED BY <2>2, <2>3, <2>4
<1>4. CASE EndLoop
  <2> USE <1>4 DEF EndLoop, loop
  <2>1. TypeOK'
    BY StoreKept DEF TypeOK
  <2> QED BY <2>1 DEF InTurn, Alive, RunsInOrder, HeartbeatFollows, StartOf
<1> QED BY <1>1, <1>2, <1>3, <1>4 DEF Hooks

(* The other steps keep the invariant.                                    *)
LEMMA RestKeeps ==
  ASSUME IInv, Tick \/ Raise \/ Crash \/ UNCHANGED vars
  PROVE  IInv'
<1> USE ResumeAssumption DEF IInv
<1>1. CASE Tick
  <2> USE <1>1 DEF Tick, disk, loop
  <2>1. TypeOK'
    BY StoreKept DEF TypeOK, Runs
  <2>2. InTurn'
    BY DEF InTurn, Alive, StartOf
  <2>3. RunsInOrder'
    BY DEF TypeOK, RunsInOrder, Runs, Mark
  <2> QED BY <2>1, <2>2, <2>3 DEF HeartbeatFollows
<1>2. CASE Raise
  <2> USE <1>2 DEF Raise, disk
  <2>1. TypeOK'
    BY StoreKept DEF TypeOK
  <2> QED BY <2>1 DEF InTurn, Alive, RunsInOrder, HeartbeatFollows
<1>3. CASE Crash
  <2> USE <1>3 DEF Crash
  <2>0. 0 \in Runs /\ 0 \in Cycles /\ 0 \in 0 .. MaxHypotheses /\ 0 \in 0 .. 2
    BY DEF Runs, Cycles
  <2>1. StoreOK'
    <3>1. ragged' \in BOOLEAN /\ stored' \subseteq Line
      BY Zenon DEF TypeOK, StoreOK
    <3>2. errors' \in Nat /\ tears' \in Nat /\ errors' + tears' <= MaxFaults
      BY DEF TypeOK, StoreOK
    <3> QED BY <3>1, <3>2, Zenon DEF StoreOK
  <2>2. TypeOK'
    BY <2>0, <2>1, Zenon DEF TypeOK
  <2> QED BY <2>2 DEF InTurn, Alive, RunsInOrder, HeartbeatFollows
<1>4. CASE UNCHANGED vars
  BY <1>4, StoreKept DEF vars, disk, loop, TypeOK, InTurn, Alive, RunsInOrder,
     HeartbeatFollows, StartOf
<1> QED BY <1>1, <1>2, <1>3, <1>4

(* Every step of the loop, of the hooks and of a crash keeps it.           *)
THEOREM NextIInv == IInv /\ [Next]_vars => IInv'
  BY StartKeeps, CycleKeeps, HooksKeep, RestKeeps DEF Next

(* IInv holds in every reachable state, after any number of crashes.       *)
THEOREM Invariance == Spec => []IInv
  BY InitIInv, NextIInv, PTL DEF Spec

(* Every variable keeps its type.                                          *)
THEOREM Typing == Spec => []TypeOK
<1>1. IInv => TypeOK
  BY DEF IInv
<1> QED BY <1>1, Invariance, PTL

(* The heartbeat is never ahead of the checkpoint of its run.              *)
THEOREM HeartbeatNeverLeads == Spec => []HeartbeatFollows
<1>1. IInv => HeartbeatFollows
  BY DEF IInv
<1> QED BY <1>1, Invariance, PTL
-----------------------------------------------------------------------------
(* What the store has been handed: the results of complete cycles, and of  *)
(* the cycle at hand those no longer pending.  What a load lacks of it,    *)
(* with the next line if the last one is broken, is paid for by faults.    *)
Appended ==
  {l \in Line : /\ pc \in {"probed", "operate", "mark"}
               /\ l.run = runId /\ l.cycle = cycle /\ l.analyzer \notin pending}
Handed  == Completed \cup Appended
Lacking == Handed \ stored
AtStake == IF ragged THEN 1 ELSE 0
PaidFor == IsFiniteSet(Lacking) /\ Cardinality(Lacking) + AtStake <= 2 * errors + tears

(* A cycle's results are handed over before it is marked complete: the     *)
(* checkpoint makes nothing complete that was not handed to the store.     *)
LEMMA MarkedWereHanded ==
  ASSUME IInv, WriteCheckpoint
  PROVE  Handed' \subseteq Handed
<1> SUFFICES ASSUME NEW l \in Line, l \in Handed'
             PROVE  l \in Handed
  BY DEF Handed, Completed, Appended
<1> USE ResumeAssumption DEF IInv
<1>1. /\ checkpoint' = [run |-> runId, cycle |-> cycle] /\ pc = "mark" /\ pc' = "beat"
      /\ cycle = StartOf(runId) /\ pending = {}
  BY DEF WriteCheckpoint, InTurn
<1>2. l.run = runId /\ l.cycle <= cycle /\ l.cycle \in Nat
  BY <1>1 DEF Handed, Completed, Appended, Line, Cycles
<1>3. CASE l.cycle = cycle
  BY <1>1, <1>2, <1>3 DEF Handed, Appended
<1>4. CASE l.cycle # cycle
  <2>1. checkpoint # None /\ checkpoint.run = runId /\ cycle = checkpoint.cycle + 1
    BY <1>1, <1>2, <1>4 DEF StartOf
  <2>2. l.cycle <= checkpoint.cycle
    BY <1>2, <1>4, <2>1 DEF TypeOK, Mark, Cycles
  <2> QED BY <1>2, <2>1, <2>2 DEF Handed, Completed
<1> QED BY <1>3, <1>4

(* No step but the store's own hands it anything.                          *)
LEMMA OthersHandNothing ==
  ASSUME IInv, [Next]_vars, ~ Store
  PROVE  Handed' \subseteq Handed /\ stored' = stored
<1> DEFINE Staged == {"probed", "operate", "mark"}
<1>1. CASE WriteCheckpoint
  BY <1>1, MarkedWereHanded DEF WriteCheckpoint, store
<1>2. ASSUME ~ WriteCheckpoint PROVE checkpoint' = checkpoint /\ stored' = stored
  BY <1>2 DEF Next, vars, disk, store, Tick, Fresh, Resume, Again, Begin, Cycle, Stop, Probe,
    Diagnose, Operate, Judge, Hooks, TruncateHeartbeat, WriteHeartbeat, EndLoop, Raise, Crash
<1>3. \/ pc' \notin Staged
      \/ pc' = "probed" /\ pending' = Analyzer
      \/ pc \in Staged /\ UNCHANGED <<runId, cycle, pending>>
  BY DEF Next, vars, disk, loop, Tick, Fresh, Resume, Again, Begin, Cycle, Stop, Probe,
    Diagnose, Operate, Judge, Hooks, WriteCheckpoint, TruncateHeartbeat, WriteHeartbeat,
    EndLoop, Raise, Crash
<1>4. Appended' \subseteq Appended
  BY <1>3 DEF Appended, Line
<1>5. CASE ~ WriteCheckpoint
  BY <1>2, <1>4, <1>5 DEF Handed, Completed
<1> QED BY <1>1, <1>5

(* The store's own steps hand it one line.                                 *)
LEMMA OneLineIsHanded ==
  ASSUME IInv, NEW a \in Analyzer, Hand(a)
  PROVE  Handed' \subseteq Handed \cup {LineOf(a)}
<1> SUFFICES ASSUME NEW l \in Line, l \in Handed', l \notin Handed
             PROVE  l = LineOf(a)
  BY DEF Handed, Completed, Appended
<1>1. /\ pending' = pending \ {a} /\ UNCHANGED <<checkpoint, pc, runId, cycle>>
      /\ pc = "probed"
  BY DEF Hand
<1>2. l.run = runId /\ l.cycle = cycle /\ l.analyzer = a
  BY <1>1 DEF Handed, Completed, Appended
<1> QED BY <1>2 DEF Line, LineOf

(* Fewer lines lacking are paid for by the same faults.                    *)
LEMMA LackingShrinks ==
  ASSUME IInv, PaidFor, Lacking' \subseteq Lacking,
         AtStake' <= AtStake, AtStake' \in {0, 1},
         errors' = errors, tears' = tears
  PROVE  PaidFor'
<1>1. /\ IsFiniteSet(Lacking') /\ Cardinality(Lacking') <= Cardinality(Lacking)
      /\ Cardinality(Lacking') \in Nat /\ Cardinality(Lacking) \in Nat
  BY FS_Subset, FS_CardinalityType DEF PaidFor
<1>2. AtStake \in {0, 1} /\ errors \in Nat /\ tears \in Nat
  BY DEF AtStake, IInv, TypeOK, StoreOK
<1>3. Cardinality(Lacking) + AtStake <= 2 * errors + tears
  BY DEF PaidFor
<1>4. Cardinality(Lacking') + AtStake' <= 2 * errors' + tears'
  BY <1>1, <1>2, <1>3
<1> QED BY <1>1, <1>4 DEF PaidFor

(* One more line lacking is paid for by a failed append, or was at stake   *)
(* behind a broken line.                                                   *)
LEMMA LackingGrows ==
  ASSUME IInv, PaidFor, NEW l, Lacking' \subseteq Lacking \cup {l}, tears' = tears,
         \/ errors' = errors + 1
         \/ errors' = errors /\ ragged /\ AtStake' = 0
  PROVE  PaidFor'
<1>1. /\ IsFiniteSet(Lacking \cup {l}) /\ Cardinality(Lacking) \in Nat
      /\ Cardinality(Lacking \cup {l}) <= Cardinality(Lacking) + 1
      /\ Cardinality(Lacking \cup {l}) \in Nat
  <2>1. IsFiniteSet(Lacking) /\ Cardinality(Lacking) \in Nat
    BY FS_CardinalityType DEF PaidFor
  <2>2. /\ IsFiniteSet(Lacking \cup {l})
        /\ \/ Cardinality(Lacking \cup {l}) = Cardinality(Lacking)
           \/ Cardinality(Lacking \cup {l}) = Cardinality(Lacking) + 1
    <3> HIDE DEF Lacking
    <3>1. CASE l \in Lacking
      <4>1. Lacking \cup {l} = Lacking
        BY <3>1
      <4> QED BY <2>1, <4>1
    <3>2. CASE l \notin Lacking
      BY <2>1, <3>2, FS_AddElement
    <3> QED BY <3>1, <3>2
  <2> QED BY <2>1, <2>2
<1>2. /\ IsFiniteSet(Lacking') /\ Cardinality(Lacking') \in Nat
      /\ Cardinality(Lacking') <= Cardinality(Lacking) + 1
  <2>1. IsFiniteSet(Lacking') /\ Cardinality(Lacking') <= Cardinality(Lacking \cup {l})
    BY <1>1, FS_Subset
  <2> QED BY <1>1, <2>1, FS_CardinalityType
<1>3. /\ AtStake \in {0, 1} /\ AtStake' \in {0, 1} /\ (ragged => AtStake = 1)
      /\ errors \in Nat /\ tears \in Nat
  BY DEF AtStake, IInv, TypeOK, StoreOK
<1>4. Cardinality(Lacking) + AtStake <= 2 * errors + tears
  BY DEF PaidFor
<1>5. Cardinality(Lacking') + AtStake' <= 2 * errors' + tears'
  BY <1>1, <1>2, <1>3, <1>4
<1> QED BY <1>2, <1>5 DEF PaidFor

(* A crash may break one line, and is counted when it does.                *)
LEMMA CrashIsPaidFor ==
  ASSUME IInv, PaidFor, Crash, Lacking' \subseteq Lacking
  PROVE  PaidFor'
<1>1. CASE UNCHANGED <<ragged, tears>>
  BY <1>1, LackingShrinks DEF Crash, AtStake
<1>2. CASE tears' = tears + 1
  <2>1. /\ IsFiniteSet(Lacking') /\ Cardinality(Lacking') <= Cardinality(Lacking)
        /\ Cardinality(Lacking') \in Nat /\ Cardinality(Lacking) \in Nat
    BY FS_Subset, FS_CardinalityType DEF PaidFor
  <2>2. /\ AtStake \in {0, 1} /\ AtStake' \in {0, 1} /\ errors' = errors
        /\ errors \in Nat /\ tears \in Nat
    BY DEF AtStake, IInv, TypeOK, StoreOK, Crash
  <2>3. Cardinality(Lacking) + AtStake <= 2 * errors + tears
    BY DEF PaidFor
  <2>4. Cardinality(Lacking') + AtStake' <= 2 * errors' + tears'
    BY <1>2, <2>1, <2>2, <2>3
  <2> QED BY <2>1, <2>4 DEF PaidFor
<1> QED BY <1>1, <1>2 DEF Crash

(* Every step keeps the account balanced.                                  *)
LEMMA AccountKeeps ==
  ASSUME IInv, PaidFor, [Next]_vars
  PROVE  PaidFor'
<1>1. CASE Store
  <2>1. PICK a \in Analyzer : AddResult(a) \/ AddFails(a)
    BY <1>1 DEF Store
  <2>2. Handed' \subseteq Handed \cup {LineOf(a)}
    BY <2>1, OneLineIsHanded DEF AddResult, AddFails
  <2>3. CASE AddResult(a) /\ ~ ragged
    <3>1. Lacking' \subseteq Lacking
      BY <2>2, <2>3 DEF AddResult, Lacking
    <3>2. AtStake' = 0 /\ AtStake = 0 /\ errors' = errors /\ tears' = tears
      BY <2>3 DEF AddResult, AtStake
    <3> QED BY <3>1, <3>2, LackingShrinks
  <2>4. CASE AddResult(a) /\ ragged
    <3>1. Lacking' \subseteq Lacking \cup {LineOf(a)}
      BY <2>2, <2>4 DEF AddResult, Lacking
    <3>2. AtStake' = 0 /\ errors' = errors /\ tears' = tears
      BY <2>4 DEF AddResult, AtStake
    <3> QED BY <2>4, <3>1, <3>2, LackingGrows
  <2>5. CASE AddFails(a)
    <3>1. Lacking' \subseteq Lacking \cup {LineOf(a)}
      BY <2>2, <2>5 DEF AddFails, Lacking
    <3>2. errors' = errors + 1 /\ tears' = tears
      BY <2>5 DEF AddFails
    <3> QED BY <3>1, <3>2, LackingGrows
  <2> QED BY <2>1, <2>3, <2>4, <2>5
<1>2. CASE ~ Store
  <2>1. Lacking' \subseteq Lacking
    BY <1>2, OthersHandNothing DEF Lacking
  <2>2. CASE Crash
    BY <2>1, <2>2, CrashIsPaidFor
  <2>3. CASE ~ Crash
    <3>1. UNCHANGED <<ragged, errors, tears>>
      BY <1>2, <2>3 DEF Next, vars, disk, store, Tick, Fresh, Resume, Again, Begin, Cycle,
        Stop, Probe, Diagnose, Operate, Judge, Hooks, WriteCheckpoint, TruncateHeartbeat,
        WriteHeartbeat, EndLoop, Raise
    <3> QED BY <2>1, <3>1, LackingShrinks DEF AtStake
  <2> QED BY <2>2, <2>3
<1> QED BY <1>1, <1>2

(* A load of the store lacks no more results of complete cycles than the   *)
(* appends that failed and the crashes that cut one short account for:     *)
(* every result is handed to the store before its cycle is marked, and a   *)
(* broken line takes at most one whole one with it.                        *)
THEOREM StoreLossesAreBounded == Spec => []LossIsBounded
<1>1. Init => PaidFor
  <2> SUFFICES ASSUME Init PROVE PaidFor
    OBVIOUS
  <2>1. Lacking = {} /\ AtStake = 0 /\ errors = 0 /\ tears = 0
    BY DEF Init, Lacking, Handed, Completed, Appended, AtStake
  <2> QED BY <2>1, FS_EmptySet DEF PaidFor
<1>2. IInv /\ PaidFor /\ [Next]_vars => PaidFor'
  BY AccountKeeps
<1>3. IInv /\ PaidFor => LossIsBounded
  <2> SUFFICES ASSUME IInv, PaidFor PROVE LossIsBounded
    OBVIOUS
  <2>1. Completed \ stored \subseteq Lacking
    BY DEF Lacking, Handed
  <2>2. /\ IsFiniteSet(Completed \ stored) /\ Cardinality(Lacking) \in Nat
        /\ Cardinality(Completed \ stored) <= Cardinality(Lacking)
    BY <2>1, FS_Subset, FS_CardinalityType DEF PaidFor
  <2>3. Cardinality(Completed \ stored) \in Nat
    BY <2>2, FS_CardinalityType
  <2>4. AtStake \in {0, 1} /\ errors \in Nat /\ tears \in Nat
    BY DEF AtStake, IInv, TypeOK, StoreOK
  <2>5. Cardinality(Lacking) + AtStake <= 2 * errors + tears
    BY DEF PaidFor
  <2> QED BY <2>2, <2>3, <2>4, <2>5 DEF LossIsBounded
<1> QED BY <1>1, <1>2, <1>3, Invariance, PTL DEF Spec

-----------------------------------------------------------------------------
(* The run directory implements the journal: a run takes up the cycle      *)
(* after its last complete one, repeats none and skips none.               *)

(* Every step is one of the journal's, or a stutter.                      *)
LEMMA StepImplements ==
  ASSUME IInv, [Next]_vars
  PROVE  [J!Next]_<<IF checkpoint = None THEN 0 ELSE checkpoint.run,
                    IF checkpoint = None THEN 0 ELSE checkpoint.cycle + 1,
                    IF Working THEN [run |-> runId, cycle |-> cycle] ELSE None>>
<1> DEFINE unmoved == UNCHANGED checkpoint
           job     == [run |-> runId, cycle |-> cycle]
<1> USE ResumeAssumption DEF IInv
<1>0. /\ runId \in Runs /\ cycle \in Nat /\ job \in Mark /\ job # None
      /\ pc \in {"probed", "operate", "mark"} => cycle < MaxCycles /\ cycle = StartOf(runId)
  BY DEF TypeOK, InTurn, Mark, Cycles
<1>1. CASE Probe /\ pc' = "probed"
  <2>1. cycle = StartOf(runId) /\ cycle < MaxCycles /\ ~ Working /\ Working'
    BY <1>1 DEF Probe, InTurn, Working
  <2>2. runId' = runId /\ cycle' = cycle /\ checkpoint' = checkpoint
    BY <1>1 DEF Probe, disk
  <2>3. J!Following(runId) = cycle
    BY <2>1, <1>0 DEF J!Following, StartOf
  <2>4. J!Take
    BY <1>0, <2>1, <2>2, <2>3 DEF J!Take, J!Following
  <2> QED BY <2>4 DEF J!Next
<1>2. CASE WriteCheckpoint
  <2>1. Working /\ ~ Working' /\ checkpoint' = job /\ checkpoint' # None
    BY <1>0, <1>2 DEF WriteCheckpoint, Working
  <2>2. J!Complete
    BY <1>0, <2>1 DEF J!Complete
  <2> QED BY <2>2 DEF J!Next
<1>3. CASE Working /\ ~ Working' /\ unmoved
  <2>1. J!Drop
    BY <1>0, <1>3 DEF J!Drop
  <2> QED BY <2>1 DEF J!Next
<1>4. CASE ~ Working /\ ~ Working' /\ unmoved
  BY <1>4
<1>5. CASE Working /\ Working' /\ unmoved /\ UNCHANGED <<runId, cycle>>
  BY <1>5
<1> HIDE DEF unmoved, job
<1>6. ASSUME Fresh \/ Resume \/ Again \/ Tick \/ UNCHANGED vars \/ Raise \/ Crash
      PROVE  \/ Working /\ ~ Working' /\ unmoved
             \/ ~ Working /\ ~ Working' /\ unmoved
             \/ Working /\ Working' /\ unmoved /\ UNCHANGED <<runId, cycle>>
  BY <1>6 DEF Fresh, Resume, Again, Begin, Tick, Raise, Crash, vars, disk, loop, Working, unmoved
<1>7. ASSUME Cycle, ~ (Probe /\ pc' = "probed")
      PROVE  \/ Working /\ ~ Working' /\ unmoved
             \/ ~ Working /\ ~ Working' /\ unmoved
             \/ Working /\ Working' /\ unmoved /\ UNCHANGED <<runId, cycle>>
  BY <1>7 DEF Cycle, Stop, Probe, Store, Hand, AddResult, AddFails, Diagnose, Operate, Judge,
     disk, loop, Working, unmoved
<1>8. ASSUME Hooks, ~ WriteCheckpoint
      PROVE  ~ Working /\ ~ Working' /\ unmoved
  BY <1>8 DEF Hooks, TruncateHeartbeat, WriteHeartbeat, EndLoop, loop, Working, unmoved
<1> QED BY <1>1, <1>2, <1>3, <1>4, <1>5, <1>6, <1>7, <1>8 DEF Next

(* Through crashes, resumptions and new loops the checkpoint file of a run is  *)
(* a journal of its cycles: ImplementsJournal, for every value of the constants. *)
THEOREM CheckpointIsAJournal == Spec => ImplementsJournal
<1>1. Init => J!Init
  BY ResumeAssumption DEF Init, J!Init, Working, Runs
<1>2. IInv /\ [Next]_vars =>
        [J!Next]_<<IF checkpoint = None THEN 0 ELSE checkpoint.run,
                   IF checkpoint = None THEN 0 ELSE checkpoint.cycle + 1,
                   IF Working THEN [run |-> runId, cycle |-> cycle] ELSE None>>
  BY StepImplements
<1> QED BY <1>1, <1>2, Invariance, PTL DEF Spec, ImplementsJournal, J!Spec
-----------------------------------------------------------------------------
(* The checkpoint only moves forward: a write replaces it by the next      *)
(* cycle of its run, or by the first cycle of a run begun later.           *)
Forward ==
  /\ checkpoint' = [run |-> runId, cycle |-> StartOf(runId)]
  /\ checkpoint # None => checkpoint.run <= runId

CheckpointMovesForward == [][checkpoint' # checkpoint => Forward]_vars

(* Two loops may use one run directory after each other, one of them       *)
(* resumed from what the other left, and processes may die: no write ever  *)
(* takes the checkpoint back to an earlier cycle or an earlier run.        *)
THEOREM CheckpointAdvances == Spec => CheckpointMovesForward
<1>1. IInv /\ [Next]_vars => (checkpoint' # checkpoint => Forward)
  <2> SUFFICES ASSUME IInv, [Next]_vars, checkpoint' # checkpoint PROVE Forward
    OBVIOUS
  <2>1. WriteCheckpoint
    BY DEF Next, vars, disk, Tick, Fresh, Resume, Again, Begin, Cycle, Stop, Probe,
      Store, Hand, AddResult, AddFails, Diagnose, Operate, Judge, Hooks, TruncateHeartbeat,
      WriteHeartbeat, EndLoop, Raise, Crash
  <2> QED BY <2>1 DEF WriteCheckpoint, IInv, InTurn, RunsInOrder, Forward
<1> QED BY <1>1, Invariance, PTL DEF Spec, CheckpointMovesForward

-----------------------------------------------------------------------------
(* How many steps run() may still take: what is left of the cycle at hand, *)
(* with its results, hypotheses and files, the cycles after it and the end. *)
CycleSteps == MaxHypotheses + Cardinality(Analyzer) + 6

CyclesAhead == (MaxCycles - (cycle + 1)) * CycleSteps

StepsLeft ==
  CASE pc \in {"off", "returned"} -> 0
    [] pc = "end"                 -> 1
    [] pc = "beating"             -> 3 + CyclesAhead
    [] pc = "beat"                -> 4 + CyclesAhead
    [] pc = "mark"                -> 5 + CyclesAhead
    [] pc = "operate"             -> 6 + CyclesAhead + todo
    [] pc = "probed"              -> 7 + CyclesAhead + MaxHypotheses + Cardinality(pending)
    [] pc = "cycle"               -> 2 + (MaxCycles - cycle) * CycleSteps

LongestRun == 2 + MaxCycles * CycleSteps

StepsRunOut == [][Cycle \/ Hooks => StepsLeft' < StepsLeft]_vars

(* A product of two numbers is a number, and grows with its first factor.  *)
LEMMA Times ==
  ASSUME NEW x \in Nat, NEW y \in Nat, NEW k \in Nat, x <= y
  PROVE  x * k \in Nat /\ y * k \in Nat /\ x * k <= y * k
OBVIOUS

(* Pending results are finitely many, at most one for each analyzer.       *)
LEMMA AnalyzersCount == Cardinality(Analyzer) \in Nat /\ CycleSteps \in Nat
<1>1. Cardinality(Analyzer) \in Nat
  BY ResumeAssumption, FS_CardinalityType
<1> QED BY <1>1, ResumeAssumption DEF CycleSteps

LEMMA PendingCount ==
  ASSUME NEW P, P \subseteq Analyzer
  PROVE  /\ IsFiniteSet(P) /\ Cardinality(P) \in Nat
         /\ Cardinality(P) <= Cardinality(Analyzer)
<1>1. IsFiniteSet(P) /\ Cardinality(P) <= Cardinality(Analyzer)
  BY ResumeAssumption, FS_Subset
<1> QED BY <1>1, FS_CardinalityType

(* Inside the range, the cycle at hand takes its steps from the count.     *)
LEMMA CycleTaken ==
  ASSUME NEW c \in Cycles, c < MaxCycles
  PROVE  /\ (MaxCycles - c) * CycleSteps = (MaxCycles - (c + 1)) * CycleSteps + CycleSteps
         /\ (MaxCycles - (c + 1)) * CycleSteps \in Nat
         /\ (MaxCycles - c) * CycleSteps <= MaxCycles * CycleSteps
<1> USE ResumeAssumption DEF Cycles
<1>1. \A x \in Nat, k \in Nat : (x + 1) * k = x * k + k
  OBVIOUS
<1>2. /\ CycleSteps \in Nat /\ MaxCycles - (c + 1) \in Nat
      /\ MaxCycles - c = (MaxCycles - (c + 1)) + 1
      /\ MaxCycles - c \in Nat /\ MaxCycles - c <= MaxCycles
  BY AnalyzersCount
<1>3. (MaxCycles - c) * CycleSteps = (MaxCycles - (c + 1)) * CycleSteps + CycleSteps
  BY <1>1, <1>2
<1>4. (MaxCycles - (c + 1)) * CycleSteps \in Nat
  BY <1>2, Times
<1>5. (MaxCycles - c) * CycleSteps <= MaxCycles * CycleSteps
  BY <1>2, Times
<1> QED BY <1>3, <1>4, <1>5

(* The count is a number below the longest run's.                          *)
LEMMA StepsCount ==
  ASSUME IInv
  PROVE  StepsLeft \in 0 .. LongestRun
<1> USE ResumeAssumption
<1>0. Cardinality(pending) \in Nat /\ Cardinality(pending) <= Cardinality(Analyzer)
  BY PendingCount DEF IInv, TypeOK
<1>1. /\ cycle \in Cycles /\ todo \in 0 .. MaxHypotheses
      /\ Cardinality(Analyzer) \in Nat
      /\ CycleSteps = MaxHypotheses + Cardinality(Analyzer) + 6 /\ CycleSteps \in Nat
  BY AnalyzersCount DEF IInv, TypeOK, CycleSteps
<1>2. MaxCycles * CycleSteps \in Nat
  BY <1>1, Times
<1>3. CASE pc \in {"off", "returned", "end"}
  <2>1. StepsLeft \in 0 .. 1
    BY <1>3 DEF StepsLeft
  <2> QED BY <1>2, <2>1 DEF LongestRun
<1>4. CASE pc \in {"beating", "beat", "mark", "operate", "probed"}
  <2>1. cycle < MaxCycles
    BY <1>4 DEF IInv, InTurn
  <2>2. CyclesAhead \in Nat /\ CyclesAhead + CycleSteps <= MaxCycles * CycleSteps
    BY <1>1, <1>2, <2>1, CycleTaken DEF CyclesAhead
  <2>3. /\ StepsLeft \in Nat
        /\ StepsLeft <= 7 + CyclesAhead + MaxHypotheses + Cardinality(Analyzer)
    BY <1>1, <1>0, <1>4, <2>2 DEF StepsLeft
  <2> QED BY <1>1, <1>2, <2>2, <2>3 DEF LongestRun
<1>5. CASE pc = "cycle"
  <2>1. StepsLeft = 2 + (MaxCycles - cycle) * CycleSteps
    BY <1>5 DEF StepsLeft
  <2>2. MaxCycles - cycle \in Nat /\ MaxCycles - cycle <= MaxCycles
    BY <1>1 DEF Cycles
  <2>3. /\ (MaxCycles - cycle) * CycleSteps \in Nat
        /\ (MaxCycles - cycle) * CycleSteps <= MaxCycles * CycleSteps
    BY <1>1, <2>2, Times
  <2> QED BY <1>2, <2>1, <2>3 DEF LongestRun
<1> QED BY <1>3, <1>4, <1>5 DEF IInv, TypeOK

(* Every step of the loop and of its hooks takes one away.                 *)
LEMMA LoopRunsOut ==
  ASSUME IInv, Cycle \/ Hooks
  PROVE  StepsLeft' < StepsLeft
<1> USE ResumeAssumption
<1>0. Cardinality(pending) \in Nat /\ Cardinality(pending) <= Cardinality(Analyzer)
  BY PendingCount DEF IInv, TypeOK
<1>1. /\ cycle \in Cycles /\ todo \in 0 .. MaxHypotheses
      /\ Cardinality(Analyzer) \in Nat
      /\ CycleSteps = MaxHypotheses + Cardinality(Analyzer) + 6 /\ CycleSteps \in Nat
  BY AnalyzersCount DEF IInv, TypeOK, CycleSteps
<1>2. ASSUME pc \in {"probed", "operate", "mark", "beat", "beating"}
      PROVE  cycle < MaxCycles /\ CyclesAhead \in Nat
  <2>1. cycle < MaxCycles
    BY <1>2 DEF IInv, InTurn
  <2> QED BY <1>1, <2>1, CycleTaken DEF CyclesAhead
<1>3. ASSUME pc = "cycle" PROVE StepsLeft >= 2 /\ StepsLeft \in Nat
  <2>1. MaxCycles - cycle \in Nat
    BY <1>1 DEF Cycles
  <2>2. (MaxCycles - cycle) * CycleSteps \in Nat
    BY <1>1, <2>1, Times
  <2>3. StepsLeft = 2 + (MaxCycles - cycle) * CycleSteps
    BY <1>3 DEF StepsLeft
  <2> QED BY <2>2, <2>3
<1>4. pc' = "end" => StepsLeft' = 1
  BY DEF StepsLeft
<1>5. CASE Stop
  BY <1>3, <1>4, <1>5 DEF Stop
<1>6. CASE Probe
  <2>1. CASE pc' = "end"
    BY <1>3, <1>4, <1>6, <2>1 DEF Probe
  <2>2. CASE pc' = "probed"
    <3>1. pc = "cycle" /\ cycle < MaxCycles /\ cycle' = cycle
      BY <1>6 DEF Probe
    <3>2. StepsLeft' = 7 + CyclesAhead + MaxHypotheses + Cardinality(Analyzer)
      BY <1>6, <2>2, <3>1 DEF Probe, StepsLeft, CyclesAhead
    <3>3. StepsLeft = 2 + (MaxCycles - cycle) * CycleSteps
      BY <3>1 DEF StepsLeft
    <3>4. /\ (MaxCycles - cycle) * CycleSteps = CyclesAhead + CycleSteps
          /\ CyclesAhead \in Nat
      BY <1>1, <3>1, CycleTaken DEF CyclesAhead
    <3> QED BY <1>1, <3>2, <3>3, <3>4
  <2> QED BY <1>6, <2>1, <2>2 DEF Probe
<1>7. CASE Diagnose
  <2>1. pc = "probed" /\ cycle' = cycle /\ Cardinality(pending) = 0
    BY <1>7, FS_EmptySet DEF Diagnose
  <2>2. CyclesAhead \in Nat /\ StepsLeft = 7 + CyclesAhead + MaxHypotheses
    BY <1>1, <1>2, <2>1 DEF StepsLeft
  <2>3. CASE pc' = "mark"
    <3>1. StepsLeft' = 5 + CyclesAhead
      BY <2>1, <2>3 DEF StepsLeft, CyclesAhead
    <3> QED BY <2>2, <3>1
  <2>4. CASE pc' = "operate" /\ todo' \in 1 .. MaxHypotheses
    <3>1. StepsLeft' = 6 + CyclesAhead + todo'
      BY <2>1, <2>4 DEF StepsLeft, CyclesAhead
    <3>2. PICK t \in Nat : todo' = t /\ t <= MaxHypotheses
      BY <2>4
    <3>3. StepsLeft' = 6 + CyclesAhead + t
      BY <3>1, <3>2
    <3> QED BY <2>2, <3>2, <3>3
  <2> QED BY <1>7, <2>3, <2>4 DEF Diagnose
<1>8. CASE Operate
  <2>1. pc = "operate" /\ cycle' = cycle /\ todo > 0 /\ todo' = todo - 1
    BY <1>8 DEF Operate
  <2>2. CyclesAhead \in Nat /\ StepsLeft = 6 + CyclesAhead + todo
    BY <1>2, <2>1 DEF StepsLeft
  <2>3. CASE pc' = "mark"
    <3>1. StepsLeft' = 5 + CyclesAhead
      BY <2>1, <2>3 DEF StepsLeft, CyclesAhead
    <3> QED BY <1>1, <2>2, <3>1
  <2>4. CASE pc' = pc
    <3>1. StepsLeft' = 6 + CyclesAhead + (todo - 1)
      BY <2>1, <2>4 DEF StepsLeft, CyclesAhead
    <3> QED BY <1>1, <2>1, <2>2, <3>1
  <2> QED BY <1>8, <2>3, <2>4 DEF Operate
<1>9. CASE Judge
  <2>1. pc = "operate" /\ cycle' = cycle /\ pc' \in {"end", "mark"}
    BY <1>9 DEF Judge
  <2>2. CyclesAhead \in Nat /\ StepsLeft = 6 + CyclesAhead + todo
    BY <1>2, <2>1 DEF StepsLeft
  <2>3. StepsLeft' \in {1, 5 + CyclesAhead}
    BY <2>1 DEF StepsLeft, CyclesAhead
  <2> QED BY <1>1, <2>2, <2>3
<1>10. CASE WriteCheckpoint \/ TruncateHeartbeat
  <2>1. /\ cycle' = cycle
        /\ \/ pc = "mark" /\ pc' = "beat"
           \/ pc = "beat" /\ pc' = "beating"
    BY <1>10 DEF WriteCheckpoint, TruncateHeartbeat, loop
  <2>2. CyclesAhead \in Nat
    BY <1>2, <2>1
  <2>3. \/ StepsLeft = 5 + CyclesAhead /\ StepsLeft' = 4 + CyclesAhead
        \/ StepsLeft = 4 + CyclesAhead /\ StepsLeft' = 3 + CyclesAhead
    BY <2>1 DEF StepsLeft, CyclesAhead
  <2> QED BY <2>2, <2>3
<1>11. CASE WriteHeartbeat
  <2>1. pc = "beating" /\ CyclesAhead \in Nat
    BY <1>2, <1>11 DEF WriteHeartbeat
  <2>2. StepsLeft = 3 + CyclesAhead
    BY <2>1 DEF StepsLeft
  <2>3. CASE pc' = "end"
    BY <1>4, <2>1, <2>2, <2>3
  <2>4. CASE pc' = "cycle" /\ cycle' = cycle + 1
    <3>1. StepsLeft' = 2 + CyclesAhead
      BY <2>4 DEF StepsLeft, CyclesAhead, CycleSteps
    <3> QED BY <2>1, <2>2, <3>1
  <2> QED BY <1>11, <2>3, <2>4 DEF WriteHeartbeat
<1>12. CASE EndLoop
  BY <1>12 DEF EndLoop, StepsLeft
<1>13. CASE Store
  <2>1. PICK a \in Analyzer : Hand(a)
    BY <1>13 DEF Store, AddResult, AddFails
  <2>2. /\ pc = "probed" /\ pc' = pc /\ cycle' = cycle
        /\ a \in pending /\ pending' = pending \ {a}
    BY <2>1 DEF Hand
  <2>3. Cardinality(pending') = Cardinality(pending) - 1
    BY <2>2, PendingCount, FS_RemoveElement DEF IInv, TypeOK
  <2>4. CyclesAhead \in Nat
    BY <1>2, <2>2
  <2>5. /\ StepsLeft = 7 + CyclesAhead + MaxHypotheses + Cardinality(pending)
        /\ StepsLeft' = 7 + CyclesAhead + MaxHypotheses + Cardinality(pending')
    BY <2>2 DEF StepsLeft, CyclesAhead
  <2> QED BY <1>0, <2>3, <2>4, <2>5
<1> QED BY <1>5, <1>6, <1>7, <1>8, <1>9, <1>10, <1>11, <1>12, <1>13 DEF Cycle, Hooks

(* A run that is not killed returns, whatever probing, diagnosis and       *)
(* repair answer, from whatever checkpoint it took up: the steps it may    *)
(* still take are a number and every step takes one away.                  *)
THEOREM RunsAreFinite == Spec => [](StepsLeft \in 0 .. LongestRun) /\ StepsRunOut
<1>1. IInv => StepsLeft \in 0 .. LongestRun
  BY StepsCount
<1>2. IInv /\ [Next]_vars => [Cycle \/ Hooks => StepsLeft' < StepsLeft]_vars
  BY LoopRunsOut
<1> QED BY <1>1, <1>2, Invariance, PTL DEF Spec, StepsRunOut
=============================================================================
