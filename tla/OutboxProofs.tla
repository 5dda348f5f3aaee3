---------------------------- MODULE OutboxProofs ----------------------------
(***************************************************************************)
(* The outbox implements an at-least-once queue, for any number of events, *)
(* processes and any drain limit.                                          *)
(***************************************************************************)
EXTENDS Outbox, FiniteSetTheorems, TLAPS

Queued == {e \in Event : row[e] # "absent"}

(* A selected row was recorded; the event between its publish and its      *)
(* DELETE was handed over, whatever the other processes did in between.    *)
BatchRecorded   == \A p \in Proc : batch[p] \subseteq recorded
DeletedIsHanded == \A p \in Proc : pc[p] = "delete" =>
                     \A e \in batch[p] : IsFirst(e, batch[p]) => e \in handed
RowsRecorded    == Queued \subseteq recorded

IInv == TypeOK /\ RowsRecorded /\ BatchRecorded /\ DeletedIsHanded /\ NothingForgotten

(* Two members of a set that are both its least are the same.              *)
LEMMA FirstIsUnique ==
  ASSUME NEW S \in SUBSET Event, NEW e, NEW f, IsFirst(e, S), IsFirst(f, S)
  PROVE  e = f
  BY SizeAssumption DEF IsFirst, Event

(* The invariant holds initially.                                          *)
THEOREM InitIInv == Init => IInv
  BY SizeAssumption DEF Init, IInv, TypeOK, RowsRecorded, Queued, BatchRecorded, DeletedIsHanded,
     NothingForgotten, Queue!NothingForgotten, Event, Step
-----------------------------------------------------------------------------
(* Ending a flush keeps every part that concerns the process: its batch is *)
(* empty and it is not about to delete.                                    *)
LEMMA EndFlushKeeps ==
  ASSUME IInv, NEW p \in Proc, EndFlush(p),
         arrived' \subseteq Event, buffer' \in [Proc -> SUBSET Event]
  PROVE  IInv'
<1> USE DEF IInv, EndFlush, Goto, table
<1>1. TypeOK'
  <2>1. pc' \in [Proc -> Step] /\ flush' \in [Proc -> 1..2]
    BY DEF TypeOK, Step
  <2>2. batch' \in [Proc -> SUBSET Event]
    BY DEF TypeOK
  <2>3. \A q \in Proc : pc'[q] \in {"delete", "backoff"} => q # p /\ pc'[q] = pc[q]
    BY DEF TypeOK
  <2>4. \A q \in Proc \ {p} : batch'[q] = batch[q]
    BY DEF TypeOK
  <2> QED BY <2>1, <2>2, <2>3, <2>4 DEF TypeOK
<1>2. RowsRecorded' /\ NothingForgotten'
  BY DEF RowsRecorded, Queued, NothingForgotten, Queue!NothingForgotten
<1>3. BatchRecorded'
  BY DEF BatchRecorded, TypeOK
<1>4. DeletedIsHanded'
  <2>1. \A q \in Proc : pc'[q] = "delete" => q # p /\ pc[q] = "delete" /\ batch'[q] = batch[q]
    BY DEF TypeOK
  <2> QED BY <2>1 DEF DeletedIsHanded
<1> QED BY <1>1, <1>2, <1>3, <1>4

(* A step that leaves the table, the handed events and the batches alone,  *)
(* and starts no DELETE, keeps the invariant if it keeps the types.        *)
LEMMA QuietKeeps ==
  ASSUME IInv, TypeOK', UNCHANGED <<row, recorded, handed, batch>>,
         \A p \in Proc : pc'[p] = "delete" => pc[p] = "delete"
  PROVE  IInv'
  BY DEF IInv, TypeOK, RowsRecorded, Queued, BatchRecorded, DeletedIsHanded, NothingForgotten,
         Queue!NothingForgotten

(* Recording an event keeps the invariant.                                *)
LEMMA RecordKeeps ==
  ASSUME IInv, NEW p \in Proc, Record(p)
  PROVE  IInv'
<1> USE DEF IInv, Record, Inserted
<1>0. next[p] \in Event
  BY DEF TypeOK
<1>1. TypeOK'
  <2>1. row' \in [Event -> {"absent", "ready", "waiting"}] /\ recorded' \subseteq Event
    BY <1>0 DEF TypeOK
  <2>2. next' \in [Proc -> Event] /\ pc' \in [Proc -> Step]
    <3>1. CASE LastEvent(p)
      BY <3>1 DEF TypeOK, Goto, Step
    <3>2. CASE ~LastEvent(p)
      <4>1. next[p] + 1 \in Event
        BY <1>0, <3>2, SizeAssumption DEF LastEvent, Event
      <4> QED BY <3>2, <4>1 DEF TypeOK
    <3> QED BY <3>1, <3>2
  <2>3. \A q \in Proc : pc'[q] \in {"delete", "backoff"} => pc[q] = pc'[q]
    BY DEF TypeOK, Goto
  <2> QED BY <2>1, <2>2, <2>3 DEF TypeOK
<1>2. RowsRecorded' /\ BatchRecorded' /\ NothingForgotten'
  BY <1>0 DEF TypeOK, RowsRecorded, Queued, BatchRecorded, NothingForgotten, Queue!NothingForgotten
<1>3. DeletedIsHanded'
  BY DEF TypeOK, Goto, DeletedIsHanded
<1> QED BY <1>1, <1>2, <1>3

(* Publishing, or failing to, keeps the invariant.                        *)
LEMMA PublishKeeps ==
  ASSUME IInv, NEW p \in Proc, Publish(p)
  PROVE  IInv'
<1> USE DEF IInv, Publish, table, local
<1>1. PICK e \in batch[p] : /\ IsFirst(e, batch[p])
                            /\ handed' = handed \cup {e}
                            /\ buffer' = [buffer EXCEPT ![p] = @ \cup {e}]
  BY DEF Publish
<1>2. TypeOK'
  BY <1>1 DEF TypeOK, Goto, Step
<1>3. RowsRecorded' /\ BatchRecorded' /\ NothingForgotten'
  BY <1>1 DEF RowsRecorded, Queued, BatchRecorded, NothingForgotten, Queue!NothingForgotten
<1>4. DeletedIsHanded'
  <2> SUFFICES ASSUME NEW q \in Proc, pc'[q] = "delete", NEW f \in batch[q], IsFirst(f, batch[q])
               PROVE  f \in handed'
    BY DEF DeletedIsHanded
  <2>1. CASE q = p
    BY <2>1, <1>1, FirstIsUnique DEF TypeOK
  <2>2. CASE q # p
    BY <2>2, <1>1 DEF DeletedIsHanded, Goto, TypeOK
  <2> QED BY <2>1, <2>2
<1> QED BY <1>2, <1>3, <1>4

(* Deleting a row keeps its event, which was handed over; backing it off   *)
(* keeps the row.                                                          *)
LEMMA SettleKeeps ==
  ASSUME IInv, NEW p \in Proc, Settle(p)
  PROVE  IInv'
<1> USE DEF IInv
<1>1. PICK e \in batch[p] : /\ IsFirst(e, batch[p])
                            /\ row' = IF pc[p] = "delete" THEN Deleted(e) ELSE BackedOff(e)
                            /\ batch' = [batch EXCEPT ![p] = @ \ {e}]
  BY DEF Settle
<1>a. e \in Event /\ UNCHANGED <<recorded, handed, arrived, next, flush, buffer>>
  BY DEF Settle, TypeOK
<1>b. pc' = [pc EXCEPT ![p] = "publish"]
  BY DEF Settle, Goto
<1>c. row' \in [Event -> {"absent", "ready", "waiting"}]
  <2>1. CASE pc[p] = "delete"
    BY <1>1, <2>1 DEF Deleted, TypeOK
  <2>2. CASE pc[p] # "delete"
    BY <1>1, <2>2 DEF BackedOff, TypeOK
  <2> QED BY <2>1, <2>2
<1>2. TypeOK'
  BY <1>1, <1>a, <1>b, <1>c DEF TypeOK, Step
<1>3. RowsRecorded' /\ BatchRecorded'
  <2>1. \A f \in Event : row[f] = "absent" => row'[f] = "absent"
    <3>1. CASE pc[p] = "delete"
      BY <1>1, <3>1 DEF Deleted, TypeOK
    <3>2. CASE pc[p] # "delete"
      BY <1>1, <3>2 DEF BackedOff, TypeOK
    <3> QED BY <3>1, <3>2
  <2> QED BY <1>1, <1>a, <2>1 DEF TypeOK, RowsRecorded, Queued, BatchRecorded
<1>4. NothingForgotten'
  <2>1. pc[p] = "delete" => e \in handed
    BY <1>1 DEF DeletedIsHanded
  <2>2. \A f \in Event : row[f] # "absent" => row'[f] # "absent" \/ f \in handed
    <3>1. CASE pc[p] = "delete"
      BY <1>1, <2>1, <3>1 DEF Deleted, TypeOK
    <3>2. CASE pc[p] # "delete"
      BY <1>1, <3>2 DEF BackedOff, TypeOK
    <3> QED BY <3>1, <3>2
  <2> QED BY <1>a, <2>2 DEF NothingForgotten, Queue!NothingForgotten
<1>5. DeletedIsHanded'
  <2>1. \A q \in Proc : pc'[q] = "delete" => q # p /\ pc[q] = "delete"
    BY <1>b DEF TypeOK
  <2>2. \A q \in Proc \ {p} : batch'[q] = batch[q]
    BY <1>1 DEF TypeOK
  <2> QED BY <1>a, <2>1, <2>2 DEF DeletedIsHanded
<1> QED BY <1>2, <1>3, <1>4, <1>5

(* Selecting a batch keeps the invariant.                                 *)
LEMMA SelectKeeps ==
  ASSUME IInv, NEW p \in Proc, Select(p)
  PROVE  IInv'
<1> USE DEF IInv, Select, table, Goto
<1>1. PICK s \in SUBSET Ready : batch' = [batch EXCEPT ![p] = s]
  BY DEF Select
<1>2. s \subseteq Event /\ s \subseteq recorded
  BY <1>1 DEF Ready, RowsRecorded, Queued
<1>3. TypeOK'
  BY <1>1, <1>2 DEF TypeOK, Step
<1>4. RowsRecorded' /\ BatchRecorded' /\ NothingForgotten'
  BY <1>1, <1>2 DEF TypeOK, RowsRecorded, Queued, BatchRecorded, NothingForgotten, Queue!NothingForgotten
<1>5. DeletedIsHanded'
  <2>1. \A q \in Proc : pc'[q] = "delete" => q # p /\ pc[q] = "delete"
    BY DEF TypeOK
  <2>2. \A q \in Proc \ {p} : batch'[q] = batch[q]
    BY <1>1 DEF TypeOK
  <2> QED BY <2>1, <2>2 DEF DeletedIsHanded
<1> QED BY <1>3, <1>4, <1>5

(* A crash keeps the invariant.                                           *)
LEMMA CrashKeeps ==
  ASSUME IInv, NEW p \in Proc, Crash(p)
  PROVE  IInv'
<1> USE DEF IInv, Crash, table, Goto
<1>1. TypeOK'
  BY DEF TypeOK, Step
<1>2. RowsRecorded' /\ BatchRecorded' /\ NothingForgotten'
  BY DEF TypeOK, RowsRecorded, Queued, BatchRecorded, NothingForgotten, Queue!NothingForgotten
<1>3. DeletedIsHanded'
  <2>1. \A q \in Proc : pc'[q] = "delete" => q # p /\ pc[q] = "delete" /\ batch'[q] = batch[q]
    BY DEF TypeOK
  <2> QED BY <2>1 DEF DeletedIsHanded
<1> QED BY <1>1, <1>2, <1>3

(* A back-off that ends keeps the invariant.                              *)
LEMMA WakeKeeps ==
  ASSUME IInv, NEW e \in Event, Wake(e)
  PROVE  IInv'
<1> USE DEF IInv, Wake, local
<1>1. TypeOK'
  BY DEF TypeOK
<1>2. \A f \in Event : row'[f] = "absent" <=> row[f] = "absent"
  BY DEF TypeOK
<1> QED BY <1>1, <1>2 DEF RowsRecorded, Queued, BatchRecorded, DeletedIsHanded,
           NothingForgotten, Queue!NothingForgotten

-----------------------------------------------------------------------------
(* Every step of the specification keeps the invariant.                    *)
LEMMA NextKeepsIInv == IInv /\ [Next]_vars => IInv'
<1> SUFFICES ASSUME IInv, [Next]_vars PROVE IInv'
  OBVIOUS
<1>1. ASSUME NEW p \in Proc, Start(p) PROVE IInv'
  <2>1. TypeOK' /\ UNCHANGED <<row, recorded, handed, batch>>
    BY <1>1, SizeAssumption DEF IInv, TypeOK, Start, Goto, table, Event, Step
  <2>2. \A q \in Proc : pc'[q] = "delete" => pc[q] = "delete"
    BY <1>1 DEF IInv, TypeOK, Start, Goto
  <2> QED BY <2>1, <2>2, QuietKeeps
<1>2. ASSUME NEW p \in Proc, PublishRaises(p) PROVE IInv'
  <2>1. TypeOK' /\ UNCHANGED <<row, recorded, handed, batch>>
    BY <1>2 DEF IInv, TypeOK, PublishRaises, Goto, table, local, Step
  <2>2. \A q \in Proc : pc'[q] = "delete" => pc[q] = "delete"
    BY <1>2 DEF IInv, TypeOK, PublishRaises, Goto
  <2> QED BY <2>1, <2>2, QuietKeeps
<1>3. ASSUME NEW p \in Proc, Upload(p) PROVE IInv'
  <2>1. TypeOK' /\ UNCHANGED <<row, recorded, handed, batch, pc>>
    BY <1>3 DEF IInv, TypeOK, Upload, table, local
  <2> QED BY <2>1, QuietKeeps
<1>4. ASSUME NEW p \in Proc, FlushClient(p) PROVE IInv'
  <2>1. arrived' \subseteq Event /\ buffer' \in [Proc -> SUBSET Event] /\ EndFlush(p)
    BY <1>4 DEF IInv, TypeOK, FlushClient
  <2> QED BY <2>1, EndFlushKeeps
<1>5. ASSUME NEW p \in Proc, DrainRaises(p) PROVE IInv'
  <2>1. arrived' \subseteq Event /\ buffer' \in [Proc -> SUBSET Event] /\ EndFlush(p)
    BY <1>5 DEF IInv, TypeOK, DrainRaises
  <2> QED BY <2>1, EndFlushKeeps
<1>6. CASE UNCHANGED vars
  BY <1>6, QuietKeeps DEF vars, table, local, IInv, TypeOK
<1>7. QED
  BY <1>1, <1>2, <1>3, <1>4, <1>5, <1>6, RecordKeeps, SelectKeeps, PublishKeeps, SettleKeeps,
     CrashKeeps, WakeKeeps DEF Next, Command

(* The invariant holds in every reachable state.                           *)
THEOREM IInvAlways == Spec => []IInv
  BY InitIInv, NextKeepsIInv, PTL DEF Spec

(* Every variable keeps a value of its kind.                               *)
THEOREM TypeCorrect == Spec => []TypeOK
<1>1. IInv => TypeOK
  BY DEF IInv
<1> QED BY <1>1, IInvAlways, PTL

(* No interleaving of drains, crash or failed statement loses an event     *)
(* from the table before it was handed to the transport.                   *)
THEOREM NeverForgotten == Spec => []NothingForgotten
<1>1. IInv => NothingForgotten
  BY DEF IInv
<1> QED BY <1>1, IInvAlways, PTL

-----------------------------------------------------------------------------
(* The refinement: enqueue accepts, publish hands over, DELETE settles, and *)
(* every other step leaves the queue alone.                                 *)
LEMMA StepRefines == IInv /\ [Next]_vars => [Queue!Next]_(Queue!vars)
<1> SUFFICES ASSUME IInv, [Next]_vars
             PROVE  Queue!Next \/ UNCHANGED Queue!vars
  OBVIOUS
<1> USE DEF Queue!vars
<1>1. ASSUME NEW p \in Proc, Record(p) PROVE Queue!Next
  <2>1. next[p] \in Event
    BY DEF IInv, TypeOK
  <2>2. Queued' = Queued \cup {next[p]}
    BY <1>1, <2>1 DEF Record, Inserted, IInv, TypeOK, Queued
  <2>3. Queue!Accept(next[p])
    BY <1>1, <2>2 DEF Record, Queue!Accept, Queued
  <2> QED BY <2>1, <2>3 DEF Queue!Next, Queue!Accept
<1>2. ASSUME NEW p \in Proc, Publish(p) PROVE Queue!Next
  <2>1. PICK e \in batch[p] : handed' = handed \cup {e}
    BY <1>2 DEF Publish
  <2>2. e \in Event /\ e \in recorded
    BY DEF IInv, TypeOK, BatchRecorded
  <2>3. Queue!Hand(e)
    BY <1>2, <2>1, <2>2 DEF Publish, table, Queue!Hand
  <2> QED BY <2>2, <2>3 DEF Queue!Next
<1>3. ASSUME NEW p \in Proc, Settle(p) PROVE Queue!Next \/ UNCHANGED Queue!vars
  <2>1. PICK e \in batch[p] : /\ IsFirst(e, batch[p])
                              /\ row' = IF pc[p] = "delete" THEN Deleted(e) ELSE BackedOff(e)
    BY <1>3 DEF Settle
  <2>2. e \in Event
    BY DEF IInv, TypeOK
  <2>3. CASE pc[p] = "delete"
    <3>1. e \in handed
      BY <2>1, <2>3 DEF IInv, DeletedIsHanded
    <3>2. Queued' = Queued \ {e}
      BY <2>1, <2>2, <2>3 DEF Deleted, IInv, TypeOK, Queued
    <3>3. Queue!Settle(e)
      BY <1>3, <3>1, <3>2 DEF Settle, Queue!Settle, Queued
    <3> QED BY <2>2, <3>3 DEF Queue!Next
  <2>4. CASE pc[p] # "delete"
    <3>1. Queued' = Queued
      BY <2>1, <2>2, <2>4 DEF BackedOff, IInv, TypeOK, Queued
    <3> QED BY <1>3, <3>1 DEF Settle, Queued
  <2> QED BY <2>3, <2>4
<1>4. ASSUME NEW e \in Event, Wake(e) PROVE UNCHANGED Queue!vars
  <2>1. Queued' = Queued
    BY <1>4 DEF Wake, IInv, TypeOK, Queued
  <2> QED BY <1>4, <2>1 DEF Wake, Queued
<1>5. ASSUME NEW p \in Proc,
             Start(p) \/ Select(p) \/ PublishRaises(p) \/ FlushClient(p)
               \/ DrainRaises(p) \/ Upload(p) \/ Crash(p)
      PROVE  UNCHANGED Queue!vars
  BY <1>5 DEF Start, Select, PublishRaises, FlushClient, DrainRaises, EndFlush, Upload, Crash, table
<1>6. CASE UNCHANGED vars
  BY <1>6 DEF vars, table
<1> QED BY <1>1, <1>2, <1>3, <1>4, <1>5, <1>6 DEF Next, Command

(* The outbox implements the at-least-once queue.                          *)
THEOREM Refinement == Spec => ImplementsDelivery
<1>1. Init => Queue!Init
  BY DEF Init, Queue!Init
<1> QED BY <1>1, StepRefines, IInvAlways, PTL DEF Spec, Queue!Spec, ImplementsDelivery
-----------------------------------------------------------------------------
(* What the transport knows of, the run recorded: nothing arrives that was *)
(* not handed over, and nothing is handed over that was not enqueued.      *)
NothingInvented ==
  /\ arrived \subseteq handed /\ handed \subseteq recorded
  /\ \A p \in Proc : buffer[p] \subseteq handed

(* Duplicates aside, the trace a run leaves in Langfuse is a part of its   *)
(* event log, whatever processes drained it, died or uploaded late.        *)
THEOREM TraceIsOfTheRun == Spec => []NothingInvented
<1>1. Init => NothingInvented
  BY DEF Init, NothingInvented
<1>2. IInv /\ NothingInvented /\ [Next]_vars => NothingInvented'
  <2> SUFFICES ASSUME IInv, NothingInvented, [Next]_vars PROVE NothingInvented'
    OBVIOUS
  <2> USE DEF NothingInvented
  <2>1. ASSUME NEW p \in Proc, Record(p) PROVE NothingInvented'
    BY <2>1 DEF Record
  <2>2. ASSUME NEW p \in Proc, Publish(p) PROVE NothingInvented'
    <3>1. PICK e \in batch[p] : /\ handed' = handed \cup {e}
                                /\ buffer' = [buffer EXCEPT ![p] = @ \cup {e}]
      BY <2>2 DEF Publish
    <3>2. e \in recorded /\ UNCHANGED <<recorded, arrived>>
      BY <2>2 DEF IInv, BatchRecorded, Publish, table
    <3>3. \A q \in Proc : buffer'[q] \subseteq buffer[q] \cup {e}
      BY <3>1 DEF IInv, TypeOK
    <3> QED BY <3>1, <3>2, <3>3
  <2>3. ASSUME NEW p \in Proc, FlushClient(p) \/ Upload(p) \/ Crash(p) PROVE NothingInvented'
    <3>1. UNCHANGED <<recorded, handed>> /\ arrived' \subseteq arrived \cup buffer[p]
      BY <2>3 DEF FlushClient, EndFlush, Upload, Crash, table
    <3>2. \A q \in Proc : buffer'[q] \subseteq buffer[q]
      BY <2>3 DEF FlushClient, Upload, Crash, IInv, TypeOK
    <3> QED BY <3>1, <3>2
  <2>4. ASSUME NEW p \in Proc,
               Start(p) \/ Select(p) \/ Settle(p) \/ PublishRaises(p) \/ DrainRaises(p)
        PROVE  NothingInvented'
    <3>1. UNCHANGED <<recorded, handed, arrived, buffer>>
      BY <2>4 DEF Start, Select, Settle, PublishRaises, DrainRaises, EndFlush, table
    <3> QED BY <3>1
  <2>5. CASE \E e \in Event : Wake(e)
    BY <2>5 DEF Wake
  <2>6. CASE UNCHANGED vars
    BY <2>6 DEF vars, table
  <2> QED BY <2>1, <2>2, <2>3, <2>4, <2>5, <2>6 DEF Next, Command
<1> QED BY <1>1, <1>2, IInvAlways, PTL DEF Spec

-----------------------------------------------------------------------------
(* A drain that reaches the table never leaves out one of the run's first  *)
(* Limit events that is ready.                                             *)
FirstAreSelected ==
  [][\A p \in Proc, e \in Event : Select(p) /\ e \in Ready /\ e <= Limit => e \in batch'[p]]_vars

(* An event selected past another is past a whole batch of them.           *)
LEMMA SkippedByAFullBatch ==
  ASSUME NEW s \in SUBSET Ready, NEW e \in Ready \ s,
         Cardinality(s) = (IF Cardinality(Ready) < Limit THEN Cardinality(Ready) ELSE Limit),
         \A f \in s : f < e
  PROVE  e > Limit
<1> USE SizeAssumption
<1>1. e \in Nat \ {0} /\ IsFiniteSet(1..(e - 1)) /\ Cardinality(1..(e - 1)) = e - 1
  <2>1. e \in 1..N
    BY DEF Ready, Event
  <2> QED BY <2>1, FS_Interval
<1>2. s \in SUBSET (1..(e - 1)) /\ Ready \in SUBSET Event
  BY <1>1 DEF Ready, Event
<1>3. IsFiniteSet(Ready) /\ Cardinality(Ready) \in Nat
  <2>1. IsFiniteSet(1..N)
    BY FS_Interval
  <2>2. Ready \in SUBSET (1..N)
    BY <1>2 DEF Event
  <2>3. IsFiniteSet(Ready)
    BY <2>1, <2>2, FS_Subset
  <2> QED BY <2>3, FS_CardinalityType
<1>4. Cardinality(s) # Cardinality(Ready)
  <2>1. Cardinality(Ready) = Cardinality(s) => Ready = s
    BY <1>3, FS_Subset
  <2> QED BY <2>1
<1>5. Cardinality(s) <= e - 1
  <2>1. Cardinality(s) <= Cardinality(1..(e - 1))
    BY ONLY <1>1, <1>2, FS_Subset
  <2> QED BY <1>1, <2>1
<1>6. Cardinality(s) = Limit
  BY <1>4
<1> QED BY <1>1, <1>5, <1>6

(* How far EventuallyHanded can fail: two backfills of a long run may      *)
(* drain the same first rows again and again, but the rows they keep out   *)
(* lie beyond the limit; a run of at most Limit events is drained whole.   *)
THEOREM ShortRunsAreDrained == Spec => FirstAreSelected
<1>1. IInv /\ [Next]_vars =>
        \A p \in Proc, e \in Event : Select(p) /\ e \in Ready /\ e <= Limit => e \in batch'[p]
  <2> SUFFICES ASSUME IInv, NEW p \in Proc, NEW e \in Event, Select(p), e \in Ready, e <= Limit
               PROVE  e \in batch'[p]
    OBVIOUS
  <2>1. PICK s \in SUBSET Ready :
          /\ Cardinality(s) = (IF Cardinality(Ready) < Limit THEN Cardinality(Ready) ELSE Limit)
          /\ \A g \in s, f \in Ready \ s : g < f
          /\ batch' = [batch EXCEPT ![p] = s]
    BY DEF Select
  <2>2. e \in s
    <3> SUFFICES ASSUME e \notin s PROVE FALSE
      OBVIOUS
    <3>1. e > Limit
      BY <2>1, SkippedByAFullBatch
    <3> QED BY <3>1, SizeAssumption DEF Event
  <2> QED BY <2>1, <2>2 DEF IInv, TypeOK
<1> QED BY <1>1, IInvAlways, PTL DEF Spec, FirstAreSelected
-----------------------------------------------------------------------------
(* How many steps a process's command may still take: the events left to   *)
(* enqueue, the rows left in its batch -- each published and settled -- and *)
(* the flush after this one.                                               *)
FlushSteps == 2 * Limit + 2
Rest(p)    == IF flush[p] = 1 THEN FlushSteps ELSE 0
Rows(p)    == Cardinality(batch[p])

StepsLeft(p) ==
  CASE pc[p] = "idle"                  -> 0
    [] pc[p] = "record"                -> N - next[p] + 1 + 2 * FlushSteps
    [] pc[p] = "select"                -> FlushSteps + Rest(p)
    [] pc[p] = "publish"               -> 2 * Rows(p) + 1 + Rest(p)
    [] pc[p] \in {"delete", "backoff"} -> 2 * Rows(p) + Rest(p)

LongestCommand == N + 2 * FlushSteps

Works(p) == Command(p) \/ PublishRaises(p) \/ DrainRaises(p)

(* Every step of a command takes one away, failures included, and nothing  *)
(* gives it more but starting the command again.                           *)
CommandRunsOut ==
  [][\A p \in Proc : /\ Works(p) => StepsLeft(p)' < StepsLeft(p)
                     /\ ~Works(p) /\ ~Start(p) => StepsLeft(p)' <= StepsLeft(p)]_vars

(* A drain holds at most Limit rows; a command that still records has both *)
(* its flushes before it.                                                  *)
Sized(p) == Rows(p) <= Limit /\ (pc[p] = "record" => flush[p] = 1)
AllSized == \A p \in Proc : Sized(p)

(* A process's command is its own: no other process touches its state.     *)
Own(p) == <<pc[p], next[p], flush[p], batch[p]>>

(* No process's step is felt by another's command.                         *)
LEMMA OthersKeepTheirs ==
  ASSUME IInv, NEW p \in Proc, Start(p) \/ Works(p) \/ Upload(p) \/ Crash(p),
         NEW q \in Proc \ {p}
  PROVE  Own(q)' = Own(q)
BY DEF IInv, TypeOK, Own, Start, Works, Command, Record, Select, Publish, PublishRaises,
   Settle, FlushClient, DrainRaises, EndFlush, Upload, Crash, Goto, local

(* Own state is all the count depends on.                                  *)
LEMMA OwnDecides ==
  ASSUME NEW q \in Proc, Own(q)' = Own(q)
  PROVE  StepsLeft(q)' = StepsLeft(q) /\ (Sized(q) => Sized(q)')
BY DEF Own, StepsLeft, Rest, Rows, Sized

(* Batches are finite, and a row less is one less.                         *)
LEMMA RowsCount ==
  ASSUME IInv, NEW p \in Proc
  PROVE  /\ IsFiniteSet(batch[p]) /\ Rows(p) \in Nat
         /\ batch[p] = {} <=> Rows(p) = 0
         /\ \A e \in batch[p] : Cardinality(batch[p] \ {e}) = Rows(p) - 1
<1>1. IsFiniteSet(1..N)
  BY SizeAssumption, FS_Interval
<1>2. batch[p] \in SUBSET (1..N)
  BY DEF IInv, TypeOK, Event
<1>3. IsFiniteSet(batch[p])
  BY <1>1, <1>2, FS_Subset
<1>4. Rows(p) \in Nat
  BY <1>3, FS_CardinalityType DEF Rows
<1>5. batch[p] = {} <=> Rows(p) = 0
  BY <1>3, FS_EmptySet DEF Rows
<1>6. ASSUME NEW e \in batch[p] PROVE Cardinality(batch[p] \ {e}) = Rows(p) - 1
  BY <1>3, FS_RemoveElement DEF Rows
<1> QED BY <1>3, <1>4, <1>5, <1>6

(* A selected batch has at most Limit rows.                                *)
LEMMA SelectedRows ==
  ASSUME IInv, NEW p \in Proc, Select(p)
  PROVE  Rows(p)' <= Limit /\ Rows(p)' \in Nat
<1>1. PICK s \in SUBSET Ready :
        /\ Cardinality(s) = (IF Cardinality(Ready) < Limit THEN Cardinality(Ready) ELSE Limit)
        /\ batch' = [batch EXCEPT ![p] = s]
  BY DEF Select
<1>2. batch'[p] = s
  BY <1>1 DEF IInv, TypeOK
<1>3. IsFiniteSet(1..N)
  BY SizeAssumption, FS_Interval
<1>4. Ready \in SUBSET (1..N)
  BY DEF Ready, Event
<1>5. IsFiniteSet(Ready)
  BY <1>3, <1>4, FS_Subset
<1>6. Cardinality(Ready) \in Nat /\ Limit \in Nat
  BY <1>5, FS_CardinalityType, SizeAssumption
<1> QED BY <1>1, <1>2, <1>6 DEF Rows

(* A settled row leaves the batch, an ended flush all of them.             *)
LEMMA SettledRows ==
  ASSUME IInv, NEW p \in Proc, Settle(p)
  PROVE  Rows(p)' = Rows(p) - 1 /\ Rows(p) >= 1
<1>1. PICK e \in batch[p] : batch' = [batch EXCEPT ![p] = @ \ {e}]
  BY DEF Settle
<1>2. batch'[p] = batch[p] \ {e}
  BY <1>1 DEF IInv, TypeOK
<1>3. Cardinality(batch[p] \ {e}) = Rows(p) - 1 /\ Rows(p) \in Nat /\ Rows(p) # 0
  BY <1>1, RowsCount
<1> QED BY <1>2, <1>3 DEF Rows

(* What ending a flush leaves to do.                                       *)
LEMMA EndedFlush ==
  ASSUME IInv, NEW p \in Proc, EndFlush(p)
  PROVE  /\ StepsLeft(p)' = Rest(p)
         /\ Rows(p)' = 0 /\ pc'[p] \in {"select", "idle"}
<1>1. /\ pc'[p] = IF flush[p] = 1 THEN "select" ELSE "idle"
      /\ flush'[p] = 2 /\ batch'[p] = {}
  BY DEF IInv, TypeOK, EndFlush, Goto
<1>2. Rest(p)' = 0
  BY <1>1 DEF Rest
<1>3. StepsLeft(p)' = Rest(p)
  <2>1. CASE flush[p] = 1
    <3>1. pc'[p] = "select"
      BY <1>1, <2>1
    <3>2. StepsLeft(p)' = FlushSteps + Rest(p)'
      BY <3>1 DEF StepsLeft, Rest, FlushSteps
    <3>3. FlushSteps \in Nat /\ Rest(p) = FlushSteps
      BY <2>1, SizeAssumption DEF FlushSteps, Rest
    <3> QED BY <1>2, <3>2, <3>3
  <2>2. CASE flush[p] # 1
    <3>1. pc'[p] = "idle"
      BY <1>1, <2>2
    <3>2. StepsLeft(p)' = 0
      BY <3>1 DEF StepsLeft
    <3> QED BY <2>2, <3>2 DEF Rest
  <2> QED BY <2>1, <2>2
<1>4. Rows(p)' = 0
  BY <1>1, FS_EmptySet DEF Rows
<1> QED BY <1>1, <1>3, <1>4

(* A step of the command takes one away.                                   *)
LEMMA WorkRunsOut ==
  ASSUME IInv, NEW p \in Proc, Sized(p), Works(p)
  PROVE  StepsLeft(p)' < StepsLeft(p)
<1> USE SizeAssumption
<1>1. /\ next[p] \in 1..N /\ Rows(p) \in Nat /\ FlushSteps = 2 * Limit + 2
      /\ Rest(p) \in {0, FlushSteps}
  BY RowsCount DEF IInv, TypeOK, Event, FlushSteps, Rest
<1>2. CASE Record(p)
  <2>1. pc[p] = "record" /\ flush[p] = 1 /\ flush' = flush
    BY <1>2 DEF Record, Sized
  <2>2. StepsLeft(p) = N - next[p] + 1 + 2 * FlushSteps
    BY <2>1 DEF StepsLeft
  <2>3. CASE LastEvent(p)
    <3>1. pc'[p] = "select" /\ Rest(p)' = FlushSteps
      BY <1>2, <2>1, <2>3 DEF Record, Goto, IInv, TypeOK, Rest
    <3>2. StepsLeft(p)' = FlushSteps + FlushSteps
      BY <3>1 DEF StepsLeft
    <3> QED BY <1>1, <2>2, <3>2
  <2>4. CASE ~LastEvent(p)
    <3>1. pc'[p] = "record" /\ next'[p] = next[p] + 1
      BY <1>2, <2>1, <2>4 DEF Record, IInv, TypeOK
    <3>2. StepsLeft(p)' = N - (next[p] + 1) + 1 + 2 * FlushSteps
      BY <3>1 DEF StepsLeft, FlushSteps
    <3> QED BY <1>1, <2>2, <3>2
  <2> QED BY <2>3, <2>4
<1>3. CASE Select(p)
  <2>1. pc[p] = "select" /\ pc'[p] = "publish" /\ flush' = flush
    BY <1>3 DEF Select, Goto, IInv, TypeOK, local
  <2>2. StepsLeft(p) = FlushSteps + Rest(p) /\ StepsLeft(p)' = 2 * Rows(p)' + 1 + Rest(p)
    BY <2>1 DEF StepsLeft, Rest
  <2>3. PICK n \in Nat : n = Rows(p)' /\ n <= Limit
    BY <1>3, SelectedRows
  <2>4. StepsLeft(p)' = 2 * n + 1 + Rest(p)
    BY <2>2, <2>3
  <2> QED BY <1>1, <2>2, <2>3, <2>4
<1>4. CASE Publish(p) \/ PublishRaises(p)
  <2>1. pc[p] = "publish" /\ pc'[p] \in {"delete", "backoff"} /\ UNCHANGED local
    BY <1>4 DEF Publish, PublishRaises, Goto, IInv, TypeOK
  <2>2. StepsLeft(p) = 2 * Rows(p) + 1 + Rest(p) /\ StepsLeft(p)' = 2 * Rows(p) + Rest(p)
    BY <2>1 DEF StepsLeft, Rest, Rows, local
  <2> QED BY <1>1, <2>2
<1>5. CASE Settle(p)
  <2>1. pc[p] \in {"delete", "backoff"} /\ pc'[p] = "publish" /\ flush' = flush
    BY <1>5 DEF Settle, Goto, IInv, TypeOK
  <2>2. Rows(p)' = Rows(p) - 1
    BY <1>5, SettledRows
  <2>3. StepsLeft(p) = 2 * Rows(p) + Rest(p) /\ StepsLeft(p)' = 2 * (Rows(p) - 1) + 1 + Rest(p)
    BY <2>1, <2>2 DEF StepsLeft, Rest
  <2> QED BY <1>1, <2>3
<1>6. CASE FlushClient(p) \/ DrainRaises(p)
  <2>1. StepsLeft(p)' = Rest(p)
    BY <1>6, EndedFlush DEF FlushClient, DrainRaises
  <2>2. StepsLeft(p) > Rest(p)
    <3>1. CASE pc[p] = "publish"
      <4>1. StepsLeft(p) = 2 * Rows(p) + 1 + Rest(p)
        BY <3>1 DEF StepsLeft
      <4> QED BY <1>1, <4>1
    <3>2. CASE pc[p] = "select"
      <4>1. StepsLeft(p) = FlushSteps + Rest(p)
        BY <3>2 DEF StepsLeft
      <4> QED BY <1>1, <4>1
    <3>3. CASE pc[p] \in {"delete", "backoff"}
      <4>1. Rows(p) # 0
        BY <3>3, RowsCount DEF IInv, TypeOK
      <4>2. StepsLeft(p) = 2 * Rows(p) + Rest(p)
        BY <3>3 DEF StepsLeft
      <4> QED BY <1>1, <4>1, <4>2
    <3> QED BY <1>6, <3>1, <3>2, <3>3 DEF FlushClient, DrainRaises
  <2> QED BY <2>1, <2>2
<1> QED BY <1>2, <1>3, <1>4, <1>5, <1>6 DEF Works, Command

(* The sizes hold initially, and every step keeps them.                    *)
LEMMA SizedStep ==
  ASSUME IInv, AllSized, [Next]_vars
  PROVE  AllSized'
<1> USE SizeAssumption
<1>1. ASSUME NEW p \in Proc, Start(p) \/ Works(p) \/ Upload(p) \/ Crash(p)
      PROVE  AllSized'
  <2>1. \A q \in Proc \ {p} : Sized(q)'
    BY <1>1, OthersKeepTheirs, OwnDecides DEF AllSized
  <2>2. Sized(p)'
    <3>0. Sized(p) /\ Rows(p) \in Nat
      BY RowsCount DEF AllSized
    <3>1. CASE Start(p)
      <4>1. pc'[p] = "record" /\ flush'[p] = 1 /\ batch' = batch
        BY <3>1 DEF Start, Goto, IInv, TypeOK
      <4> QED BY <3>0, <4>1 DEF Sized, Rows
    <3>2. CASE Record(p)
      <4>1. pc[p] = "record" /\ UNCHANGED <<flush, batch>>
        BY <3>2 DEF Record
      <4> QED BY <3>0, <4>1 DEF Sized, Rows
    <3>3. CASE Select(p)
      <4>1. pc'[p] = "publish"
        BY <3>3 DEF Select, Goto, IInv, TypeOK
      <4>2. Rows(p)' <= Limit
        BY <3>3, SelectedRows
      <4> QED BY <4>1, <4>2 DEF Sized
    <3>4. CASE Publish(p) \/ PublishRaises(p)
      <4>1. pc'[p] \in {"delete", "backoff"} /\ UNCHANGED <<flush, batch>>
        BY <3>4 DEF Publish, PublishRaises, Goto, IInv, TypeOK, local
      <4> QED BY <3>0, <4>1 DEF Sized, Rows
    <3>5. CASE Settle(p)
      <4>1. pc'[p] = "publish"
        BY <3>5 DEF Settle, Goto, IInv, TypeOK
      <4>2. Rows(p)' = Rows(p) - 1 /\ Rows(p) <= Limit
        BY <3>0, <3>5, SettledRows DEF Sized
      <4>3. Rows(p)' <= Limit
        BY <3>0, <4>2
      <4> QED BY <4>1, <4>3 DEF Sized
    <3>6. CASE FlushClient(p) \/ DrainRaises(p)
      <4>1. Rows(p)' = 0 /\ pc'[p] \in {"select", "idle"}
        BY <3>6, EndedFlush DEF FlushClient, DrainRaises
      <4> QED BY <4>1 DEF Sized
    <3>7. CASE Upload(p)
      <4>1. UNCHANGED <<pc, flush, batch>>
        BY <3>7 DEF Upload, local
      <4> QED BY <3>0, <4>1 DEF Sized, Rows
    <3>8. CASE Crash(p)
      <4>1. pc'[p] = "idle" /\ batch'[p] = {}
        BY <3>8 DEF Crash, Goto, IInv, TypeOK
      <4>2. Rows(p)' = 0
        BY <4>1, FS_EmptySet DEF Rows
      <4> QED BY <4>1, <4>2 DEF Sized
    <3> QED BY <1>1, <3>1, <3>2, <3>3, <3>4, <3>5, <3>6, <3>7, <3>8 DEF Works, Command
  <2> QED BY <2>1, <2>2 DEF AllSized
<1>2. CASE UNCHANGED vars \/ \E e \in Event : Wake(e)
  <2>1. UNCHANGED <<pc, flush, batch>>
    BY <1>2 DEF vars, Wake, local
  <2> QED BY <2>1 DEF AllSized, Sized, Rows
<1> QED BY <1>1, <1>2 DEF Next, Works

(* The count is a number below the longest command's.                      *)
LEMMA StepsCount ==
  ASSUME IInv, NEW p \in Proc, Sized(p)
  PROVE  StepsLeft(p) \in 0..LongestCommand
<1> USE SizeAssumption
<1>1. /\ next[p] \in 1..N /\ Rows(p) \in Nat /\ FlushSteps = 2 * Limit + 2
      /\ Rest(p) \in {0, FlushSteps} /\ LongestCommand = N + 2 * FlushSteps
  BY RowsCount DEF IInv, TypeOK, Event, FlushSteps, Rest, LongestCommand
<1>2. Rows(p) <= Limit
  BY DEF Sized
<1>3. CASE pc[p] = "idle"
  <2>1. StepsLeft(p) = 0
    BY <1>3 DEF StepsLeft
  <2> QED BY <1>1, <2>1
<1>4. CASE pc[p] = "record"
  <2>1. StepsLeft(p) = N - next[p] + 1 + 2 * FlushSteps
    BY <1>4 DEF StepsLeft
  <2> QED BY <1>1, <2>1
<1>5. CASE pc[p] = "select"
  <2>1. StepsLeft(p) = FlushSteps + Rest(p)
    BY <1>5 DEF StepsLeft
  <2> QED BY <1>1, <2>1
<1>6. CASE pc[p] \in {"publish", "delete", "backoff"}
  <2>1. StepsLeft(p) \in {2 * Rows(p) + 1 + Rest(p), 2 * Rows(p) + Rest(p)}
    BY <1>6 DEF StepsLeft
  <2> QED BY <1>1, <1>2, <2>1
<1>7. pc[p] \in Step
  BY DEF IInv, TypeOK
<1> QED BY <1>3, <1>4, <1>5, <1>6, <1>7 DEF Step

(* No backfill runs for ever, however many processes share the table and   *)
(* however often publishing or a statement fails: a command that is not    *)
(* killed ends after at most LongestCommand steps of its own.  It is the   *)
(* safety half of the retry loop EventuallyHanded is about.                *)
THEOREM CommandsAreFinite ==
  Spec => [](\A p \in Proc : StepsLeft(p) \in 0..LongestCommand) /\ CommandRunsOut
<1>1. Init => AllSized
  <2> SUFFICES ASSUME Init, NEW p \in Proc PROVE Sized(p)
    BY DEF AllSized
  <2>1. Rows(p) = 0 /\ pc[p] = "idle"
    BY FS_EmptySet DEF Init, Rows
  <2> QED BY <2>1, SizeAssumption DEF Sized
<1>2. IInv /\ AllSized /\ [Next]_vars => AllSized'
  BY SizedStep
<1>3. IInv /\ AllSized => \A p \in Proc : StepsLeft(p) \in 0..LongestCommand
  BY StepsCount DEF AllSized
<1>4. IInv /\ AllSized /\ [Next]_vars =>
        [\A p \in Proc : /\ Works(p) => StepsLeft(p)' < StepsLeft(p)
                         /\ ~Works(p) /\ ~Start(p) => StepsLeft(p)' <= StepsLeft(p)]_vars
  <2> SUFFICES ASSUME IInv, AllSized, Next, NEW p \in Proc
               PROVE  /\ Works(p) => StepsLeft(p)' < StepsLeft(p)
                      /\ ~Works(p) /\ ~Start(p) => StepsLeft(p)' <= StepsLeft(p)
    OBVIOUS
  <2>1. Works(p) => StepsLeft(p)' < StepsLeft(p)
    BY WorkRunsOut DEF AllSized
  <2>2. StepsLeft(p) \in Nat
    <3>1. StepsLeft(p) \in 0..LongestCommand
      BY StepsCount DEF AllSized
    <3> QED BY <3>1
  <2>3. CASE Own(p)' = Own(p)
    <3>1. StepsLeft(p)' = StepsLeft(p)
      BY <2>3, OwnDecides
    <3> QED BY <2>1, <2>2, <3>1
  <2>4. CASE Crash(p)
    <3>1. pc'[p] = "idle"
      BY <2>4 DEF Crash, Goto, IInv, TypeOK
    <3>2. StepsLeft(p)' = 0
      BY <3>1 DEF StepsLeft
    <3> QED BY <2>1, <2>2, <3>2
  <2>5. ASSUME ~Works(p), ~Start(p), ~Crash(p) PROVE Own(p)' = Own(p)
    <3>1. CASE Upload(p) \/ \E e \in Event : Wake(e)
      BY <3>1 DEF Upload, Wake, local, Own
    <3>2. CASE \E q \in Proc \ {p} : Start(q) \/ Works(q) \/ Upload(q) \/ Crash(q)
      BY <3>2, OthersKeepTheirs
    <3> QED BY <2>5, <3>1, <3>2 DEF Next, Works
  <2> QED BY <2>1, <2>3, <2>4, <2>5
<1> QED BY <1>1, <1>2, <1>3, <1>4, IInvAlways, PTL DEF Spec, CommandRunsOut
=============================================================================
