------------------------------- MODULE Outbox -------------------------------
(***************************************************************************)
(* The observability outbox and its client, the backfill command: every    *)
(* event of a run is inserted into a SQLite table (INSERT OR IGNORE), and  *)
(* two flushes hand ready rows to the Langfuse SDK, each row deleted after *)
(* its publish returned and backed off after it raised.                    *)
(*                                                                         *)
(* Commands of several processes share the table; each statement is one    *)
(* transaction and publishing happens between them, outside any lock.  A   *)
(* process may die between any two steps.  The SDK buffers what it is      *)
(* given and uploads in the background or when flushed.                    *)
(***************************************************************************)
EXTENDS Integers, FiniteSets

CONSTANTS N,      \* events of the run; event_seq numbers them 1..N
          Proc,   \* processes that may run the backfill command
          Limit   \* rows one drain selects

ASSUME SizeAssumption == N \in Nat \ {0} /\ Limit \in Nat \ {0}

Event == 1..N

VARIABLES
  row,       \* the table: absent, ready, or waiting for next_attempt_at
  recorded,  \* events ever enqueued
  handed,    \* events for which publish has returned
  arrived,   \* events Langfuse received
  pc,        \* where each process's command is
  next,      \* the event the command enqueues next
  flush,     \* which of its two flushes the command is in
  batch,     \* selected rows not yet handled; handled in event_seq order
  buffer     \* events in the process's SDK buffer

table == <<row, recorded>>
local == <<next, flush, batch>>
vars  == <<table, handed, arrived, pc, local, buffer>>

Step == {"idle", "record", "select", "publish", "delete", "backoff"}

Init ==
  /\ row = [e \in Event |-> "absent"] /\ recorded = {}
  /\ handed = {} /\ arrived = {}
  /\ pc = [p \in Proc |-> "idle"] /\ next = [p \in Proc |-> 1]
  /\ flush = [p \in Proc |-> 1] /\ batch = [p \in Proc |-> {}]
  /\ buffer = [p \in Proc |-> {}]

Goto(p, step)    == pc' = [pc EXCEPT ![p] = step]
IsFirst(e, s)    == e \in s /\ \A f \in s : e <= f
ReadyMutant      == {e \in Event : row[e] = "waiting"}
Ready            == {e \in Event : row[e] = "ready"}

-----------------------------------------------------------------------------
(* backfill_run_to_langfuse: the command starts.                           *)
Start(p) ==
  /\ pc[p] = "idle"
  /\ Goto(p, "record") /\ next' = [next EXCEPT ![p] = 1]
  /\ flush' = [flush EXCEPT ![p] = 1]
  /\ UNCHANGED <<table, handed, arrived, batch, buffer>>

(* enqueue: INSERT OR IGNORE on the event id.                              *)
Inserted(e) == [row EXCEPT ![e] = IF @ = "absent" THEN "ready" ELSE @]

LastEventMutant(p) == next[p] > N
LastEvent(p)       == next[p] = N

Record(p) ==
  /\ pc[p] = "record"
  /\ row' = Inserted(next[p]) /\ recorded' = recorded \cup {next[p]}
  /\ IF LastEvent(p)
     THEN Goto(p, "select") /\ UNCHANGED next
     ELSE next' = [next EXCEPT ![p] = @ + 1] /\ UNCHANGED pc
  /\ UNCHANGED <<handed, arrived, flush, batch, buffer>>

(* drain, under the lock: the first Limit ready rows by event_seq.         *)
Select(p) ==
  /\ pc[p] = "select"
  /\ \E s \in SUBSET Ready :
       /\ Cardinality(s) = (IF Cardinality(Ready) < Limit THEN Cardinality(Ready) ELSE Limit)
       /\ \A e \in s, f \in Ready \ s : e < f
       /\ batch' = [batch EXCEPT ![p] = s]
  /\ Goto(p, "publish")
  /\ UNCHANGED <<table, handed, arrived, next, flush, buffer>>

(* Outside the lock: publish hands the row's payload to the SDK.           *)
Publish(p) ==
  /\ pc[p] = "publish"
  /\ \E e \in batch[p] :
       /\ IsFirst(e, batch[p])
       /\ handed' = handed \cup {e}
       /\ buffer' = [buffer EXCEPT ![p] = @ \cup {e}]
  /\ Goto(p, "delete")
  /\ UNCHANGED <<table, arrived, local>>

PublishRaises(p) ==
  /\ pc[p] = "publish" /\ batch[p] # {}
  /\ Goto(p, "backoff")
  /\ UNCHANGED <<table, handed, arrived, local, buffer>>

(* Success: DELETE.  Failure: UPDATE, which finds no row if another        *)
(* process deleted it meanwhile.                                           *)
DeletedMutant(e)   == [f \in Event |-> IF f <= e THEN "absent" ELSE row[f]]
Deleted(e)         == [row EXCEPT ![e] = "absent"]
BackedOffMutant(e) == [row EXCEPT ![e] = "absent"]
BackedOff(e)       == [row EXCEPT ![e] = IF @ = "absent" THEN @ ELSE "waiting"]

Settle(p) ==
  /\ pc[p] \in {"delete", "backoff"}
  /\ \E e \in batch[p] :
       /\ IsFirst(e, batch[p])
       /\ row' = IF pc[p] = "delete" THEN Deleted(e) ELSE BackedOff(e)
       /\ batch' = [batch EXCEPT ![p] = @ \ {e}]
  /\ Goto(p, "publish")
  /\ UNCHANGED <<recorded, handed, arrived, next, flush, buffer>>

(* The end of one flush: the second begins or the command is over.         *)
EndFlush(p) ==
  /\ Goto(p, IF flush[p] = 1 THEN "select" ELSE "idle")
  /\ flush' = [flush EXCEPT ![p] = 2]
  /\ batch' = [batch EXCEPT ![p] = {}]
  /\ UNCHANGED <<table, handed, next>>

(* After the drain the SDK is flushed; what it cannot upload it drops.     *)
FlushClient(p) ==
  /\ pc[p] = "publish" /\ batch[p] = {} /\ EndFlush(p)
  /\ arrived' \in {arrived, arrived \cup buffer[p]}
  /\ buffer' = [buffer EXCEPT ![p] = {}]

(* A statement of the drain fails (the database is locked): flush() warns, *)
(* and the SDK keeps its buffer.                                           *)
DrainRaises(p) ==
  /\ pc[p] \in {"select", "delete", "backoff"} /\ EndFlush(p)
  /\ UNCHANGED <<arrived, buffer>>

(* The SDK uploads in the background, also after the command's last flush. *)
Upload(p) ==
  /\ \E e \in buffer[p] :
       /\ arrived' = arrived \cup {e}
       /\ buffer' = [buffer EXCEPT ![p] = @ \ {e}]
  /\ UNCHANGED <<table, handed, pc, local>>

(* next_attempt_at passes.                                                 *)
Wake(e) ==
  /\ row[e] = "waiting" /\ row' = [row EXCEPT ![e] = "ready"]
  /\ UNCHANGED <<recorded, handed, arrived, pc, local, buffer>>

(* The process dies; the table survives, the SDK's buffer does not.        *)
Crash(p) ==
  /\ pc[p] # "idle" \/ buffer[p] # {}
  /\ Goto(p, "idle")
  /\ batch' = [batch EXCEPT ![p] = {}] /\ buffer' = [buffer EXCEPT ![p] = {}]
  /\ UNCHANGED <<table, handed, arrived, next, flush>>

Command(p) == Record(p) \/ Select(p) \/ Publish(p) \/ Settle(p) \/ FlushClient(p)

Next == \/ \E p \in Proc : \/ Start(p) \/ Command(p) \/ PublishRaises(p)
                           \/ DrainRaises(p) \/ Upload(p) \/ Crash(p)
        \/ \E e \in Event : Wake(e)

(* A process that runs keeps running, time passes, and the caller keeps    *)
(* re-running the command: drain's "retried on a later flush".  Processes  *)
(* die, and publishing and the table fail, any number of times, but not    *)
(* for ever.                                                               *)
Fault == \E p \in Proc : /\ PublishRaises(p) \/ DrainRaises(p) \/ Crash(p)
                        /\ ~Command(p) /\ ~Upload(p)

Fairness ==
  /\ \A p \in Proc : WF_vars(Start(p)) /\ WF_vars(Command(p))
  /\ \A e \in Event : WF_vars(Wake(e))
  /\ <>[][~Fault]_vars

Spec     == Init /\ [][Next]_vars
FairSpec == Spec /\ Fairness
-----------------------------------------------------------------------------
(* Every variable holds a value of its kind.                               *)
TypeOK ==
  /\ row \in [Event -> {"absent", "ready", "waiting"}] /\ recorded \subseteq Event
  /\ handed \subseteq Event /\ arrived \subseteq Event
  /\ pc \in [Proc -> Step] /\ next \in [Proc -> Event] /\ flush \in [Proc -> 1..2]
  /\ batch \in [Proc -> SUBSET Event] /\ buffer \in [Proc -> SUBSET Event]
  /\ \A p \in Proc : pc[p] \in {"delete", "backoff"} => batch[p] # {}

(* The outbox implements an at-least-once queue whatever the processes'    *)
(* interleaving and crashes: Delivery, with the queue being the table.     *)
Queue == INSTANCE Delivery WITH
  accepted <- recorded,
  queued   <- {e \in Event : row[e] # "absent"},
  handed   <- handed
ImplementsDelivery == Queue!Spec

(* A row leaves the table only once its event was handed over, although    *)
(* the process that deletes it is not the only one that handles it.        *)
NothingForgotten == Queue!NothingForgotten

(* Each event is handed over in the end, however often publishing fails    *)
(* and processes die.                                                      *)
EventuallyHanded == \A e \in Event : <>(e \in handed)
=============================================================================
