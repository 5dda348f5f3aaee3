------------------------------- MODULE Bridge -------------------------------
(***************************************************************************)
(* The coded-fix bridge: generated code runs in a subprocess and reaches   *)
(* the model only through model_generate, whose requests travel over the   *)
(* subprocess's stdout and whose replies come back over its stdin.         *)
(*                                                                         *)
(* In the sandbox several callers share one lock, one request table and    *)
(* one reader thread.  On the host one thread reads the requests, counts   *)
(* them against two limits and serves them itself (Workers = 1) or hands   *)
(* them to a pool; a watchdog may kill the subprocess at any moment.  When *)
(* the session is over, a guard that sees no gold answers decides which of *)
(* the code's answers may differ from the model's recorded ones.           *)
(*                                                                         *)
(* A pipe holds any number of small messages; a big one (in BigRequest,    *)
(* BigReply) is more than a pipe holds and is written only while the other *)
(* end reads it.                                                           *)
(***************************************************************************)
EXTENDS Integers, Sequences, FiniteSets

CONSTANTS
  Caller,      \* threads of the generated code
  Case, Answer,
  Observed,    \* the recorded answer of a case, or Missing
  Enhanced,    \* signatures (prompt and image_ops) that change the request
  Request,     \* the requests the code may make
  BigRequest, BigReply,
  Blank,       \* the empty answer, which matches no answer
  NoOutput,    \* a reply without an output: an error, an attention grid
  Closed, Missing,
  Budget, CaseCap, MinSupport, Workers,
  Frozen,      \* frozen_model_control: replies are the recorded answers
  MaxRid       \* bound: requests the code makes

Reply == Answer \cup {NoOutput}
Rid   == 1..MaxRid
Outs  == [Case -> Answer \cup {Missing}]

ASSUME BridgeAssumption ==
  /\ Request \subseteq [case : Case, sig : {"direct", "live", "attend"} \cup Enhanced]
  /\ Observed \in Outs /\ Blank \in Answer
  /\ {"direct", "live", "attend"} \cap Enhanced = {}
  /\ {NoOutput, Closed, Missing} \cap Answer = {} /\ NoOutput # Closed
  /\ Missing \notin {NoOutput, Closed}
  /\ {Budget, CaseCap, MinSupport} \subseteq Nat /\ {Workers, MaxRid} \subseteq Nat \ {0}
  /\ Frozen \in BOOLEAN /\ {"free"} \cap Caller = {}

VARIABLES
  \* the sandbox
  alive, at, rid, asked, got, lock, table, slot, reader, inHand, printed,
  \* the pipes: request ids (0 is the result line), and replies
  toHost, toSandbox,
  \* the host; said is the result line it parsed
  host, job, answer, records, heard, error, timedOut, said, outputs, toGuard

callers == <<at, rid, asked, got, lock>>
reading == <<table, slot, reader, inHand>>
serving == <<job, answer, records>>
closing == <<said, outputs, toGuard>>
session == <<host, heard, error, timedOut>>
vars    == <<alive, callers, reading, printed, toHost, toSandbox, serving,
             session, closing>>

Unmeasured == [k \in Case |-> Missing]

Init ==
  /\ alive = TRUE /\ lock = "free" /\ asked = <<>>
  /\ at = [c \in Caller |-> "idle"] /\ rid = [c \in Caller |-> 1]
  /\ table = {} /\ slot = [r \in Rid |-> Missing] /\ got = [r \in Rid |-> Missing]
  /\ reader = "none" /\ inHand = 1 /\ printed = FALSE
  /\ toHost = <<>> /\ toSandbox = <<>>
  /\ host = "read" /\ heard = FALSE /\ error = FALSE /\ timedOut = FALSE
  /\ job = [r \in Rid |-> "none"] /\ answer = [r \in Rid |-> Missing]
  /\ records = <<>> /\ said = Unmeasured /\ outputs = Unmeasured /\ toGuard = {}

CallOf(c)    == asked[rid[c]]
IsDirect(q)  == q.sig \in {"direct", "live"}

(* A plain direct call on a recorded case: answered from the record.       *)
Replayable(q) == q.sig = "direct" /\ Observed[q.case] # Missing

Recorded(q) == IF Observed[q.case] = Missing THEN Blank ELSE Observed[q.case]

(* What the host may answer a request: the record, or what the model or    *)
(* the checks before it return.                                            *)
Replies(q) ==
  CASE q.sig = "attend"                 -> {NoOutput}
    [] ~Frozen /\ Replayable(q)         -> {Observed[q.case]}
    [] ~Frozen /\ ~Replayable(q)        -> Reply
    [] OTHER -> {Recorded(q)} \cup (IF IsDirect(q) THEN {} ELSE {NoOutput})

-----------------------------------------------------------------------------
(* The sandbox: _bridge_call.  The request id is drawn before the lock is  *)
(* taken; the request is registered and written under it.                  *)
Call(c) ==
  /\ alive /\ at[c] = "idle" /\ Len(asked) < MaxRid
  /\ \E q \in Request : asked' = Append(asked, q)
  /\ rid' = [rid EXCEPT ![c] = Len(asked) + 1]
  /\ at' = [at EXCEPT ![c] = "enter"]
  /\ UNCHANGED <<alive, got, lock, reading, printed, toHost, toSandbox, serving,
                 session, closing>>

Enter(c) ==
  /\ alive /\ at[c] = "enter" /\ lock = "free"
  /\ lock' = c /\ at' = [at EXCEPT ![c] = "write"]
  /\ table' = table \cup {rid[c]}
  /\ reader' = IF reader = "none" THEN "reading" ELSE reader
  /\ UNCHANGED <<alive, rid, asked, got, slot, inHand, printed, toHost, toSandbox,
                 serving, session, closing>>

Reads(end, pipe, big) == big => (end /\ pipe = <<>>)

Write(c) ==
  /\ alive /\ at[c] = "write" /\ host # "dead"
  /\ Reads(host = "read", toHost, CallOf(c) \in BigRequest)
  /\ toHost' = Append(toHost, rid[c])
  /\ lock' = "free" /\ at' = [at EXCEPT ![c] = "wait"]
  /\ UNCHANGED <<alive, rid, asked, got, reading, printed, toSandbox, serving,
                 session, closing>>

(* The host is gone: the write raises, and the request stays in the table. *)
WriteFails(c) ==
  /\ alive /\ at[c] = "write" /\ host = "dead"
  /\ lock' = "free" /\ at' = [at EXCEPT ![c] = "idle"]
  /\ UNCHANGED <<alive, rid, asked, got, reading, printed, toHost, toSandbox,
                 serving, session, closing>>

Return(c) ==
  /\ alive /\ at[c] = "wait" /\ slot[rid[c]] # Missing /\ lock = "free"
  /\ got' = [got EXCEPT ![rid[c]] = slot[rid[c]]]
  /\ table' = table \ {rid[c]}
  /\ at' = [at EXCEPT ![c] = "idle"]
  /\ UNCHANGED <<alive, rid, asked, lock, slot, reader, inHand, printed, toHost,
                 toSandbox, serving, session, closing>>

(* _bridge_read_loop: one reply is read, then routed to the slot its id    *)
(* names, which takes the lock.                                            *)
ReadReply ==
  /\ alive /\ reader = "reading" /\ toSandbox # <<>>
  /\ inHand' = Head(toSandbox) /\ toSandbox' = Tail(toSandbox)
  /\ reader' = "routing"
  /\ UNCHANGED <<alive, callers, table, slot, printed, toHost, serving, session,
                 closing>>

SlotMutant(r) == {s \in table : \A t \in table : s <= t}
Slot(r)       == {r} \cap table

Route ==
  /\ alive /\ reader = "routing" /\ lock = "free"
  /\ slot' = [r \in Rid |-> IF r \in Slot(inHand) THEN answer[inHand] ELSE slot[r]]
  /\ reader' = "reading"
  /\ UNCHANGED <<alive, callers, table, inHand, printed, toHost, toSandbox, serving,
                 session, closing>>

ReadEOFMutant ==
  /\ alive /\ reader = "reading" /\ toSandbox = <<>> /\ host = "dead"
  /\ reader' = "ended"
  /\ UNCHANGED <<alive, callers, table, slot, inHand, printed, toHost, toSandbox,
                 serving, session, closing>>

(* End of input: every registered caller is told the bridge is closed.     *)
ReadEOF ==
  /\ alive /\ reader = "reading" /\ toSandbox = <<>> /\ host = "dead" /\ lock = "free"
  /\ slot' = [r \in Rid |-> IF r \in table THEN Closed ELSE slot[r]]
  /\ reader' = "ended"
  /\ UNCHANGED <<alive, callers, table, inHand, printed, toHost, toSandbox, serving,
                 session, closing>>

(* The code prints its answers, once; what the line says is chosen when    *)
(* the host parses it.                                                     *)
PrintResult ==
  /\ alive /\ ~printed /\ host # "dead"
  /\ printed' = TRUE
  /\ toHost' = Append(toHost, 0)
  /\ UNCHANGED <<alive, callers, reading, toSandbox, serving, session, closing>>

(* The subprocess ends, by itself or killed, and its memory with it; what  *)
(* it wrote stays in the pipe.                                             *)
Dies ==
  /\ alive' = FALSE /\ lock' = "free" /\ toSandbox' = <<>>
  /\ at' = [c \in Caller |-> "idle"] /\ rid' = [c \in Caller |-> 1]
  /\ table' = {} /\ slot' = [r \in Rid |-> Missing]
  /\ reader' = "none" /\ inHand' = 1
  /\ UNCHANGED <<asked, got, printed>>

Exit == alive /\ Dies /\ UNCHANGED <<toHost, serving, session, closing>>
-----------------------------------------------------------------------------
(* The host: the loop over the subprocess's stdout.                        *)
Sent == {r \in Rid : job[r] # "none"}

(* Calls on one case that count: those not answered from the record.       *)
Counted(k) == {r \in Sent : asked[r].case = k /\ ~Replayable(asked[r])}

OverBudget == Cardinality(Sent) + 1 > Budget
OverCapMutant(q) == /\ CaseCap > 0 /\ ~Replayable(q)
                    /\ Cardinality({r \in Counted(q.case) : job[r] = "done"}) + 1 > CaseCap
OverCap(q) == /\ CaseCap > 0 /\ ~Replayable(q)
              /\ Cardinality(Counted(q.case)) + 1 > CaseCap

Within(q) == ~OverBudget /\ ~OverCap(q)

(* A call over a limit, or past the deadline (which passes just after the  *)
(* watchdog fires), ends the session.                                      *)
Refuse ==
  /\ host = "read" /\ toHost # <<>> /\ Head(toHost) # 0
  /\ timedOut \/ ~Within(asked[Head(toHost)])
  /\ error' = TRUE /\ Dies /\ host' = "closing" /\ toHost' = Tail(toHost)
  /\ UNCHANGED <<serving, heard, timedOut, closing>>

Dispatch ==
  /\ host = "read" /\ toHost # <<>> /\ Head(toHost) # 0
  /\ Within(asked[Head(toHost)])
  /\ job' = [job EXCEPT ![Head(toHost)] = "queued"]
  /\ host' = IF Workers > 1 THEN "read" ELSE "serve"
  /\ toHost' = Tail(toHost)
  /\ UNCHANGED <<alive, callers, reading, printed, toSandbox, answer, records, heard,
                 error, timedOut, closing>>

ReadResult ==
  /\ host = "read" /\ toHost # <<>> /\ Head(toHost) = 0
  /\ heard' = TRUE /\ toHost' = Tail(toHost)
  /\ UNCHANGED <<alive, callers, reading, printed, toSandbox, serving, host, error,
                 timedOut, closing>>

ReadEndMutant ==
  /\ host = "read" /\ toHost = <<>> /\ ~alive /\ heard
  /\ host' = "closing"
  /\ UNCHANGED <<alive, callers, reading, printed, toHost, toSandbox, serving, heard,
                 error, timedOut, closing>>

ReadEnd ==
  /\ host = "read" /\ toHost = <<>> /\ ~alive
  /\ host' = "closing"
  /\ UNCHANGED <<alive, callers, reading, printed, toHost, toSandbox, serving, heard,
                 error, timedOut, closing>>

(* _serve, on the loop's thread or in the pool: the call is answered and   *)
(* recorded for the guard, then the reply is written under stdin_lock.     *)
Busy == {r \in Rid : job[r] \in {"serving", "answered", "sending"}}

StartJob(r) ==
  /\ host # "dead" /\ job[r] = "queued" /\ Cardinality(Busy) < Workers
  /\ job' = [job EXCEPT ![r] = "serving"]
  /\ UNCHANGED <<alive, callers, reading, printed, toHost, toSandbox, answer, records,
                 session, closing>>

NotedMutant(r) == IF \E s \in Rid : job[s] = "serving" /\ s # r
                  THEN records ELSE Append(records, r)
Noted(r)       == Append(records, r)

HasOutput(v) == v # NoOutput

Serve(r) ==
  /\ host # "dead" /\ job[r] = "serving"
  /\ \E v \in Replies(asked[r]) :
       /\ answer' = [answer EXCEPT ![r] = v]
       /\ records' = IF HasOutput(v) THEN Noted(r) ELSE records
  /\ job' = [job EXCEPT ![r] = "answered"]
  /\ UNCHANGED <<alive, callers, reading, printed, toHost, toSandbox, session, closing>>

TakeStdin(r) ==
  /\ host # "dead" /\ job[r] = "answered" /\ \A s \in Rid : job[s] # "sending"
  /\ job' = [job EXCEPT ![r] = "sending"]
  /\ UNCHANGED <<alive, callers, reading, printed, toHost, toSandbox, answer, records,
                 session, closing>>

Send(r) ==
  /\ host # "dead" /\ job[r] = "sending" /\ alive
  /\ Reads(reader = "reading", toSandbox, asked[r] \in BigReply)
  /\ toSandbox' = Append(toSandbox, r)
  /\ job' = [job EXCEPT ![r] = "done"]
  /\ host' = IF host = "serve" THEN "read" ELSE host
  /\ UNCHANGED <<alive, callers, reading, printed, toHost, answer, records, heard, error,
                 timedOut, closing>>

(* The pipe is broken: served inline, the loop ends.                       *)
SendFails(r) ==
  /\ host # "dead" /\ job[r] = "sending" /\ ~alive
  /\ job' = [job EXCEPT ![r] = "done"]
  /\ host' = IF host = "serve" THEN "closing" ELSE host
  /\ UNCHANGED <<alive, callers, reading, printed, toHost, toSandbox, answer, records,
                 heard, error, timedOut, closing>>

(* The watchdog, cancelled only when the loop is over.                     *)
Timeout ==
  /\ host \in {"read", "serve", "closing"} /\ ~timedOut
  /\ timedOut' = TRUE /\ Dies
  /\ UNCHANGED <<toHost, serving, host, heard, error, closing>>

(* Queued calls are cancelled, those in service go on.  The answers are    *)
(* the marked line, or the unmarked one unless the watchdog fired.         *)
Shutdown ==
  /\ host = "closing" /\ ~alive
  /\ job' = [r \in Rid |-> IF job[r] = "queued" THEN "cancelled" ELSE job[r]]
  /\ UNCHANGED <<alive, callers, reading, printed, toHost, toSandbox, answer, records,
                 heard, timedOut>>

Finish(outs) ==
  /\ Shutdown /\ heard
  /\ said' = outs /\ outputs' = outs
  /\ toGuard' = IF MinSupport > 0 THEN {k \in Case : outs[k] # Missing} ELSE {}
  /\ host' = "guard" /\ UNCHANGED error

FinishUnheard ==
  /\ Shutdown /\ (heard => timedOut)
  /\ host' = "done" /\ error' = TRUE
  /\ UNCHANGED closing

(* The guard.  The anchor of a case is its recorded answer, or else the    *)
(* first direct call's; another answer needs enough distinct enhanced      *)
(* requests that returned it.                                              *)
Match(a, b) == a = b /\ a # Blank
On(k)       == {i \in 1..Len(records) : asked[records[i]].case = k}
Directs(k)  == {i \in On(k) : IsDirect(asked[records[i]])}
AnchorMutant(k) ==
  IF Directs(k) = {} THEN NoOutput
  ELSE answer[records[CHOOSE i \in Directs(k) : \A j \in Directs(k) : i <= j]]
Anchor(k) ==
  IF Observed[k] # Missing THEN Observed[k]
  ELSE IF Directs(k) = {} THEN Missing
  ELSE answer[records[CHOOSE i \in Directs(k) : \A j \in Directs(k) : i <= j]]
Support(k, a) ==
  {s \in Enhanced : \E i \in On(k) : /\ asked[records[i]].sig = s
                                     /\ Match(a, answer[records[i]])}
GuardedMutant(k, a) ==
  IF Match(a, Anchor(k)) \/ \E i \in On(k) : Match(a, answer[records[i]])
  THEN a ELSE Anchor(k)
GuardedStrict(k, a) ==
  IF Match(a, Anchor(k)) \/ Cardinality(Support(k, a)) > MinSupport
  THEN a ELSE Anchor(k)
Guarded(k, a) ==
  IF Anchor(k) = Missing THEN Missing
  ELSE IF Match(a, Anchor(k)) \/ Cardinality(Support(k, a)) >= MinSupport
  THEN a ELSE Anchor(k)

Guard(k) ==
  /\ host = "guard" /\ k \in toGuard
  /\ outputs' = [outputs EXCEPT ![k] = Guarded(k, outputs[k])]
  /\ toGuard' = toGuard \ {k}
  /\ UNCHANGED <<alive, callers, reading, printed, toHost, toSandbox, serving, session,
                 said>>

(* ok is whether any case has an answer, whatever error was set before.    *)
ok == host = "done" /\ outputs # Unmeasured
GuardEnd ==
  /\ host = "guard" /\ toGuard = {}
  /\ host' = "done"
  /\ error' = (error \/ (outputs = Unmeasured /\ said # Unmeasured))
  /\ UNCHANGED <<alive, callers, reading, printed, toHost, toSandbox, serving, heard,
                 timedOut, closing>>

(* The host process dies in the middle of a session: both pipes close, and *)
(* only the replies already written can still be read.                     *)
HostCrash ==
  /\ host # "done" /\ host # "dead"
  /\ host' = "dead" /\ toHost' = <<>> /\ records' = <<>>
  /\ job' = [r \in Rid |-> "none"]
  /\ heard' = FALSE /\ error' = FALSE /\ timedOut' = FALSE
  /\ said' = Unmeasured /\ outputs' = Unmeasured /\ toGuard' = {}
  /\ UNCHANGED <<alive, callers, reading, printed, toSandbox, answer>>
-----------------------------------------------------------------------------
CallerStep(c) == Enter(c) \/ Write(c) \/ WriteFails(c) \/ Return(c)
Reader        == ReadReply \/ Route \/ ReadEOF
Job(r)        == StartJob(r) \/ Serve(r) \/ TakeStdin(r) \/ Send(r) \/ SendFails(r)
Loop          == \/ Dispatch \/ Refuse \/ ReadResult \/ ReadEnd
                 \/ FinishUnheard \/ \E o \in Outs : Finish(o)
                 \/ GuardEnd \/ \E k \in Case : Guard(k)

Over == host \in {"done", "dead"} /\ ~alive /\ UNCHANGED vars

Next == \/ \E c \in Caller : Call(c) \/ CallerStep(c)
        \/ Reader \/ PrintResult \/ Exit
        \/ \E r \in Rid : Job(r)
        \/ Loop \/ Timeout \/ HostCrash \/ Over

(* Threads that can go on do; the code need not call, print or end, and    *)
(* the watchdog may be far away.                                           *)
Fairness ==
  /\ \A c \in Caller : WF_vars(CallerStep(c))
  /\ WF_vars(Reader) /\ WF_vars(Loop)
  /\ \A r \in Rid : WF_vars(Job(r))

Spec     == Init /\ [][Next]_vars
FairSpec == Spec /\ Fairness
-----------------------------------------------------------------------------
TypeOK ==
  /\ alive \in BOOLEAN /\ lock \in {"free"} \cup Caller
  /\ at \in [Caller -> {"idle", "enter", "write", "wait"}] /\ rid \in [Caller -> Rid]
  /\ asked \in Seq(Request) /\ Len(asked) <= MaxRid
  /\ table \subseteq Rid
  /\ slot \in [Rid -> Reply \cup {Closed, Missing}]
  /\ got \in [Rid -> Reply \cup {Closed, Missing}]
  /\ reader \in {"none", "reading", "routing", "ended"} /\ inHand \in Rid
  /\ printed \in BOOLEAN
  /\ toHost \in Seq(0..MaxRid) /\ toSandbox \in Seq(Rid)
  /\ host \in {"read", "serve", "closing", "guard", "done", "dead"}
  /\ job \in [Rid -> {"none", "queued", "serving", "answered", "sending", "done", "cancelled"}]
  /\ answer \in [Rid -> Reply \cup {Missing}] /\ records \in Seq(Rid)
  /\ {heard, error, timedOut} \subseteq BOOLEAN
  /\ said \in Outs /\ outputs \in Outs /\ toGuard \subseteq Case

(* However callers, reader and pool interleave, a caller gets the reply to *)
(* its own request, served at most once: the bridge is a remote call.      *)
RPC == INSTANCE RemoteCall WITH
  Id <- Rid, Unset <- Missing,
  called   <- {r \in Rid : r <= Len(asked)},
  reply    <- answer,
  returned <- got,
  up       <- host # "dead"
ImplementsRemoteCall == RPC!Spec

(* What the code was told, the guard knows: a reply is on record before    *)
(* its caller has it, or an override built on it would be reverted.        *)
SeenIsRecorded == host # "dead" =>
  \A r \in Rid : got[r] \in Answer => \E i \in 1..Len(records) : records[i] = r

(* The limits hold under any concurrency: the model is asked at most       *)
(* Budget times, and CaseCap times about one case.                         *)
WithinLimits ==
  /\ Cardinality(Sent) <= Budget
  /\ CaseCap > 0 => \A k \in Case : Cardinality(Counted(k)) <= CaseCap

(* The different enhanced requests about a case that some replies answer   *)
(* with a.                                                                 *)
Votes(k, a, replies) ==
  {asked[r].sig : r \in {r \in 1..Len(asked) : /\ asked[r].case = k
                                               /\ asked[r].sig \in Enhanced
                                               /\ Match(a, replies[r])}}

(* An answer that leaves the host is the recorded one, or a direct call's  *)
(* where there is none, or enough different requests returned it, although *)
(* calls still in service go on being recorded while the guard works.      *)
GuardSound ==
  ok /\ MinSupport > 0 =>
    \A k \in Case : outputs[k] # Missing =>
      \/ outputs[k] = Observed[k]
      \/ /\ Observed[k] = Missing
         /\ \E r \in 1..Len(asked) : /\ asked[r].case = k /\ IsDirect(asked[r])
                                     /\ outputs[k] = answer[r]
      \/ Cardinality(Votes(k, outputs[k], answer)) >= MinSupport

(* And the guard reverts no answer with enough votes among the replies     *)
(* that reached the code.                                                  *)
SupportedIsKept ==
  ok /\ MinSupport > 0 =>
    \A k \in Case :
      Observed[k] # Missing /\ Cardinality(Votes(k, said[k], got)) >= MinSupport
      => outputs[k] = said[k]

(* A call on a live bridge returns, without help from the watchdog.        *)
CallsReturn == \A c \in Caller : at[c] # "idle" ~> at[c] = "idle" \/ ~alive

(* Once the subprocess is gone the session comes to an end.                *)
SessionEnds == ~alive ~> host \in {"done", "dead"}

(* docs/stage_io.md: a failing case that comes out right with the model    *)
(* frozen "was solved by the pipeline's own computation", so the control   *)
(* shows what the code itself says.  With the guard on it never does: no   *)
(* reply differs from the record, and the guard reverts what does.         *)
OwnAnswersShow ==
  ok /\ Frozen => \A k \in Case : Observed[k] # Missing => outputs[k] = said[k]
=============================================================================
