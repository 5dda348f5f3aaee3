---------------------------- MODULE BridgeProofs ----------------------------
(***************************************************************************)
(* The bridge is a remote call, for any number of callers, requests and    *)
(* workers: ids are unique, a reply is written to the slot of its own      *)
(* request, and what a caller got is on record.                            *)
(***************************************************************************)
EXTENDS Bridge, FiniteSetTheorems, WellFoundedInduction, TLAPS

(* A set of natural numbers that is not empty has a least member.          *)
LEMMA LeastExists ==
  ASSUME NEW S \in SUBSET Nat, S # {}
  PROVE  \E i \in S : \A j \in S : i <= j
<1> DEFINE R == OpToRel(<, Nat)
<1>1. IsWellFoundedOn(R, Nat)
  BY NatLessThanWellFounded, Zenon
<1>2. \A m, n \in Nat : m < n => <<m, n>> \in R
  BY Zenon DEF OpToRel
<1> HIDE DEF R
<1>3. PICK i \in S : \A j \in S : <<j, i>> \notin R
  BY <1>1, WFMin, Zenon
<1>4. \A j \in S : j \in Nat /\ i \in Nat /\ ~ (j < i)
  BY <1>2, <1>3, Zenon
<1> QED BY <1>4

(* The anchor, and so what the guard puts out, is an answer or Missing.    *)
LEMMA AnchorType ==
  ASSUME BridgeAssumption, TypeOK, NEW k \in Case,
         \A i \in 1..Len(records) : answer[records[i]] \in Answer
  PROVE  Anchor(k) \in Answer \cup {Missing}
<1>1. CASE Observed[k] # Missing
  BY <1>1 DEF Anchor, BridgeAssumption, Outs
<1>2. CASE Observed[k] = Missing /\ Directs(k) = {}
  BY <1>2 DEF Anchor
<1>3. CASE Observed[k] = Missing /\ Directs(k) # {}
  <2>1. Directs(k) \subseteq 1..Len(records)
    BY DEF Directs, On
  <2>2. Len(records) \in Nat
    BY DEF TypeOK
  <2>3. \E i \in Directs(k) : \A j \in Directs(k) : i <= j
    BY <1>3, <2>1, <2>2, LeastExists
  <2>4. (CHOOSE i \in Directs(k) : \A j \in Directs(k) : i <= j) \in 1..Len(records)
    BY <2>1, <2>3
  <2> QED BY <1>3, <2>4 DEF Anchor
<1> QED BY <1>1, <1>2, <1>3
-----------------------------------------------------------------------------
(* A request id belongs to one call, made and not yet answered.            *)
Ids ==
  /\ \A c \in Caller : at[c] # "idle" => rid[c] <= Len(asked) /\ got[rid[c]] = Missing
  /\ \A c, d \in Caller : c # d /\ at[c] # "idle" /\ at[d] # "idle" => rid[c] # rid[d]
  /\ \A r \in Rid : r > Len(asked) => got[r] = Missing

(* A request on its way, or about to be, was never seen by the host.       *)
Queue ==
  /\ \A r \in Rid : job[r] # "none" => r <= Len(asked)
  /\ \A i \in 1..Len(toHost) : toHost[i] # 0 =>
       toHost[i] <= Len(asked) /\ job[toHost[i]] = "none"
  /\ \A i, j \in 1..Len(toHost) : i # j /\ toHost[i] # 0 => toHost[i] # toHost[j]
  /\ \A c \in Caller : at[c] \in {"enter", "write"} =>
       job[rid[c]] = "none" /\ \A i \in 1..Len(toHost) : toHost[i] # rid[c]
  /\ host = "dead" => toHost = <<>> /\ \A r \in Rid : job[r] = "none"

(* A call has no answer before it is served, and once it has one with an   *)
(* output it is on record.                                                 *)
Unserved == {"none", "queued", "serving", "cancelled"}
IsOnRecord(r) == \E i \in 1..Len(records) : records[i] = r
Served ==
  /\ host # "dead" => \A r \in Rid : /\ job[r] \in Unserved => answer[r] = Missing
                                     /\ answer[r] \in Answer => IsOnRecord(r)
  /\ \A i \in 1..Len(records) : answer[records[i]] \in Answer

(* What lies in a slot, and what a caller got, is the answer to its own    *)
(* request.                                                                *)
Delivered ==
  \A r \in Rid : /\ slot[r] \in {Missing, answer[r]} \/ (slot[r] = Closed /\ host = "dead")
                 /\ got[r] \in {Missing, Closed, answer[r]}

Core == TypeOK /\ Ids /\ Queue /\ Served /\ Delivered

(* The replies the host chooses from are replies.                          *)
LEMMA RepliesAreReplies ==
  ASSUME BridgeAssumption, NEW q \in Request
  PROVE  Replies(q) \subseteq Reply
<1>1. q.case \in Case
  BY DEF BridgeAssumption
<1>2. Observed[q.case] \in Answer \cup {Missing} /\ Blank \in Answer
  BY <1>1 DEF BridgeAssumption, Outs
<1>3. Recorded(q) \in Answer
  BY <1>2 DEF Recorded
<1>4. Replayable(q) => Observed[q.case] \in Answer
  BY <1>2 DEF Replayable
<1> QED BY <1>3, <1>4 DEF Replies, Reply

(* The invariant holds initially.                                          *)
THEOREM InitCore == Init => Core
<1> SUFFICES ASSUME Init PROVE Core
  OBVIOUS
<1> USE BridgeAssumption DEF Init
<1>0. MaxRid \in Nat \ {0} /\ 1 \in Rid
  BY DEF BridgeAssumption, Rid
<1>1. TypeOK
  <2>1. /\ alive \in BOOLEAN /\ printed \in BOOLEAN /\ {heard, error, timedOut} \subseteq BOOLEAN
    BY Zenon
  <2>2. Unmeasured \in Outs
    BY DEF Unmeasured, Outs
  <2>3. /\ at \in [Caller -> {"idle", "enter", "write", "wait"}] /\ rid \in [Caller -> Rid]
        /\ slot \in [Rid -> Reply \cup {Closed, Missing}]
        /\ got \in [Rid -> Reply \cup {Closed, Missing}]
        /\ answer \in [Rid -> Reply \cup {Missing}]
        /\ job \in [Rid -> {"none", "queued", "serving", "answered", "sending", "done",
                            "cancelled"}]
    BY <1>0
  <2>4. /\ asked \in Seq(Request) /\ Len(asked) <= MaxRid /\ records \in Seq(Rid)
        /\ toHost \in Seq(0..MaxRid) /\ toSandbox \in Seq(Rid)
    BY <1>0
  <2> QED BY <1>0, <2>1, <2>2, <2>3, <2>4 DEF TypeOK
<1>2. Ids /\ Queue
  BY <1>0 DEF Ids, Queue, Rid
<1>3. Served /\ Delivered
  BY DEF Served, Delivered, Unserved, BridgeAssumption
<1> QED BY <1>1, <1>2, <1>3 DEF Core
-----------------------------------------------------------------------------
(* Types.  The three ends change by themselves.                            *)
SandboxType ==
  /\ alive \in BOOLEAN /\ lock \in {"free"} \cup Caller
  /\ at \in [Caller -> {"idle", "enter", "write", "wait"}] /\ rid \in [Caller -> Rid]
  /\ asked \in Seq(Request) /\ Len(asked) <= MaxRid
  /\ table \subseteq Rid
  /\ slot \in [Rid -> Reply \cup {Closed, Missing}]
  /\ got \in [Rid -> Reply \cup {Closed, Missing}]
  /\ reader \in {"none", "reading", "routing", "ended"} /\ inHand \in Rid
  /\ printed \in BOOLEAN

PipeType == toHost \in Seq(0..MaxRid) /\ toSandbox \in Seq(Rid)

HostType ==
  /\ host \in {"read", "serve", "closing", "guard", "done", "dead"}
  /\ job \in [Rid -> {"none", "queued", "serving", "answered", "sending", "done", "cancelled"}]
  /\ answer \in [Rid -> Reply \cup {Missing}] /\ records \in Seq(Rid)
  /\ {heard, error, timedOut} \subseteq BOOLEAN
  /\ said \in Outs /\ outputs \in Outs /\ toGuard \subseteq Case

(* TypeOK is the types of the sandbox, the pipes and the host.            *)
LEMMA TypesSplit ==
  /\ TypeOK  <=> SandboxType  /\ PipeType  /\ HostType
  /\ TypeOK' <=> SandboxType' /\ PipeType' /\ HostType'
  BY DEF TypeOK, SandboxType, PipeType, HostType

(* Steps of the host leave the sandbox's types alone.                     *)
LEMMA QuietSandbox ==
  ASSUME SandboxType, UNCHANGED <<alive, callers, reading, printed>>
  PROVE  SandboxType'
  BY DEF SandboxType, callers, reading

(* Steps of the sandbox leave the host's types alone.                     *)
LEMMA QuietHost ==
  ASSUME HostType, UNCHANGED <<serving, session, closing>>
  PROVE  HostType'
  BY DEF HostType, serving, session, closing

(* A dead subprocess leaves well-typed memory behind.                     *)
LEMMA DiesTypes ==
  ASSUME BridgeAssumption, SandboxType, toHost' \in Seq(0..MaxRid), Dies
  PROVE  SandboxType' /\ PipeType'
<1>1. 1 \in Rid
  BY DEF BridgeAssumption, Rid
<1>2. alive' \in BOOLEAN
  BY Zenon DEF Dies
<1>3. PipeType'
  BY DEF Dies, PipeType
<1>4. SandboxType'
  BY <1>1, <1>2 DEF Dies, SandboxType
<1> QED BY <1>3, <1>4

(* What is read from a pipe is what the pipe holds.                       *)
LEMMA HeadAndTail ==
  ASSUME BridgeAssumption, PipeType
  PROVE  /\ toHost # <<>> => Tail(toHost) \in Seq(0..MaxRid) /\ Head(toHost) \in 0..MaxRid
         /\ toHost # <<>> /\ Head(toHost) # 0 => Head(toHost) \in Rid
         /\ toSandbox # <<>> => Tail(toSandbox) \in Seq(Rid) /\ Head(toSandbox) \in Rid
<1>1. toHost # <<>> => Tail(toHost) \in Seq(0..MaxRid) /\ Head(toHost) \in 0..MaxRid
  BY DEF PipeType
<1>2. toSandbox # <<>> => Tail(toSandbox) \in Seq(Rid) /\ Head(toSandbox) \in Rid
  BY DEF PipeType
<1>3. \A r \in 0..MaxRid : r # 0 => r \in Rid
  BY DEF Rid, BridgeAssumption
<1> QED BY <1>1, <1>2, <1>3

(* The steps of a caller keep every type.                                 *)
LEMMA CallerTypes ==
  ASSUME BridgeAssumption, TypeOK, NEW c \in Caller, Call(c) \/ CallerStep(c)
  PROVE  TypeOK'
<1>a. UNCHANGED <<serving, session, closing>>
  BY DEF Call, CallerStep, Enter, Write, WriteFails, Return
<1> SUFFICES SandboxType' /\ PipeType'
  BY <1>a, TypesSplit, QuietHost
<1> USE TypesSplit
<1>1. CASE Call(c)
  <2>1. PICK q \in Request : asked' = Append(asked, q)
    BY <1>1 DEF Call
  <2>2. asked' \in Seq(Request) /\ Len(asked') <= MaxRid /\ Len(asked) + 1 \in Rid
    BY <1>1, <2>1 DEF Call, SandboxType, Rid, BridgeAssumption
  <2>3. PipeType'
    BY <1>1 DEF Call, PipeType
  <2>4. SandboxType'
    BY <1>1, <2>2 DEF Call, SandboxType, reading
  <2> QED BY <2>3, <2>4
<1>2. CASE Enter(c)
  <2>1. PipeType'
    BY <1>2 DEF Enter, PipeType
  <2>2. table' \subseteq Rid /\ lock' \in {"free"} \cup Caller
    BY <1>2 DEF Enter, SandboxType
  <2>3. SandboxType'
    BY <1>2, <2>2 DEF Enter, SandboxType
  <2> QED BY <2>1, <2>3
<1>3. CASE Write(c)
  <2>1. rid[c] \in 0..MaxRid
    BY DEF SandboxType, Rid
  <2>2. PipeType'
    BY <1>3, <2>1 DEF Write, PipeType
  <2>3. SandboxType'
    BY <1>3 DEF Write, SandboxType, reading
  <2> QED BY <2>2, <2>3
<1>4. CASE WriteFails(c)
  BY <1>4 DEF WriteFails, SandboxType, PipeType, reading
<1>5. CASE Return(c)
  <2>1. rid[c] \in Rid /\ slot[rid[c]] \in Reply \cup {Closed, Missing}
    BY DEF SandboxType
  <2>2. PipeType'
    BY <1>5 DEF Return, PipeType
  <2>3. SandboxType'
    BY <1>5, <2>1 DEF Return, SandboxType
  <2> QED BY <2>2, <2>3
<1> QED BY <1>1, <1>2, <1>3, <1>4, <1>5 DEF CallerStep

(* The steps of the reader thread keep every type.                        *)
LEMMA ReaderTypes ==
  ASSUME BridgeAssumption, TypeOK, Reader \/ PrintResult \/ Exit
  PROVE  TypeOK'
<1>a. UNCHANGED <<serving, session, closing>>
  BY DEF Reader, ReadReply, Route, ReadEOF, PrintResult, Exit
<1> SUFFICES SandboxType' /\ PipeType'
  BY <1>a, TypesSplit, QuietHost
<1> USE TypesSplit
<1>1. CASE ReadReply
  BY <1>1, HeadAndTail DEF ReadReply, SandboxType, PipeType, callers
<1>2. CASE Route
  <2>1. answer[inHand] \in Reply \cup {Closed, Missing}
    BY DEF SandboxType, HostType
  <2>2. slot' \in [Rid -> Reply \cup {Closed, Missing}]
    BY <1>2, <2>1 DEF Route, SandboxType
  <2> QED BY <1>2, <2>2 DEF Route, SandboxType, PipeType, callers
<1>3. CASE ReadEOF
  <2>1. slot' \in [Rid -> Reply \cup {Closed, Missing}]
    BY <1>3 DEF ReadEOF, SandboxType
  <2> QED BY <1>3, <2>1 DEF ReadEOF, SandboxType, PipeType, callers
<1>4. CASE PrintResult
  <2>1. toHost' \in Seq(0..MaxRid)
    BY <1>4 DEF PrintResult, PipeType, BridgeAssumption
  <2>2. printed' \in BOOLEAN
    BY <1>4, Zenon DEF PrintResult
  <2> QED BY <1>4, <2>1, <2>2 DEF PrintResult, SandboxType, PipeType, callers, reading
<1>5. CASE Exit
  BY <1>5, DiesTypes DEF Exit, PipeType
<1> QED BY <1>1, <1>2, <1>3, <1>4, <1>5 DEF Reader

(* The steps of a job keep every type.                                    *)
LEMMA JobTypes ==
  ASSUME BridgeAssumption, TypeOK, Queue, NEW r \in Rid, Job(r)
  PROVE  TypeOK'
<1> USE TypesSplit
<1>1. UNCHANGED <<alive, callers, reading, printed, toHost, session>> \/ Send(r) \/ SendFails(r)
  BY DEF Job, StartJob, Serve, TakeStdin
<1>2. CASE StartJob(r) \/ TakeStdin(r)
  BY <1>2, QuietSandbox DEF StartJob, TakeStdin, HostType, PipeType, session, closing
<1>3. CASE Serve(r)
  <2>1. PICK v \in Replies(asked[r]) :
          /\ answer' = [answer EXCEPT ![r] = v]
          /\ records' = IF HasOutput(v) THEN Noted(r) ELSE records
    BY <1>3 DEF Serve
  <2>2. job[r] # "none"
    BY <1>3 DEF Serve
  <2>3. asked[r] \in Request
    BY <2>2 DEF Queue, SandboxType, Rid, BridgeAssumption
  <2>4. v \in Reply
    BY <2>3, RepliesAreReplies
  <2>5. records' \in Seq(Rid)
    BY <2>1 DEF Noted, HostType
  <2>6. answer' \in [Rid -> Reply \cup {Missing}]
    BY <2>1, <2>4 DEF HostType
  <2>7. HostType'
    BY <1>3, <2>5, <2>6 DEF Serve, HostType, session, closing
  <2> QED BY <1>3, <2>7, QuietSandbox DEF Serve, PipeType
<1>4. CASE Send(r)
  <2>1. toSandbox' \in Seq(Rid) /\ toHost' = toHost
    BY <1>4 DEF Send, PipeType
  <2>2. HostType'
    BY <1>4 DEF Send, HostType, closing
  <2> QED BY <1>4, <2>1, <2>2, QuietSandbox DEF Send, PipeType
<1>5. CASE SendFails(r)
  <2>1. HostType'
    BY <1>5 DEF SendFails, HostType, closing
  <2> QED BY <1>5, <2>1, QuietSandbox DEF SendFails, PipeType
<1> QED BY <1>2, <1>3, <1>4, <1>5 DEF Job

(* The steps of the host's loop keep every type.                          *)
LEMMA LoopTypes ==
  ASSUME BridgeAssumption, TypeOK, Refuse \/ Dispatch \/ ReadResult \/ ReadEnd
  PROVE  TypeOK'
<1> USE TypesSplit
<1>1. CASE Refuse
  <2>1. SandboxType' /\ PipeType'
    BY <1>1, HeadAndTail, DiesTypes DEF Refuse
  <2>2. error' \in BOOLEAN
    BY <1>1, Zenon DEF Refuse
  <2> QED BY <1>1, <2>1, <2>2 DEF Refuse, HostType, serving, closing
<1>2. CASE Dispatch
  <2>1. PipeType'
    BY <1>2, HeadAndTail DEF Dispatch, PipeType
  <2>2. HostType'
    BY <1>2 DEF Dispatch, HostType, closing
  <2> QED BY <1>2, <2>1, <2>2, QuietSandbox DEF Dispatch
<1>3. CASE ReadResult
  <2>1. PipeType'
    BY <1>3, HeadAndTail DEF ReadResult, PipeType
  <2>2. heard' \in BOOLEAN
    BY <1>3, Zenon DEF ReadResult
  <2>3. HostType'
    BY <1>3, <2>2 DEF ReadResult, HostType, serving, closing
  <2> QED BY <1>3, <2>1, <2>3, QuietSandbox DEF ReadResult
<1>4. CASE ReadEnd
  <2>1. HostType'
    BY <1>4 DEF ReadEnd, HostType, serving, closing
  <2> QED BY <1>4, <2>1, QuietSandbox DEF ReadEnd, PipeType
<1> QED BY <1>1, <1>2, <1>3, <1>4

(* The end of a session keeps every type.                                 *)
LEMMA CloseTypes ==
  ASSUME BridgeAssumption, TypeOK, Served,
         \/ FinishUnheard \/ GuardEnd \/ Timeout \/ HostCrash
         \/ \E o \in Outs : Finish(o)
         \/ \E k \in Case : Guard(k)
  PROVE  TypeOK'
<1> USE TypesSplit
<1>0. /\ Unmeasured \in Outs
      /\ \A j \in [Rid -> {"none", "queued", "serving", "answered", "sending", "done", "cancelled"}] :
           [r \in Rid |-> IF j[r] = "queued" THEN "cancelled" ELSE j[r]]
             \in [Rid -> {"none", "queued", "serving", "answered", "sending", "done", "cancelled"}]
  BY DEF Unmeasured, Outs
<1>1. CASE FinishUnheard
  <2>1. error' \in BOOLEAN
    BY <1>1, Zenon DEF FinishUnheard
  <2>2. HostType'
    BY <1>0, <1>1, <2>1 DEF FinishUnheard, Shutdown, HostType, closing
  <2> QED BY <1>1, <2>2, QuietSandbox DEF FinishUnheard, Shutdown, PipeType
<1>2. CASE GuardEnd
  <2>1. error' \in BOOLEAN
    BY <1>2, Zenon DEF GuardEnd, HostType
  <2>2. HostType'
    BY <1>2, <2>1 DEF GuardEnd, HostType, serving, closing
  <2> QED BY <1>2, <2>2, QuietSandbox DEF GuardEnd, PipeType
<1>3. CASE Timeout
  <2>1. SandboxType' /\ PipeType'
    BY <1>3, DiesTypes DEF Timeout, PipeType
  <2>2. timedOut' \in BOOLEAN
    BY <1>3, Zenon DEF Timeout
  <2> QED BY <1>3, <2>1, <2>2 DEF Timeout, HostType, serving, closing
<1>4. CASE HostCrash
  <2>1. {heard, error, timedOut}' \subseteq BOOLEAN
    BY <1>4, Zenon DEF HostCrash
  <2>2. HostType'
    BY <1>0, <1>4, <2>1 DEF HostCrash, HostType
  <2>3. PipeType'
    BY <1>4 DEF HostCrash, PipeType
  <2> QED BY <1>4, <2>2, <2>3, QuietSandbox DEF HostCrash
<1>5. CASE \E o \in Outs : Finish(o)
  <2>1. PICK o \in Outs : Finish(o)
    BY <1>5
  <2>2. HostType'
    BY <1>0, <2>1 DEF Finish, Shutdown, HostType
  <2> QED BY <2>1, <2>2, QuietSandbox DEF Finish, Shutdown, PipeType
<1>6. CASE \E k \in Case : Guard(k)
  <2>1. PICK k \in Case : Guard(k)
    BY <1>6
  <2>2. Anchor(k) \in Answer \cup {Missing} /\ outputs[k] \in Answer \cup {Missing}
    BY AnchorType DEF Served, HostType, Outs
  <2>3. outputs' \in Outs
    BY <2>1, <2>2 DEF Guard, Guarded, HostType, Outs
  <2>4. HostType'
    BY <2>1, <2>3 DEF Guard, HostType, serving, session
  <2> QED BY <2>1, <2>4, QuietSandbox DEF Guard, PipeType
<1> QED BY <1>1, <1>2, <1>3, <1>4, <1>5, <1>6

(* Every step keeps every type.                                           *)
LEMMA NextTypes ==
  ASSUME BridgeAssumption, Core, [Next]_vars
  PROVE  TypeOK'
<1>1. CASE UNCHANGED vars
  BY <1>1, QuietSandbox, QuietHost, TypesSplit DEF vars, PipeType, Core
<1> QED BY <1>1, CallerTypes, ReaderTypes, JobTypes, LoopTypes, CloseTypes
        DEF Next, Loop, Over, Core
-----------------------------------------------------------------------------
(* The calls.                                                              *)
LEMMA QuietIds ==
  ASSUME Ids, UNCHANGED <<at, rid, asked, got>>
  PROVE  Ids'
  BY DEF Ids

(* When the subprocess dies its open calls are gone.                      *)
LEMMA DeadIds ==
  ASSUME Ids, Dies
  PROVE  Ids'
<1>1. \A c \in Caller : at'[c] = "idle"
  BY DEF Dies
<1> QED BY <1>1 DEF Ids, Dies

(* The steps of a caller keep request ids apart.                          *)
LEMMA CallerIds ==
  ASSUME BridgeAssumption, TypeOK, Ids, NEW c \in Caller, Call(c) \/ CallerStep(c)
  PROVE  Ids'
<1>0. /\ at \in [Caller -> {"idle", "enter", "write", "wait"}] /\ rid \in [Caller -> Rid]
      /\ got \in [Rid -> Reply \cup {Closed, Missing}] /\ Len(asked) \in Nat
      /\ Rid = 1..MaxRid /\ MaxRid \in Nat
  BY DEF TypeOK, Rid, BridgeAssumption
<1>1. CASE Call(c)
  <2> DEFINE n == Len(asked) + 1
  <2>1. Len(asked') = n /\ n \in Rid
    <3>1. PICK q \in Request : asked' = Append(asked, q)
      BY <1>1 DEF Call
    <3> QED BY <1>0, <1>1, <3>1 DEF Call, TypeOK
  <2>2. /\ at' = [at EXCEPT ![c] = "enter"] /\ rid' = [rid EXCEPT ![c] = n] /\ got' = got
        /\ at[c] = "idle"
    BY <1>1 DEF Call
  <2>3. got[n] = Missing
    BY <1>0, <2>1 DEF Ids
  <2>4. \A d \in Caller : d # c /\ at[d] # "idle" => rid[d] # n
    BY <1>0 DEF Ids
  <2>5. \A r \in Rid : r > n => got[r] = Missing
    BY <1>0 DEF Ids
  <2>6. \A d \in Caller : d # c => at'[d] = at[d] /\ rid'[d] = rid[d]
    BY <1>0, <2>2
  <2>7. at'[c] = "enter" /\ rid'[c] = n
    BY <1>0, <2>2
  <2>8. \A d \in Caller : at'[d] # "idle" => rid'[d] <= n /\ got[rid'[d]] = Missing
    BY <1>0, <2>1, <2>3, <2>6, <2>7 DEF Ids
  <2>9. \A d, e \in Caller : d # e /\ at'[d] # "idle" /\ at'[e] # "idle" => rid'[d] # rid'[e]
    BY <2>4, <2>6, <2>7 DEF Ids
  <2> HIDE DEF n
  <2> QED BY <2>1, <2>2, <2>5, <2>8, <2>9 DEF Ids
<1>2. CASE Enter(c) \/ Write(c) \/ WriteFails(c)
  <2>1. /\ UNCHANGED <<rid, asked, got>> /\ at[c] # "idle"
        /\ \A d \in Caller : at'[d] # "idle" => at[d] # "idle"
    BY <1>0, <1>2 DEF Enter, Write, WriteFails
  <2> QED BY <2>1 DEF Ids
<1>3. CASE Return(c)
  <2>1. /\ UNCHANGED <<rid, asked>> /\ at[c] # "idle"
        /\ got' = [got EXCEPT ![rid[c]] = slot[rid[c]]]
        /\ \A d \in Caller : at'[d] # "idle" => at[d] # "idle" /\ d # c
    BY <1>0, <1>3 DEF Return
  <2>2. rid[c] <= Len(asked) /\ rid[c] \in Rid
    BY <1>0, <2>1 DEF Ids
  <2>3. \A d \in Caller : at'[d] # "idle" => rid[d] # rid[c] /\ rid[d] \in Rid
    BY <1>0, <2>1 DEF Ids
  <2>4. \A r \in Rid : r # rid[c] => got'[r] = got[r]
    BY <1>0, <2>1
  <2>5. \A r \in Rid : r > Len(asked) => r # rid[c]
    BY <1>0, <2>2
  <2> QED BY <2>1, <2>3, <2>4, <2>5 DEF Ids
<1> QED BY <1>1, <1>2, <1>3 DEF CallerStep

(* Every step keeps request ids apart.                                    *)
LEMMA NextIds ==
  ASSUME BridgeAssumption, Core, [Next]_vars
  PROVE  Ids'
<1> USE DEF Core
<1>1. CASE \E c \in Caller : Call(c) \/ CallerStep(c)
  BY <1>1, CallerIds
<1>2. CASE Exit \/ Refuse \/ Timeout
  BY <1>2, DeadIds DEF Exit, Refuse, Timeout
<1>3. CASE Reader \/ PrintResult
  BY <1>3, QuietIds DEF Reader, ReadReply, Route, ReadEOF, PrintResult, callers
<1>4. CASE \E r \in Rid : Job(r)
  BY <1>4, QuietIds DEF Job, StartJob, Serve, TakeStdin, Send, SendFails, callers
<1>5. CASE Dispatch \/ ReadResult \/ ReadEnd
  BY <1>5, QuietIds DEF Dispatch, ReadResult, ReadEnd, callers
<1>6. CASE FinishUnheard \/ (\E o \in Outs : Finish(o)) \/ GuardEnd \/ \E k \in Case : Guard(k)
  BY <1>6, QuietIds DEF FinishUnheard, Finish, Shutdown, GuardEnd, Guard, callers
<1>7. CASE HostCrash \/ UNCHANGED vars
  BY <1>7, QuietIds DEF HostCrash, vars, callers
<1> QED BY <1>1, <1>2, <1>3, <1>4, <1>5, <1>6, <1>7 DEF Next, Loop, Over
-----------------------------------------------------------------------------
(* The request queue.                                                      *)

(* Taking the first request off it, which may be given a job.              *)
LEMMA TailKeepsQueue ==
  ASSUME BridgeAssumption, TypeOK, Ids, Queue, host # "dead", host' # "dead",
         toHost # <<>>, toHost' = Tail(toHost), asked' = asked,
         \A c \in Caller : at'[c] \in {"enter", "write"} => at[c] = at'[c] /\ rid'[c] = rid[c],
         \A r \in Rid : job'[r] = job[r] \/ (r = Head(toHost) /\ r # 0)
  PROVE  Queue'
<1>0. /\ toHost \in Seq(0..MaxRid) /\ Len(toHost) \in Nat /\ Len(toHost) > 0
      /\ Head(toHost) = toHost[1] /\ Len(toHost') = Len(toHost) - 1
      /\ \A i \in 1..Len(toHost') : toHost'[i] = toHost[i + 1] /\ i + 1 \in 1..Len(toHost) /\ i + 1 # 1
      /\ \A i \in 1..Len(toHost) : toHost[i] \in 0..MaxRid
      /\ 1 \in 1..Len(toHost)
  BY DEF TypeOK
<1>1. \A i \in 1..Len(toHost') : toHost'[i] # 0 =>
        /\ toHost'[i] <= Len(asked) /\ toHost'[i] \in Rid
        /\ job[toHost'[i]] = "none" /\ toHost'[i] # Head(toHost)
  BY <1>0 DEF Queue, Rid, BridgeAssumption
<1>2. \A i \in 1..Len(toHost') : toHost'[i] # 0 => job'[toHost'[i]] = "none"
  BY <1>1
<1>3. \A i, j \in 1..Len(toHost') : i # j /\ toHost'[i] # 0 => toHost'[i] # toHost'[j]
  <2>1. SUFFICES ASSUME NEW i \in 1..Len(toHost'), NEW j \in 1..Len(toHost'), i # j,
                        toHost'[i] # 0
                 PROVE  toHost'[i] # toHost'[j]
    OBVIOUS
  <2>2. i + 1 # j + 1
    BY <2>1
  <2> QED BY <1>0, <2>1, <2>2 DEF Queue
<1>4. \A r \in Rid : job'[r] # "none" => r <= Len(asked)
  <2>1. \A r \in Rid : r = Head(toHost) /\ r # 0 => r <= Len(asked)
    BY <1>0 DEF Queue
  <2> QED BY <2>1 DEF Queue
<1>5. \A c \in Caller : at'[c] \in {"enter", "write"} =>
        job'[rid'[c]] = "none" /\ \A i \in 1..Len(toHost') : toHost'[i] # rid'[c]
  <2>1. SUFFICES ASSUME NEW c \in Caller, at'[c] \in {"enter", "write"}
                 PROVE  job'[rid[c]] = "none" /\ \A i \in 1..Len(toHost') : toHost'[i] # rid[c]
    OBVIOUS
  <2>2. /\ rid[c] \in Rid /\ job[rid[c]] = "none"
        /\ \A i \in 1..Len(toHost) : toHost[i] # rid[c]
    BY <2>1 DEF Queue, TypeOK
  <2> QED BY <1>0, <2>2
<1> QED BY <1>1, <1>2, <1>3, <1>4, <1>5 DEF Queue

(* A new call is on no queue.                                             *)
LEMMA CallKeepsQueue ==
  ASSUME BridgeAssumption, TypeOK, Ids, Queue, NEW c \in Caller, Call(c)
  PROVE  Queue'
<1> DEFINE n == Len(asked) + 1
<1>0. /\ at \in [Caller -> {"idle", "enter", "write", "wait"}] /\ rid \in [Caller -> Rid]
      /\ Len(asked) \in Nat /\ n \in Rid /\ Len(asked') = n
      /\ UNCHANGED <<job, toHost, host>>
      /\ at' = [at EXCEPT ![c] = "enter"] /\ rid' = [rid EXCEPT ![c] = n]
  <2>1. PICK q \in Request : asked' = Append(asked, q)
    BY DEF Call
  <2> QED BY <2>1 DEF Call, TypeOK, Rid, BridgeAssumption, serving, session
<1>1. job[n] = "none" /\ \A i \in 1..Len(toHost) : toHost[i] # n
  BY <1>0 DEF Queue, TypeOK
<1>2. \A r \in Rid : r <= Len(asked) => r <= n
  BY <1>0 DEF Rid
<1>3. \A i \in 1..Len(toHost) : toHost[i] <= Len(asked) => toHost[i] <= n
  BY <1>0 DEF TypeOK
<1>4. \A d \in Caller : at'[d] \in {"enter", "write"} =>
        job[rid'[d]] = "none" /\ \A i \in 1..Len(toHost) : toHost[i] # rid'[d]
  <2>1. SUFFICES ASSUME NEW d \in Caller, at'[d] \in {"enter", "write"}
                 PROVE  job[rid'[d]] = "none" /\ \A i \in 1..Len(toHost) : toHost[i] # rid'[d]
    OBVIOUS
  <2>2. CASE d = c
    BY <1>0, <1>1, <2>2
  <2>3. CASE d # c
    BY <1>0, <2>1, <2>3 DEF Queue
  <2> QED BY <2>2, <2>3
<1> HIDE DEF n
<1> QED BY <1>0, <1>2, <1>3, <1>4 DEF Queue

(* A request is written once, and seen by the host only later.            *)
LEMMA WriteKeepsQueue ==
  ASSUME BridgeAssumption, TypeOK, Ids, Queue, NEW c \in Caller, Write(c)
  PROVE  Queue'
<1> DEFINE m == Len(toHost) + 1
<1>0. /\ at \in [Caller -> {"idle", "enter", "write", "wait"}]
      /\ rid \in [Caller -> Rid] /\ Len(toHost) \in Nat
      /\ at[c] = "write" /\ at' = [at EXCEPT ![c] = "wait"] /\ host # "dead"
      /\ UNCHANGED <<job, rid, asked, host>> /\ toHost' = Append(toHost, rid[c])
  BY DEF Write, TypeOK, serving, session
<1>a. /\ Len(toHost') = m /\ toHost'[m] = rid[c]
      /\ \A i \in 1..Len(toHost) : toHost'[i] = toHost[i]
      /\ \A i \in 1..m : i = m \/ i \in 1..Len(toHost)
  <2>1. toHost \in Seq(0..MaxRid) /\ rid[c] \in 0..MaxRid
    BY DEF TypeOK, Rid
  <2> QED BY <1>0, <2>1
<1> HIDE DEF m
<1>1. /\ job[rid[c]] = "none" /\ rid[c] <= Len(asked)
      /\ \A i \in 1..Len(toHost) : toHost[i] # rid[c]
  BY <1>0 DEF Queue, Ids
<1>2. \A i, j \in 1..m : i # j /\ toHost'[i] # 0 => toHost'[i] # toHost'[j]
  BY <1>0, <1>a, <1>1 DEF Queue
<1>3. \A d \in Caller : at'[d] \in {"enter", "write"} =>
        /\ job[rid[d]] = "none" /\ rid[d] # rid[c]
        /\ \A i \in 1..Len(toHost) : toHost[i] # rid[d]
  BY <1>0 DEF Queue, Ids
<1>4. \A d \in Caller : at'[d] \in {"enter", "write"} => \A i \in 1..m : toHost'[i] # rid[d]
  BY <1>0, <1>a, <1>3
<1> QED BY <1>0, <1>a, <1>1, <1>2, <1>3, <1>4 DEF Queue

(* The result line is no request.                                         *)
LEMMA PrintKeepsQueue ==
  ASSUME TypeOK, Queue, PrintResult
  PROVE  Queue'
<1> DEFINE m == Len(toHost) + 1
<1>0. /\ Len(toHost) \in Nat /\ host # "dead" /\ UNCHANGED <<job, at, rid, asked, host>>
      /\ Len(toHost') = m /\ toHost'[m] = 0
      /\ \A i \in 1..Len(toHost) : toHost'[i] = toHost[i]
      /\ \A i \in 1..m : i = m \/ i \in 1..Len(toHost)
  BY DEF PrintResult, TypeOK, serving, session, callers
<1>1. \A c \in Caller : rid[c] # 0
  BY DEF TypeOK, Rid
<1> HIDE DEF m
<1> QED BY <1>0, <1>1 DEF Queue

(* A step that sends and reads no request, and gives no new one a job.     *)
LEMMA QuietQueue ==
  ASSUME Queue, UNCHANGED <<rid, asked>>, toHost' = toHost \/ toHost' = <<>>,
         \A c \in Caller : at'[c] \in {"enter", "write"} => at[c] \in {"enter", "write"},
         \A r \in Rid : job'[r] = "none" <=> job[r] = "none",
         host' = "dead" <=> host = "dead", rid \in [Caller -> Rid],
         \A i \in 1..Len(toHost) : toHost[i] # 0 => toHost[i] \in Rid
  PROVE  Queue'
<1>1. CASE toHost' = toHost
  BY <1>1 DEF Queue
<1>2. CASE toHost' = <<>>
  BY <1>2 DEF Queue
<1> QED BY <1>1, <1>2

(* Every step keeps the requests on their way unseen.                     *)
LEMMA NextQueue ==
  ASSUME BridgeAssumption, Core, [Next]_vars
  PROVE  Queue'
<1> USE DEF Core
<1>0. /\ at \in [Caller -> {"idle", "enter", "write", "wait"}] /\ rid \in [Caller -> Rid]
      /\ job \in [Rid -> {"none", "queued", "serving", "answered", "sending", "done", "cancelled"}]
      /\ \A i \in 1..Len(toHost) : toHost[i] # 0 => toHost[i] \in Rid
  BY DEF TypeOK, Rid, BridgeAssumption
<1>1. ASSUME NEW c \in Caller, Call(c) \/ CallerStep(c) PROVE Queue'
  <2>1. CASE Call(c)
    BY <2>1, CallKeepsQueue
  <2>2. CASE Write(c)
    BY <2>2, WriteKeepsQueue
  <2>3. CASE Enter(c) \/ WriteFails(c) \/ Return(c)
    <3>1. /\ UNCHANGED <<rid, asked, toHost, job, host>>
          /\ \A d \in Caller : at'[d] \in {"enter", "write"} => at[d] \in {"enter", "write"}
      BY <1>0, <2>3 DEF Enter, WriteFails, Return, serving, session
    <3> QED BY <1>0, <3>1, QuietQueue
  <2> QED BY <1>1, <2>1, <2>2, <2>3 DEF CallerStep
<1>2. CASE PrintResult
  BY <1>2, PrintKeepsQueue
<1>3. CASE Reader
  BY <1>0, <1>3, QuietQueue DEF Reader, ReadReply, Route, ReadEOF, callers, serving, session
<1>4. CASE Exit \/ Timeout
  <2>1. /\ \A c \in Caller : at'[c] = "idle" /\ job' = job /\ asked' = asked /\ toHost' = toHost
        /\ host' = host
    BY <1>4 DEF Exit, Timeout, Dies, serving, session
  <2> QED BY <1>4, <2>1 DEF Queue, Exit, Timeout, Dies, serving, session
<1>5. CASE Refuse
  <2>1. \A c \in Caller : at'[c] = "idle"
    BY <1>5 DEF Refuse, Dies
  <2> QED BY <1>5, <2>1, TailKeepsQueue DEF Refuse, Dies, serving
<1>6. CASE Dispatch
  <2>1. /\ host # "dead" /\ host' # "dead" /\ toHost # <<>> /\ toHost' = Tail(toHost)
        /\ UNCHANGED <<at, rid, asked>> /\ Head(toHost) # 0
    BY <1>6 DEF Dispatch, callers
  <2>2. \A r \in Rid : job'[r] = job[r] \/ r = Head(toHost)
    BY <1>0, <1>6 DEF Dispatch
  <2> QED BY <2>1, <2>2, TailKeepsQueue
<1>7. CASE ReadResult
  BY <1>7, TailKeepsQueue DEF ReadResult, callers, serving
<1>8. CASE ReadEnd \/ GuardEnd \/ \E k \in Case : Guard(k)
  BY <1>0, <1>8, QuietQueue DEF ReadEnd, GuardEnd, Guard, callers, serving, session
<1>9. CASE \E r \in Rid : Job(r)
  <2>1. PICK r \in Rid : Job(r)
    BY <1>9
  <2>2. /\ UNCHANGED <<at, rid, asked, toHost>> /\ host # "dead" /\ host' # "dead"
        /\ job[r] # "none" /\ \A s \in Rid : job'[s] = "none" <=> job[s] = "none"
    BY <1>0, <2>1 DEF Job, StartJob, Serve, TakeStdin, Send, SendFails, callers, session
  <2> QED BY <1>0, <2>2, QuietQueue
<1>10. CASE FinishUnheard \/ \E o \in Outs : Finish(o)
  <2>1. /\ UNCHANGED <<at, rid, asked, toHost>> /\ host # "dead" /\ host' # "dead"
        /\ \A s \in Rid : job'[s] = "none" <=> job[s] = "none"
    BY <1>10 DEF FinishUnheard, Finish, Shutdown, callers
  <2> QED BY <1>0, <2>1, QuietQueue
<1>11. CASE HostCrash
  <2>1. \A r \in Rid : job'[r] = "none"
    BY <1>11 DEF HostCrash
  <2>2. \A c \in Caller : rid[c] \in Rid
    BY <1>0
  <2> QED BY <1>11, <2>1, <2>2 DEF Queue, HostCrash, callers
<1>12. CASE UNCHANGED vars
  BY <1>12 DEF vars, Queue, callers, serving, session
<1> QED BY <1>1, <1>2, <1>3, <1>4, <1>5, <1>6, <1>7, <1>8, <1>9, <1>10, <1>11, <1>12
        DEF Next, Loop, Over
-----------------------------------------------------------------------------
(* The answers and the record.                                             *)
LEMMA ServeKeepsServed ==
  ASSUME BridgeAssumption, TypeOK, Queue, Served, NEW r \in Rid, Serve(r)
  PROVE  Served'
<1>0. /\ host # "dead" /\ host' = host /\ job[r] = "serving" /\ asked' = asked
      /\ job' = [job EXCEPT ![r] = "answered"] /\ answer[r] = Missing
  BY DEF Serve, Served, Unserved, session, callers
<1>1. PICK v \in Replies(asked[r]) :
        /\ answer' = [answer EXCEPT ![r] = v]
        /\ records' = IF HasOutput(v) THEN Noted(r) ELSE records
  BY DEF Serve
<1>2. asked[r] \in Request
  <2>1. r <= Len(asked) /\ r \in 1..MaxRid /\ asked \in Seq(Request) /\ MaxRid \in Nat
    BY <1>0 DEF Queue, TypeOK, Rid, BridgeAssumption
  <2> QED BY <2>1
<1>3. v \in Reply
  BY <1>2, RepliesAreReplies
<1>4. /\ answer'[r] = v /\ \A s \in Rid : s # r => answer'[s] = answer[s] /\ job'[s] = job[s]
      /\ job'[r] = "answered" /\ records \in Seq(Rid) /\ Len(records) \in Nat
  BY <1>0, <1>1 DEF TypeOK
<1>5. /\ Len(records) <= Len(records')
      /\ \A i \in 1..Len(records) : records'[i] = records[i] /\ i \in 1..Len(records')
      /\ \A i \in 1..Len(records') : i \in 1..Len(records) \/ (records'[i] = r /\ v \in Answer)
      /\ v \in Answer => \E i \in 1..Len(records') : records'[i] = r
  <2>1. CASE HasOutput(v)
    <3>1. records' = Append(records, r) /\ v \in Answer
      BY <1>1, <1>3, <2>1 DEF Noted, HasOutput, Reply
    <3>2. Len(records') = Len(records) + 1 /\ records'[Len(records) + 1] = r
          /\ \A i \in 1..Len(records) : records'[i] = records[i]
      BY <1>4, <3>1
    <3> QED BY <1>4, <3>1, <3>2
  <2>2. CASE ~ HasOutput(v)
    BY <1>1, <1>4, <2>2 DEF HasOutput, BridgeAssumption
  <2> QED BY <2>1, <2>2
<1>6. \A i \in 1..Len(records) : records[i] \in Rid /\ records[i] # r
  BY <1>0, <1>4 DEF Served, BridgeAssumption
<1>7. \A s \in Rid : job'[s] \in Unserved => answer'[s] = Missing
  BY <1>0, <1>4 DEF Served, Unserved
<1>8. \A s \in Rid : answer'[s] \in Answer => \E i \in 1..Len(records') : records'[i] = s
  <2>1. SUFFICES ASSUME NEW s \in Rid, answer'[s] \in Answer
                 PROVE  \E i \in 1..Len(records') : records'[i] = s
    OBVIOUS
  <2>2. CASE s = r
    BY <1>4, <1>5, <2>1, <2>2
  <2>3. CASE s # r
    <3>1. PICK i \in 1..Len(records) : records[i] = s
      BY <1>0, <1>4, <2>1, <2>3 DEF Served, IsOnRecord
    <3> QED BY <1>5, <3>1
  <2> QED BY <2>2, <2>3
<1>9. \A i \in 1..Len(records') : answer'[records'[i]] \in Answer
  BY <1>4, <1>5, <1>6 DEF Served
<1> QED BY <1>7, <1>8, <1>9 DEF Served, IsOnRecord

(* What is served stays served while answers and records stand still.     *)
LEMMA QuietServed ==
  ASSUME Served, UNCHANGED <<answer, records>>, host' # "dead" => host # "dead",
         \A r \in Rid : job'[r] \in Unserved => job[r] \in Unserved
  PROVE  Served'
  BY DEF Served, IsOnRecord, Unserved

(* Every step keeps the answers with an output on record.                 *)
LEMMA NextServed ==
  ASSUME BridgeAssumption, Core, [Next]_vars
  PROVE  Served'
<1> USE DEF Core
<1>0. job \in [Rid -> {"none", "queued", "serving", "answered", "sending", "done", "cancelled"}]
  BY DEF TypeOK
<1>1. CASE \E c \in Caller : Call(c) \/ CallerStep(c)
  BY <1>1, QuietServed DEF CallerStep, Call, Enter, Write, WriteFails, Return, serving, session
<1>2. CASE Reader \/ PrintResult \/ Exit \/ Timeout
  BY <1>2, QuietServed DEF Reader, ReadReply, Route, ReadEOF, PrintResult, Exit, Timeout, serving,
     session
<1>3. CASE Refuse \/ ReadResult \/ ReadEnd \/ GuardEnd \/ \E k \in Case : Guard(k)
  BY <1>3, QuietServed DEF Refuse, ReadResult, ReadEnd, GuardEnd, Guard, serving, session
<1>4. CASE Dispatch
  <2>1. /\ UNCHANGED <<answer, records>> /\ host # "dead" /\ Head(toHost) # 0 /\ toHost # <<>>
        /\ job' = [job EXCEPT ![Head(toHost)] = "queued"]
    BY <1>4 DEF Dispatch
  <2>2. job[Head(toHost)] = "none"
    BY <2>1 DEF Queue, TypeOK
  <2>3. \A r \in Rid : job'[r] \in Unserved => job[r] \in Unserved
    BY <1>0, <2>1, <2>2 DEF Unserved
  <2> QED BY <2>1, <2>3, QuietServed
<1>5. CASE \E r \in Rid : Job(r)
  <2>1. PICK r \in Rid : Job(r)
    BY <1>5
  <2>2. CASE Serve(r)
    BY <2>2, ServeKeepsServed
  <2>3. CASE ~ Serve(r)
    <3>1. /\ UNCHANGED <<answer, records>> /\ host # "dead"
          /\ \A s \in Rid : job'[s] \in Unserved => job[s] \in Unserved
      BY <1>0, <2>1, <2>3 DEF Job, StartJob, TakeStdin, Send, SendFails, Unserved, session
    <3> QED BY <3>1, QuietServed
  <2> QED BY <2>2, <2>3
<1>6. CASE FinishUnheard \/ \E o \in Outs : Finish(o)
  <2>1. /\ UNCHANGED <<answer, records>> /\ host # "dead"
        /\ job' = [r \in Rid |-> IF job[r] = "queued" THEN "cancelled" ELSE job[r]]
    BY <1>6 DEF FinishUnheard, Finish, Shutdown
  <2>2. \A s \in Rid : job'[s] \in Unserved => job[s] \in Unserved
    BY <1>0, <2>1 DEF Unserved
  <2> QED BY <2>1, <2>2, QuietServed
<1>7. CASE HostCrash
  BY <1>7 DEF HostCrash, Served
<1>8. CASE UNCHANGED vars
  BY <1>8, QuietServed DEF vars, serving, session
<1> QED BY <1>1, <1>2, <1>3, <1>4, <1>5, <1>6, <1>7, <1>8 DEF Next, Loop, Over
-----------------------------------------------------------------------------
(* The replies.                                                            *)
LEMMA QuietDelivered ==
  ASSUME Delivered, UNCHANGED <<got, answer>>, host = "dead" => host' = "dead",
         slot' = slot \/ slot' = [r \in Rid |-> Missing]
  PROVE  Delivered'
<1>1. CASE slot' = slot
  BY <1>1 DEF Delivered
<1>2. CASE slot' = [r \in Rid |-> Missing]
  BY <1>2 DEF Delivered
<1> QED BY <1>1, <1>2

(* Every step delivers to a slot the answer to its own request.           *)
LEMMA NextDelivered ==
  ASSUME BridgeAssumption, Core, [Next]_vars
  PROVE  Delivered'
<1> USE DEF Core
<1>1. CASE \E c \in Caller : Call(c) \/ CallerStep(c)
  <2>1. PICK c \in Caller : Call(c) \/ CallerStep(c)
    BY <1>1
  <2>2. CASE Return(c)
    <3>1. /\ rid[c] \in Rid /\ got' = [got EXCEPT ![rid[c]] = slot[rid[c]]]
          /\ UNCHANGED <<slot, answer, host>>
      BY <2>2 DEF Return, TypeOK, serving, session
    <3>2. \A r \in Rid : got'[r] \in {got[r], slot[r]}
      BY <3>1 DEF TypeOK
    <3>3. \A r \in Rid : got'[r] \in {Missing, Closed, answer[r]}
      BY <3>2 DEF Delivered
    <3> QED BY <3>1, <3>3 DEF Delivered
  <2>3. CASE ~ Return(c)
    <3>1. UNCHANGED <<got, answer, host, slot>>
      BY <2>1, <2>3 DEF CallerStep, Call, Enter, Write, WriteFails, reading, serving, session
    <3> QED BY <3>1, QuietDelivered
  <2> QED BY <2>2, <2>3
<1>2. CASE ReadReply \/ PrintResult
  BY <1>2, QuietDelivered DEF ReadReply, PrintResult, callers, reading, serving, session
<1>3. CASE Route
  <2>1. /\ slot' = [r \in Rid |-> IF r \in Slot(inHand) THEN answer[inHand] ELSE slot[r]]
        /\ UNCHANGED <<got, answer, host>>
    BY <1>3 DEF Route, callers, serving, session
  <2>2. \A r \in Rid : slot'[r] \in {slot[r], answer[r]}
    BY <2>1 DEF Slot
  <2> QED BY <2>1, <2>2 DEF Delivered
<1>4. CASE ReadEOF
  <2>1. /\ slot' = [r \in Rid |-> IF r \in table THEN Closed ELSE slot[r]] /\ host = "dead"
        /\ UNCHANGED <<got, answer, host>>
    BY <1>4 DEF ReadEOF, callers, serving, session
  <2> QED BY <2>1 DEF Delivered
<1>5. CASE Exit \/ Timeout \/ Refuse
  BY <1>5, QuietDelivered DEF Exit, Timeout, Refuse, Dies, serving, session
<1>6. CASE Dispatch \/ ReadResult \/ ReadEnd \/ GuardEnd \/ \E k \in Case : Guard(k)
  BY <1>6, QuietDelivered DEF Dispatch, ReadResult, ReadEnd, GuardEnd, Guard, callers, reading,
     serving, session
<1>7. CASE \E r \in Rid : Job(r)
  <2>1. PICK r \in Rid : Job(r)
    BY <1>7
  <2>2. CASE Serve(r)
    <3>1. /\ answer[r] = Missing /\ host # "dead" /\ UNCHANGED <<got, slot, host>>
      BY <2>2 DEF Serve, Served, Unserved, callers, reading, session
    <3>2. \A s \in Rid : s # r => answer'[s] = answer[s]
      BY <2>2 DEF Serve, TypeOK
    <3>3. \A s \in Rid : slot[s] \in {Missing, answer'[s]} /\ got[s] \in {Missing, Closed, answer'[s]}
      BY <3>1, <3>2 DEF Delivered
    <3> QED BY <3>1, <3>3 DEF Delivered
  <2>3. CASE ~ Serve(r)
    <3>1. UNCHANGED <<got, answer, slot>> /\ host # "dead"
      BY <2>1, <2>3 DEF Job, StartJob, TakeStdin, Send, SendFails, callers, reading
    <3> QED BY <3>1, QuietDelivered
  <2> QED BY <2>2, <2>3
<1>8. CASE FinishUnheard \/ \E o \in Outs : Finish(o)
  BY <1>8, QuietDelivered DEF FinishUnheard, Finish, Shutdown, callers, reading
<1>9. CASE HostCrash \/ UNCHANGED vars
  BY <1>9, QuietDelivered DEF HostCrash, vars, callers, reading, serving, session
<1> QED BY <1>1, <1>2, <1>3, <1>4, <1>5, <1>6, <1>7, <1>8, <1>9 DEF Next, Loop, Over, Reader
-----------------------------------------------------------------------------
(* Every step keeps the invariant.                                         *)
THEOREM NextCore == BridgeAssumption /\ Core /\ [Next]_vars => Core'
  BY NextTypes, NextIds, NextQueue, NextServed, NextDelivered DEF Core

(* The invariant holds in every reachable state.                           *)
THEOREM CoreInvariance == Spec => []Core
  BY InitCore, NextCore, BridgeAssumption, PTL DEF Spec

(* Every variable keeps its type.                                          *)
THEOREM Typing == Spec => []TypeOK
<1>1. Core => TypeOK
  BY DEF Core
<1> QED BY <1>1, CoreInvariance, PTL

(* What the code was told, the guard knows.                                *)
THEOREM RepliesAreOnRecord == Spec => []SeenIsRecorded
<1>1. Core => SeenIsRecorded
  BY BridgeAssumption DEF Core, Delivered, Served, IsOnRecord, SeenIsRecorded, BridgeAssumption
<1> QED BY <1>1, CoreInvariance, PTL
-----------------------------------------------------------------------------
(* The limits.                                                             *)
LEMMA OneMore ==
  ASSUME NEW S, NEW n \in Nat, IsFiniteSet(S), NEW x, Cardinality(S) + 1 <= n
  PROVE  Cardinality(S \cup {x}) <= n
<1>1. Cardinality(S) \in Nat
  BY FS_CardinalityType
<1>2. Cardinality(S \cup {x}) <= Cardinality(S) + 1
  BY FS_AddElement, <1>1
<1>3. Cardinality(S \cup {x}) \in Nat
  BY FS_AddElement, FS_CardinalityType
<1> QED BY <1>1, <1>2, <1>3

(* The requests the host has accepted are finitely many.                  *)
LEMMA SentIsFinite ==
  ASSUME BridgeAssumption
  PROVE  IsFiniteSet(Sent) /\ \A k : IsFiniteSet(Counted(k))
<1>1. IsFiniteSet(Rid)
  BY FS_Interval DEF Rid, BridgeAssumption
<1>2. Sent \subseteq Rid /\ \A k : Counted(k) \subseteq Rid
  BY DEF Sent, Counted
<1> QED BY <1>1, <1>2, FS_Subset

(* A request is accepted only within both limits.                         *)
LEMMA DispatchKeepsLimits ==
  ASSUME BridgeAssumption, Core, WithinLimits, Dispatch
  PROVE  WithinLimits'
<1> DEFINE h == Head(toHost)
<1>0. /\ toHost # <<>> /\ h # 0 /\ Within(asked[h]) /\ job' = [job EXCEPT ![h] = "queued"]
      /\ asked' = asked /\ job \in [Rid -> {"none", "queued", "serving", "answered", "sending",
                                            "done", "cancelled"}]
      /\ h \in Rid /\ Budget \in Nat /\ CaseCap \in Nat
  BY TypesSplit, HeadAndTail DEF Dispatch, Core, TypeOK, callers, BridgeAssumption
<1> HIDE DEF h
<1>1. Sent' = Sent \cup {h}
  BY <1>0 DEF Sent
<1>2. Cardinality(Sent') <= Budget
  <2>1. Cardinality(Sent) + 1 <= Budget
    BY <1>0, SentIsFinite, FS_CardinalityType DEF Within, OverBudget
  <2> QED BY <1>0, <1>1, <2>1, SentIsFinite, OneMore
<1>3. ASSUME CaseCap > 0, NEW k \in Case
      PROVE  Cardinality(Counted(k)') <= CaseCap
  <2>1. CASE asked[h].case = k /\ ~ Replayable(asked[h])
    <3>1. Counted(k)' = Counted(k) \cup {h}
      BY <1>0, <1>1, <2>1 DEF Counted
    <3>2. Cardinality(Counted(k)) + 1 <= CaseCap
      BY <1>0, <1>3, <2>1, SentIsFinite, FS_CardinalityType DEF Within, OverCap
    <3> QED BY <1>0, <3>1, <3>2, SentIsFinite, OneMore
  <2>2. CASE ~ (asked[h].case = k /\ ~ Replayable(asked[h]))
    <3>1. Counted(k)' = Counted(k)
      BY <1>0, <1>1, <2>2 DEF Counted
    <3> QED BY <1>3, <3>1 DEF WithinLimits
  <2> QED BY <2>1, <2>2
<1> QED BY <1>0, <1>2, <1>3 DEF WithinLimits

(* Nothing else gives a request a job, and no request with one is changed. *)
LEMMA QuietLimits ==
  ASSUME WithinLimits, Core, BridgeAssumption, asked' = asked \/ \E q : asked' = Append(asked, q),
         \A r \in Rid : job'[r] = "none" <=> job[r] = "none"
  PROVE  WithinLimits'
<1>1. Sent' = Sent
  BY DEF Sent
<1>2. \A r \in Sent : asked'[r] = asked[r]
  <2>1. \A r \in Sent : r \in 1..Len(asked)
    BY DEF Core, Queue, Sent, Rid, BridgeAssumption, TypeOK
  <2>2. asked \in Seq(Request)
    BY DEF Core, TypeOK
  <2> QED BY <2>1, <2>2
<1>3. \A k : Counted(k)' = Counted(k)
  BY <1>1, <1>2 DEF Counted, Replayable
<1> QED BY <1>1, <1>3 DEF WithinLimits

(* Every step but a dispatch and the host's own end is quiet.              *)
LEMMA Quiet ==
  ASSUME BridgeAssumption, Core, Next, ~ Dispatch, ~ HostCrash
  PROVE  /\ asked' = asked \/ \E q : asked' = Append(asked, q)
         /\ \A r \in Rid : job'[r] = "none" <=> job[r] = "none"
<1>0. job \in [Rid -> {"none", "queued", "serving", "answered", "sending", "done", "cancelled"}]
  BY DEF Core, TypeOK
<1>1. CASE \E c \in Caller : Call(c) \/ CallerStep(c)
  BY <1>1 DEF CallerStep, Call, Enter, Write, WriteFails, Return, serving
<1>2. CASE Reader \/ PrintResult \/ Exit \/ Timeout
  BY <1>2 DEF Reader, ReadReply, Route, ReadEOF, PrintResult, Exit, Timeout, Dies, serving, callers
<1>3. CASE Refuse \/ ReadResult \/ ReadEnd \/ GuardEnd \/ \E k \in Case : Guard(k)
  BY <1>3 DEF Refuse, ReadResult, ReadEnd, GuardEnd, Guard, Dies, serving, callers
<1>4. CASE \E r \in Rid : Job(r)
  <2>1. PICK r \in Rid : Job(r)
    BY <1>4
  <2>2. asked' = asked
    BY <2>1 DEF Job, StartJob, Serve, TakeStdin, Send, SendFails, callers
  <2>3. \A s \in Rid : job'[s] = "none" <=> job[s] = "none"
    BY <1>0, <2>1 DEF Job, StartJob, Serve, TakeStdin, Send, SendFails
  <2> QED BY <2>2, <2>3
<1>5. CASE FinishUnheard \/ \E o \in Outs : Finish(o)
  BY <1>5, <1>0 DEF FinishUnheard, Finish, Shutdown, callers
<1>6. CASE Over
  BY <1>6 DEF Over, vars, callers, serving
<1> QED BY <1>1, <1>2, <1>3, <1>4, <1>5, <1>6 DEF Next, Loop

(* However many calls are in service, the model is asked no more often     *)
(* than the limits allow.                                                  *)
THEOREM LimitsHold == Spec => []WithinLimits
<1>1. Init => WithinLimits
  <2> SUFFICES ASSUME Init PROVE WithinLimits
    OBVIOUS
  <2>1. Sent = {} /\ \A k : Counted(k) = {}
    BY DEF Init, Sent, Counted
  <2> QED BY <2>1, FS_EmptySet, BridgeAssumption DEF WithinLimits, BridgeAssumption
<1>2. BridgeAssumption /\ Core /\ WithinLimits /\ [Next]_vars => WithinLimits'
  <2> SUFFICES ASSUME BridgeAssumption, Core, WithinLimits, [Next]_vars PROVE WithinLimits'
    OBVIOUS
  <2>1. CASE Dispatch
    BY <2>1, DispatchKeepsLimits
  <2>2. CASE HostCrash
    <3>1. Sent' = {} /\ \A k : Counted(k)' = {}
      BY <2>2 DEF HostCrash, Sent, Counted
    <3>2. Cardinality(Sent') = 0 /\ \A k : Cardinality(Counted(k)') = 0
      BY <3>1, FS_EmptySet
    <3>3. Budget >= 0 /\ CaseCap \in Int
      BY DEF BridgeAssumption
    <3> QED BY <3>2, <3>3 DEF WithinLimits
  <2>3. CASE Next /\ ~ Dispatch /\ ~ HostCrash
    BY <2>3, Quiet, QuietLimits
  <2>4. CASE UNCHANGED vars
    BY <2>4, QuietLimits DEF vars, callers, serving
  <2> QED BY <2>1, <2>2, <2>3, <2>4
<1> QED BY <1>1, <1>2, CoreInvariance, BridgeAssumption, PTL DEF Spec
-----------------------------------------------------------------------------
(* The bridge is a remote call.                                            *)
MadeCalls == {r \in Rid : r <= Len(asked)}

(* A step that calls, serves and returns nothing is a stutter of          *)
(* RemoteCall.                                                            *)
LEMMA QuietRPC ==
  ASSUME UNCHANGED <<asked, answer, got>>, host' = "dead" <=> host = "dead"
  PROVE  UNCHANGED <<MadeCalls, answer, got, host # "dead">>
<1>1. MadeCalls' = MadeCalls
  BY DEF MadeCalls
<1>2. (host # "dead")' = (host # "dead")
  OBVIOUS
<1> QED BY <1>1, <1>2

(* Every step of the bridge is one of RemoteCall, or a stutter.           *)
LEMMA StepIsRemoteCall ==
  ASSUME BridgeAssumption, Core, [Next]_vars
  PROVE  RPC!Next \/ UNCHANGED <<MadeCalls, answer, got, host # "dead">>
<1>0. /\ answer \in [Rid -> Reply \cup {Missing}] /\ rid \in [Caller -> Rid]
      /\ got \in [Rid -> Reply \cup {Closed, Missing}] /\ Rid = 1..MaxRid /\ MaxRid \in Nat
      /\ asked \in Seq(Request) /\ Len(asked) \in Nat
  BY DEF Core, TypeOK, Rid, BridgeAssumption
<1>1. CASE \E c \in Caller : Call(c) \/ CallerStep(c)
  <2>1. PICK c \in Caller : Call(c) \/ CallerStep(c)
    BY <1>1
  <2>2. CASE Call(c)
    <3>1. PICK q \in Request : asked' = Append(asked, q)
      BY <2>2 DEF Call
    <3>2. PICK n \in Rid : n = Len(asked) + 1
      BY <1>0, <2>2 DEF Call
    <3>3. Len(asked') = n /\ UNCHANGED <<answer, got, host>>
      BY <1>0, <2>2, <3>1, <3>2 DEF Call, serving, session
    <3>4. MadeCalls' = MadeCalls \cup {n}
      BY <1>0, <3>2, <3>3 DEF MadeCalls
    <3>5. RPC!Call(n)
      BY <3>3, <3>4 DEF RPC!Call, MadeCalls
    <3> QED BY <3>5 DEF RPC!Next
  <2>3. CASE Return(c)
    <3>1. /\ rid[c] \in Rid /\ at[c] = "wait" /\ slot[rid[c]] # Missing
          /\ got' = [got EXCEPT ![rid[c]] = slot[rid[c]]]
          /\ UNCHANGED <<asked, answer, host>>
      BY <1>0, <2>3 DEF Return, serving, session
    <3>2. got[rid[c]] = Missing
      BY <3>1 DEF Core, Ids
    <3>3. \/ answer[rid[c]] # Missing /\ slot[rid[c]] = answer[rid[c]]
          \/ host = "dead" /\ slot[rid[c]] = Closed
      BY <3>1 DEF Core, Delivered
    <3>4. RPC!Return(rid[c])
      BY <3>1, <3>2, <3>3 DEF RPC!Return
    <3> QED BY <3>1, <3>4 DEF RPC!Next
  <2>4. CASE ~ Call(c) /\ ~ Return(c)
    <3>1. UNCHANGED <<asked, answer, got, host>>
      BY <2>1, <2>4 DEF CallerStep, Enter, Write, WriteFails, serving, session
    <3> QED BY <3>1, QuietRPC
  <2> QED BY <2>2, <2>3, <2>4
<1>2. CASE \E r \in Rid : Job(r)
  <2>1. PICK r \in Rid : Job(r)
    BY <1>2
  <2>2. CASE Serve(r)
    <3>1. /\ job[r] = "serving" /\ host # "dead" /\ UNCHANGED <<asked, got, host>>
      BY <2>2 DEF Serve, callers, session
    <3>2. r <= Len(asked) /\ answer[r] = Missing
      BY <3>1 DEF Core, Queue, Served, Unserved
    <3>3. PICK v \in Replies(asked[r]) : answer' = [answer EXCEPT ![r] = v]
      BY <2>2 DEF Serve
    <3>4. asked[r] \in Request
      BY <1>0, <3>2
    <3>5. v \in Reply
      BY <3>3, <3>4, RepliesAreReplies
    <3>6. RPC!Serve(r)
      BY <3>1, <3>2, <3>3, <3>5 DEF RPC!Serve
    <3> QED BY <3>6 DEF RPC!Next
  <2>3. CASE ~ Serve(r)
    <3>1. UNCHANGED <<asked, answer, got>> /\ host # "dead" /\ host' # "dead"
      BY <2>1, <2>3 DEF Job, StartJob, TakeStdin, Send, SendFails, callers, session
    <3> QED BY <3>1, QuietRPC
  <2> QED BY <2>2, <2>3
<1>3. CASE HostCrash
  <2>1. host' = "dead" /\ UNCHANGED <<asked, answer, got>>
    BY <1>3 DEF HostCrash, callers
  <2>2. RPC!Stop
    BY <2>1 DEF RPC!Stop
  <2> QED BY <2>2 DEF RPC!Next
<1>4. CASE Reader \/ PrintResult \/ Exit \/ Timeout
  <2>1. UNCHANGED <<asked, answer, got, host>>
    BY <1>4 DEF Reader, ReadReply, Route, ReadEOF, PrintResult, Exit, Timeout, Dies, serving,
       session, callers
  <2> QED BY <2>1, QuietRPC
<1>5. CASE Loop
  <2>1. UNCHANGED <<asked, answer, got>> /\ host # "dead" /\ host' # "dead"
    BY <1>5 DEF Loop, Dispatch, Refuse, ReadResult, ReadEnd, FinishUnheard, Finish, Shutdown,
       GuardEnd, Guard, Dies, serving, session, callers
  <2> QED BY <2>1, QuietRPC
<1>6. CASE UNCHANGED vars
  <2>1. UNCHANGED <<asked, answer, got, host>>
    BY <1>6 DEF vars, serving, session, callers
  <2> QED BY <2>1, QuietRPC
<1> QED BY <1>1, <1>2, <1>3, <1>4, <1>5, <1>6 DEF Next, Over

(* Whatever the interleaving, a caller gets the reply to its own request,  *)
(* served at most once, or an error once the host is gone.                 *)
THEOREM BridgeIsARemoteCall == Spec => ImplementsRemoteCall
<1>1. Init => RPC!Init
  <2> SUFFICES ASSUME Init PROVE RPC!Init
    OBVIOUS
  <2>1. {r \in Rid : r <= Len(asked)} = {}
    BY BridgeAssumption DEF Init, Rid, BridgeAssumption
  <2>2. (host # "dead") = TRUE
    BY DEF Init
  <2> QED BY <2>1, <2>2 DEF Init, RPC!Init
<1>2. BridgeAssumption /\ Core /\ [Next]_vars => [RPC!Next]_(RPC!vars)
  BY StepIsRemoteCall DEF RPC!vars, MadeCalls
<1> QED BY <1>1, <1>2, CoreInvariance, BridgeAssumption, PTL
        DEF Spec, ImplementsRemoteCall, RPC!Spec
-----------------------------------------------------------------------------
(* The guard.                                                              *)

(* Before the guard nothing was put out, and what it still has to look at  *)
(* is what the result line said.                                           *)
GuardStage ==
  /\ host \in {"read", "serve", "closing", "dead"} =>
       said = Unmeasured /\ outputs = Unmeasured /\ toGuard = {}
  /\ \A k \in toGuard : said[k] # Missing /\ outputs[k] = said[k]
  /\ host \in {"guard", "done"} => ~ alive
  /\ host = "done" => toGuard = {}

SoundAt(k) ==
  \/ outputs[k] = Observed[k]
  \/ /\ Observed[k] = Missing
     /\ \E r \in 1..Len(asked) : /\ asked[r].case = k /\ IsDirect(asked[r])
                                 /\ outputs[k] = answer[r]
  \/ Cardinality(Votes(k, outputs[k], answer)) >= MinSupport

KeptAt(k) ==
  Observed[k] # Missing /\ Cardinality(Votes(k, said[k], got)) >= MinSupport =>
    outputs[k] = said[k]

Judged ==
  MinSupport > 0 =>
    \A k \in Case \ toGuard : /\ outputs[k] # Missing => SoundAt(k)
                              /\ host \in {"guard", "done"} => KeptAt(k)

GuardInv == GuardStage /\ Judged

(* A set each of whose members is f[i] for some i up to n is finite.      *)
LEMMA ImageIsFinite ==
  ASSUME NEW n \in Nat, NEW f, NEW T, \A x \in T : \E i \in 1..n : x = f[i]
  PROVE  IsFiniteSet(T)
<1>1. IsFiniteSet(1..n)
  BY FS_Interval
<1> DEFINE S == {i \in 1..n : f[i] \in T}
           g == [i \in S |-> f[i]]
<1>2. IsFiniteSet(S)
  BY <1>1, FS_Subset
<1>3. g \in Surjection(S, T)
  BY DEF Surjection
<1> HIDE DEF S, g
<1> QED BY <1>2, <1>3, FS_Surjection

(* A superset of enough votes is enough votes.                             *)
LEMMA MoreVotes ==
  ASSUME NEW S, NEW T, NEW n \in Nat, IsFiniteSet(T), S \subseteq T, Cardinality(S) >= n
  PROVE  Cardinality(T) >= n
<1>1. IsFiniteSet(S) /\ Cardinality(S) <= Cardinality(T)
  BY FS_Subset
<1>2. Cardinality(S) \in Nat /\ Cardinality(T) \in Nat
  BY <1>1, FS_CardinalityType
<1> QED BY <1>1, <1>2

(* The votes for an answer are finitely many.                             *)
LEMMA VotesAreFinite ==
  ASSUME TypeOK, NEW k, NEW a, NEW f
  PROVE  IsFiniteSet(Votes(k, a, f))
<1>1. Len(asked) \in Nat
  BY DEF TypeOK
<1> DEFINE g == [r \in 1..Len(asked) |-> asked[r].sig]
<1>2. \A x \in Votes(k, a, f) : \E i \in 1..Len(asked) : x = g[i]
  BY DEF Votes
<1> HIDE DEF g
<1> QED BY <1>1, <1>2, ImageIsFinite

(* The support the guard counts is finite.                                *)
LEMMA SupportIsFinite ==
  ASSUME TypeOK, NEW k, NEW a
  PROVE  IsFiniteSet(Support(k, a))
<1>1. Len(records) \in Nat
  BY DEF TypeOK
<1> DEFINE g == [i \in 1..Len(records) |-> asked[records[i]].sig]
<1>2. \A x \in Support(k, a) : \E i \in 1..Len(records) : x = g[i]
  BY DEF Support, On
<1> HIDE DEF g
<1> QED BY <1>1, <1>2, ImageIsFinite

(* Whatever is on record was asked.                                        *)
LEMMA RecordedWasAsked ==
  ASSUME BridgeAssumption, Core, host # "dead", NEW i \in 1..Len(records)
  PROVE  records[i] \in Rid /\ records[i] \in 1..Len(asked) /\ answer[records[i]] \in Answer
<1>1. records[i] \in Rid /\ answer[records[i]] \in Answer
  BY DEF Core, TypeOK, Served
<1>2. job[records[i]] # "none"
  BY <1>1 DEF Core, Served, Unserved, BridgeAssumption
<1> QED BY <1>1, <1>2 DEF Core, Queue, Rid, BridgeAssumption, TypeOK

(* The guard counts nothing but replies to enhanced requests.             *)
LEMMA SupportIsVotes ==
  ASSUME BridgeAssumption, Core, host # "dead", NEW k, NEW a
  PROVE  Support(k, a) \subseteq Votes(k, a, answer)
<1>1. SUFFICES ASSUME NEW s \in Support(k, a) PROVE s \in Votes(k, a, answer)
  OBVIOUS
<1>2. PICK i \in On(k) : asked[records[i]].sig = s /\ Match(a, answer[records[i]])
  BY DEF Support
<1>3. i \in 1..Len(records) /\ asked[records[i]].case = k /\ s \in Enhanced
  BY DEF On, Support
<1>4. records[i] \in 1..Len(asked)
  BY <1>3, RecordedWasAsked
<1> QED BY <1>2, <1>3, <1>4 DEF Votes

(* And it counts every such reply that reached the code.                  *)
LEMMA SeenIsSupport ==
  ASSUME BridgeAssumption, Core, host # "dead", NEW k, NEW a \in Answer
  PROVE  Votes(k, a, got) \subseteq Support(k, a)
<1>1. SUFFICES ASSUME NEW s \in Votes(k, a, got) PROVE s \in Support(k, a)
  OBVIOUS
<1>2. PICK r \in 1..Len(asked) : /\ asked[r].case = k /\ asked[r].sig \in Enhanced
                                 /\ Match(a, got[r]) /\ s = asked[r].sig
  BY DEF Votes
<1>3. r \in Rid /\ got[r] = a
  BY <1>2 DEF Match, Core, TypeOK, Rid, BridgeAssumption
<1>4. answer[r] = a
  BY <1>3 DEF Core, Delivered, BridgeAssumption
<1>5. PICK i \in 1..Len(records) : records[i] = r
  BY <1>3, <1>4 DEF Core, Served, IsOnRecord
<1> QED BY <1>2, <1>3, <1>4, <1>5 DEF Support, On, Match

(* An anchor is the record, or what a direct call returned.                *)
LEMMA AnchorIsSound ==
  ASSUME BridgeAssumption, Core, host # "dead", NEW k \in Case, Anchor(k) # Missing
  PROVE  \/ Anchor(k) = Observed[k]
         \/ /\ Observed[k] = Missing
            /\ \E r \in 1..Len(asked) : /\ asked[r].case = k /\ IsDirect(asked[r])
                                        /\ Anchor(k) = answer[r]
<1>1. CASE Observed[k] # Missing
  BY <1>1 DEF Anchor
<1>2. CASE Observed[k] = Missing
  <2>1. Directs(k) # {}
    BY <1>2 DEF Anchor
  <2>2. Directs(k) \subseteq 1..Len(records) /\ Len(records) \in Nat
    BY DEF Directs, On, Core, TypeOK
  <2>3. \E i \in Directs(k) : \A j \in Directs(k) : i <= j
    BY <2>1, <2>2, LeastExists
  <2> DEFINE i == CHOOSE i \in Directs(k) : \A j \in Directs(k) : i <= j
  <2>4. i \in Directs(k)
    BY <2>3
  <2>5. Anchor(k) = answer[records[i]]
    BY <1>2, <2>1 DEF Anchor
  <2> HIDE DEF i
  <2>6. records[i] \in 1..Len(asked) /\ asked[records[i]].case = k /\ IsDirect(asked[records[i]])
    BY <2>2, <2>4, RecordedWasAsked DEF Directs, On
  <2> QED BY <1>2, <2>5, <2>6
<1> QED BY <1>1, <1>2

(* Nothing the guard looks at moves, but that the code may ask more while  *)
(* it lives, and a call in service may be answered.                        *)
LEMMA QuietGuard ==
  ASSUME BridgeAssumption, Core, Core', GuardInv, UNCHANGED <<said, outputs, toGuard>>,
         host' \in {"read", "serve", "closing"} => host \in {"read", "serve", "closing"},
         host' \in {"guard", "done"} => host \in {"guard", "done"} \/ (outputs = said /\ toGuard = {}),
         host' = "dead" => host = "dead",
         host' = "done" => host = "done" \/ toGuard = {},
         host' \in {"guard", "done"} => ~ alive' /\ UNCHANGED <<asked, got>>,
         Len(asked) <= Len(asked'), \A r \in 1..Len(asked) : asked'[r] = asked[r],
         \A r \in Rid : answer[r] # Missing => answer'[r] = answer[r]
  PROVE  GuardInv'
<1> USE DEF GuardInv
<1>0. /\ Len(asked) \in Nat /\ Len(asked') \in Nat /\ \A r \in 1..Len(asked) : r \in Rid
      /\ \A r \in 1..Len(asked) : r \in 1..Len(asked')
      /\ host \in {"read", "serve", "closing", "guard", "done", "dead"}
  <2>1. asked \in Seq(Request) /\ asked' \in Seq(Request) /\ Len(asked) <= MaxRid /\ MaxRid \in Nat
    BY DEF Core, TypeOK, BridgeAssumption
  <2>2. host \in {"read", "serve", "closing", "guard", "done", "dead"}
    BY DEF Core, TypeOK
  <2> QED BY <2>1, <2>2 DEF Rid
<1>1. GuardStage'
  BY <1>0 DEF GuardStage
<1>2. ASSUME NEW k \in Case, outputs[k] # Missing, SoundAt(k)
      PROVE  SoundAt(k)'
  <2> DEFINE a == outputs[k]
  <2>1. CASE a = Observed[k]
    BY <2>1 DEF SoundAt
  <2>2. CASE /\ Observed[k] = Missing
             /\ \E r \in 1..Len(asked) : asked[r].case = k /\ IsDirect(asked[r]) /\ a = answer[r]
    <3>1. PICK r \in 1..Len(asked) : asked[r].case = k /\ IsDirect(asked[r]) /\ a = answer[r]
      BY <2>2
    <3>2. answer'[r] = a /\ asked'[r] = asked[r] /\ r \in 1..Len(asked')
      BY <1>0, <1>2, <3>1
    <3> QED BY <2>2, <3>1, <3>2 DEF SoundAt
  <2>3. CASE Cardinality(Votes(k, a, answer)) >= MinSupport
    <3>1. Votes(k, a, answer) \subseteq Votes(k, a, answer)'
      <4>1. SUFFICES ASSUME NEW r \in 1..Len(asked), asked[r].case = k, asked[r].sig \in Enhanced,
                            Match(a, answer[r])
                     PROVE  asked[r].sig \in Votes(k, a, answer)'
        BY DEF Votes
      <4>2. answer'[r] = answer[r] /\ asked'[r] = asked[r] /\ r \in 1..Len(asked')
        BY <1>0, <1>2, <4>1 DEF Match
      <4>3. Match(a, answer'[r])
        BY <4>1, <4>2
      <4> QED BY <4>1, <4>2, <4>3 DEF Votes
    <3>2. IsFiniteSet(Votes(k, a, answer)')
      <4> DEFINE g == [r \in 1..Len(asked') |-> asked'[r].sig]
                 T == Votes(k, a, answer)'
      <4>1. \A x \in T : \E i \in 1..Len(asked') : x = g[i]
        BY DEF Votes
      <4>2. Len(asked') \in Nat
        BY <1>0
      <4> HIDE DEF g, T
      <4>3. IsFiniteSet(T)
        BY <4>1, <4>2, ImageIsFinite
      <4> QED BY <4>3 DEF T
    <3>3. Cardinality(Votes(k, a, answer)') >= MinSupport
      BY <2>3, <3>1, <3>2, MoreVotes DEF BridgeAssumption
    <3>4. a' = a
      OBVIOUS
    <3> QED BY <3>3, <3>4 DEF SoundAt
  <2> QED BY <1>2, <2>1, <2>2, <2>3 DEF SoundAt
<1>3. ASSUME NEW k \in Case, host' \in {"guard", "done"}, k \notin toGuard,
             host \in {"guard", "done"} => KeptAt(k)
      PROVE  KeptAt(k)'
  <2>1. CASE host \in {"guard", "done"}
    <3>1. Votes(k, said[k], got)' = Votes(k, said[k], got)
      BY <1>3 DEF Votes
    <3> QED BY <1>3, <2>1, <3>1 DEF KeptAt
  <2>2. CASE host \notin {"guard", "done"}
    BY <1>3, <2>2 DEF KeptAt
  <2> QED BY <2>1, <2>2
<1>4. Judged'
  BY <1>2, <1>3 DEF Judged
<1> QED BY <1>1, <1>4

(* One case of the guard.                                                  *)
LEMMA GuardKeeps ==
  ASSUME BridgeAssumption, Core, GuardInv, NEW k \in Case, Guard(k)
  PROVE  GuardInv'
<1> USE DEF GuardInv
<1> DEFINE a == outputs[k]
<1>0. /\ host = "guard" /\ k \in toGuard /\ outputs \in Outs /\ said \in Outs
      /\ outputs' = [outputs EXCEPT ![k] = Guarded(k, outputs[k])]
      /\ toGuard' = toGuard \ {k}
      /\ UNCHANGED <<alive, asked, got, answer, host, said>>
  BY DEF Guard, callers, serving, session, Core, TypeOK
<1>1. /\ outputs'[k] = Guarded(k, a) /\ \A j \in Case : j # k => outputs'[j] = outputs[j]
      /\ a = said[k] /\ a \in Answer
  BY <1>0 DEF GuardStage, Outs
<1>2. GuardStage'
  BY <1>0, <1>1 DEF GuardStage, Core, TypeOK
<1>3. outputs'[k] # Missing /\ MinSupport > 0 => SoundAt(k)'
  <2>1. SUFFICES ASSUME outputs'[k] # Missing PROVE SoundAt(k)'
    OBVIOUS
  <2>2. Anchor(k) # Missing
    BY <1>1, <2>1 DEF Guarded
  <2>3. CASE outputs'[k] = Anchor(k)
    BY <1>0, <2>2, <2>3, AnchorIsSound DEF SoundAt
  <2>4. CASE outputs'[k] # Anchor(k)
    <3>1. outputs'[k] = a /\ Cardinality(Support(k, a)) >= MinSupport
      BY <1>1, <2>2, <2>4 DEF Guarded, Match
    <3>2. Cardinality(Votes(k, a, answer)) >= MinSupport
      BY <1>0, <3>1, SupportIsVotes, VotesAreFinite, MoreVotes DEF Core, BridgeAssumption
    <3>3. Votes(k, outputs[k], answer)' = Votes(k, a, answer)
      BY <1>0, <3>1 DEF Votes
    <3> QED BY <3>2, <3>3 DEF SoundAt
  <2> QED BY <2>3, <2>4
<1>4. KeptAt(k)'
  <2>1. SUFFICES ASSUME Observed[k] # Missing, Cardinality(Votes(k, said[k], got)) >= MinSupport
                 PROVE  outputs'[k] = said[k]
    <3>1. Votes(k, said[k], got)' = Votes(k, said[k], got)
      BY <1>0 DEF Votes
    <3> QED BY <1>0, <3>1 DEF KeptAt
  <2>2. Cardinality(Support(k, a)) >= MinSupport
    BY <1>0, <1>1, <2>1, SeenIsSupport, SupportIsFinite, MoreVotes DEF Core, BridgeAssumption
  <2>3. Anchor(k) # Missing
    BY <2>1 DEF Anchor
  <2> QED BY <1>1, <2>2, <2>3 DEF Guarded
<1>5. ASSUME NEW j \in Case, j # k
      PROVE  (SoundAt(j) => SoundAt(j)') /\ (KeptAt(j) => KeptAt(j)')
  <2>1. Votes(j, outputs[j], answer)' = Votes(j, outputs[j], answer)
        /\ Votes(j, said[j], got)' = Votes(j, said[j], got)
    BY <1>0, <1>1, <1>5 DEF Votes
  <2> QED BY <1>0, <1>1, <1>5, <2>1 DEF SoundAt, KeptAt
<1>6. Judged'
  BY <1>0, <1>1, <1>3, <1>4, <1>5 DEF Judged
<1> QED BY <1>2, <1>6

(* The guard starts on what the result line said.                          *)
LEMMA FinishKeeps ==
  ASSUME BridgeAssumption, Core, GuardInv, NEW o \in Outs, Finish(o)
  PROVE  GuardInv'
<1>0. /\ said' = o /\ outputs' = o /\ ~ alive' /\ host' = "guard"
      /\ toGuard' = IF MinSupport > 0 THEN {k \in Case : o[k] # Missing} ELSE {}
  BY DEF Finish, Shutdown
<1>1. GuardStage'
  BY <1>0 DEF GuardStage
<1>2. Judged'
  BY <1>0 DEF Judged, KeptAt
<1> QED BY <1>1, <1>2 DEF GuardInv

(* Every step keeps the guard's invariant.                                *)
LEMMA NextGuard ==
  ASSUME BridgeAssumption, Core, Core', GuardInv, [Next]_vars
  PROVE  GuardInv'
<1>0. /\ Len(asked) \in Nat /\ asked \in Seq(Request)
      /\ job \in [Rid -> {"none", "queued", "serving", "answered", "sending", "done", "cancelled"}]
      /\ answer \in [Rid -> Reply \cup {Missing}]
  BY DEF Core, TypeOK
<1>s. /\ host \in {"read", "serve", "closing", "dead"} =>
           said = Unmeasured /\ outputs = Unmeasured /\ toGuard = {}
      /\ host \in {"guard", "done"} => ~ alive
  BY DEF GuardInv, GuardStage
<1>1. ASSUME NEW c \in Caller, Call(c)
      PROVE  GuardInv'
  <2>1. /\ UNCHANGED <<said, outputs, toGuard, host, answer, got, alive>> /\ alive
        /\ \E q \in Request : asked' = Append(asked, q)
    BY <1>1 DEF Call, closing, session, serving
  <2>2. Len(asked) <= Len(asked') /\ \A r \in 1..Len(asked) : asked'[r] = asked[r]
    BY <1>0, <2>1
  <2> QED BY <1>s, <2>1, <2>2, QuietGuard
<1>2. ASSUME NEW c \in Caller, CallerStep(c)
      PROVE  GuardInv'
  <2>1. UNCHANGED <<said, outputs, toGuard, host, answer, alive, asked>> /\ alive
    BY <1>2 DEF CallerStep, Enter, Write, WriteFails, Return, closing, session, serving
  <2> QED BY <1>0, <1>s, <2>1, QuietGuard
<1>3. CASE Reader \/ PrintResult \/ Exit \/ Timeout
  <2>1. UNCHANGED <<said, outputs, toGuard, host, answer, asked, got>>
        /\ (host \in {"guard", "done"} => ~ alive')
    BY <1>3, <1>s DEF Reader, ReadReply, Route, ReadEOF, PrintResult, Exit, Timeout, Dies,
       closing, session, serving, callers
  <2> QED BY <1>0, <1>s, <2>1, QuietGuard
<1>4. CASE Dispatch \/ Refuse \/ ReadResult \/ ReadEnd
  <2>1. /\ UNCHANGED <<said, outputs, toGuard, answer, asked, got>>
        /\ host = "read" /\ host' \in {"read", "serve", "closing"}
    BY <1>4 DEF Dispatch, Refuse, ReadResult, ReadEnd, Dies, closing, serving, callers
  <2> QED BY <1>0, <2>1, QuietGuard
<1>5. CASE \E r \in Rid : Job(r)
  <2>1. PICK r \in Rid : Job(r)
    BY <1>5
  <2>2. /\ UNCHANGED <<said, outputs, toGuard, alive, asked, got>>
        /\ host' = host \/ (host = "serve" /\ host' \in {"read", "closing"})
    BY <2>1 DEF Job, StartJob, Serve, TakeStdin, Send, SendFails, closing, session, callers
  <2>3. \A s \in Rid : answer[s] # Missing => answer'[s] = answer[s]
    <3>1. CASE Serve(r)
      <4>1. answer[r] = Missing
        BY <3>1 DEF Serve, Core, Served, Unserved
      <4> QED BY <1>0, <3>1, <4>1 DEF Serve
    <3>2. CASE ~ Serve(r)
      BY <2>1, <3>2 DEF Job, StartJob, TakeStdin, Send, SendFails
    <3> QED BY <3>1, <3>2
  <2> QED BY <1>0, <1>s, <2>2, <2>3, QuietGuard
<1>6. CASE FinishUnheard
  <2>1. UNCHANGED <<said, outputs, toGuard, alive, asked, got, answer>>
        /\ host = "closing" /\ host' = "done" /\ ~ alive
    BY <1>6 DEF FinishUnheard, Shutdown, closing, callers
  <2> QED BY <1>0, <1>s, <2>1, QuietGuard
<1>7. ASSUME NEW o \in Outs, Finish(o)
      PROVE  GuardInv'
  BY <1>7, FinishKeeps
<1>8. CASE GuardEnd
  <2>1. UNCHANGED <<said, outputs, toGuard, alive, asked, got, answer>>
        /\ host = "guard" /\ host' = "done" /\ toGuard = {}
    BY <1>8 DEF GuardEnd, closing, serving, callers
  <2> QED BY <1>0, <1>s, <2>1, QuietGuard
<1>9. ASSUME NEW k \in Case, Guard(k)
      PROVE  GuardInv'
  BY <1>9, GuardKeeps
<1>10. CASE HostCrash
  <2>1. host' = "dead" /\ said' = Unmeasured /\ outputs' = Unmeasured /\ toGuard' = {}
    BY <1>10 DEF HostCrash
  <2>2. GuardStage'
    BY <2>1 DEF GuardStage
  <2>3. Judged'
    BY <2>1 DEF Judged, Unmeasured
  <2> QED BY <2>2, <2>3 DEF GuardInv
<1>11. CASE UNCHANGED vars
  <2>1. UNCHANGED <<said, outputs, toGuard, host, answer, asked, got, alive>>
    BY <1>11 DEF vars, closing, session, serving, callers
  <2> QED BY <1>0, <1>s, <2>1, QuietGuard
<1> QED BY <1>1, <1>2, <1>3, <1>4, <1>5, <1>6, <1>7, <1>8, <1>9, <1>10, <1>11
        DEF Next, Loop, Over

(* The guard keeps its invariant at every step.                            *)
THEOREM GuardInvariance == Spec => []GuardInv
<1>1. Init => GuardInv
  BY DEF Init, GuardInv, GuardStage, Judged, Unmeasured
<1>2. BridgeAssumption /\ Core /\ Core' /\ GuardInv /\ [Next]_vars => GuardInv'
  BY NextGuard
<1> QED BY <1>1, <1>2, CoreInvariance, BridgeAssumption, PTL DEF Spec

(* An answer that leaves the host is the record, or a direct call's where  *)
(* there is none, or has enough votes among the replies, however the calls *)
(* still in service interleave with the guard.                             *)
THEOREM AnswersAreSound == Spec => []GuardSound
<1>1. GuardInv => GuardSound
  BY DEF GuardInv, GuardStage, Judged, SoundAt, GuardSound, ok
<1> QED BY <1>1, GuardInvariance, PTL

(* The guard reverts no answer with enough votes among the replies that    *)
(* reached the code.                                                       *)
THEOREM SupportedAnswersAreKept == Spec => []SupportedIsKept
<1>1. GuardInv => SupportedIsKept
  BY DEF GuardInv, GuardStage, Judged, KeptAt, SupportedIsKept, ok
<1> QED BY <1>1, GuardInvariance, PTL
-----------------------------------------------------------------------------
(* An answer is one of those the host may give to the request it answers.  *)
Replied == \A r \in Rid : answer[r] # Missing =>
             r <= Len(asked) /\ answer[r] \in Replies(asked[r])

(* Every step keeps answers among the replies to their own requests.       *)
LEMMA NextReplied ==
  ASSUME BridgeAssumption, Core, Core', Replied, [Next]_vars
  PROVE  Replied'
<1>1. CASE \E r \in Rid : Serve(r)
  <2>1. PICK r \in Rid : Serve(r)
    BY <1>1
  <2>2. PICK v \in Replies(asked[r]) : answer' = [answer EXCEPT ![r] = v]
    BY <2>1 DEF Serve
  <2>3. asked' = asked /\ job[r] = "serving" /\ answer \in [Rid -> Reply \cup {Missing}]
    BY <2>1 DEF Serve, callers, Core, TypeOK
  <2>4. r <= Len(asked)
    BY <2>3 DEF Core, Queue
  <2>5. \A s \in Rid : answer'[s] = IF s = r THEN v ELSE answer[s]
    BY <2>2, <2>3
  <2>6. \A s \in Rid : answer'[s] # Missing =>
          s <= Len(asked) /\ answer'[s] \in Replies(asked[s])
    BY <2>4, <2>5 DEF Replied
  <2> QED BY <2>3, <2>6 DEF Replied, Replies, Replayable, Recorded, IsDirect
<1>2. CASE UNCHANGED answer /\ (asked' = asked \/ \E q : asked' = Append(asked, q))
  <2>1. /\ asked \in Seq(Request) /\ Len(asked) \in Nat
        /\ \A r \in Rid : r \in Nat /\ r >= 1
    BY DEF Core, TypeOK, Rid
  <2>2. \A r \in Rid : r <= Len(asked) => r <= Len(asked') /\ asked'[r] = asked[r]
    <3>1. CASE asked' = asked
      BY <3>1
    <3>2. ASSUME NEW q, asked' = Append(asked, q), NEW r \in Rid, r <= Len(asked)
          PROVE  r <= Len(asked') /\ asked'[r] = asked[r]
      <4>1. q \in Request
        <5>1. asked' \in Seq(Request) /\ asked'[Len(asked')] = q /\ Len(asked') \in 1..Len(asked')
          BY <2>1, <3>2 DEF Core, TypeOK
        <5> QED BY <5>1
      <4> QED BY <2>1, <3>2, <4>1
    <3> QED BY <1>2, <3>1, <3>2
  <2>3. SUFFICES ASSUME NEW r \in Rid, answer[r] # Missing
                 PROVE  r <= Len(asked') /\ answer[r] \in Replies(asked'[r])
    BY <1>2 DEF Replied, Replies, Replayable, Recorded, IsDirect
  <2>4. r <= Len(asked) /\ answer[r] \in Replies(asked[r])
    BY <2>3 DEF Replied
  <2> QED BY <2>2, <2>4
<1>3. CASE ~ \E r \in Rid : Serve(r)
  <2>1. CASE Dispatch \/ HostCrash \/ UNCHANGED vars
    BY <1>2, <2>1 DEF Dispatch, HostCrash, vars, callers, serving
  <2>2. CASE Next /\ ~ Dispatch /\ ~ HostCrash
    <3>1. asked' = asked \/ \E q : asked' = Append(asked, q)
      BY <2>2, Quiet
    <3>2. UNCHANGED answer
      BY <1>3, <2>2 DEF Next, Loop, Over, Reader, Job, CallerStep, Call, Enter, Write, WriteFails,
         Return, ReadReply, Route, ReadEOF, PrintResult, Exit, Timeout, Refuse, ReadResult,
         ReadEnd, GuardEnd, Guard, StartJob, TakeStdin, Send, SendFails, FinishUnheard, Finish,
         Shutdown, vars, serving
    <3> QED BY <1>2, <3>1, <3>2
  <2> QED BY <2>1, <2>2
<1> QED BY <1>1, <1>3

(* On a recorded case a guarded session with the model frozen puts out the *)
(* recorded answer, or none, whatever the code said.                       *)
FrozenShowsTheRecord ==
  ok /\ Frozen /\ MinSupport > 0 =>
    \A k \in Case : Observed[k] # Missing /\ outputs[k] # Missing => outputs[k] = Observed[k]

(* The finding about the frozen control, for every record, every code and  *)
(* every support the guard may ask for: no case that failed before can     *)
(* come out right.                                                         *)
THEOREM FrozenControlIsBlind == Spec => []FrozenShowsTheRecord
<1>1. Init => Replied
  BY DEF Init, Replied
<1>2. ASSUME BridgeAssumption, Core, Replied, GuardSound
      PROVE  FrozenShowsTheRecord
  <2> SUFFICES ASSUME ok, Frozen, MinSupport > 0, NEW k \in Case,
                      Observed[k] # Missing, outputs[k] # Missing,
                      outputs[k] # Observed[k]
               PROVE  FALSE
    BY DEF FrozenShowsTheRecord
  <2>1. Cardinality(Votes(k, outputs[k], answer)) >= MinSupport
    BY <1>2 DEF GuardSound
  <2>2. Votes(k, outputs[k], answer) # {}
    BY <2>1, FS_EmptySet, BridgeAssumption DEF BridgeAssumption
  <2>3. PICK r \in 1..Len(asked) : /\ asked[r].case = k /\ asked[r].sig \in Enhanced
                                   /\ outputs[k] = answer[r]
    BY <2>2 DEF Votes, Match
  <2>4. r \in Rid /\ outputs[k] \in Answer
    BY <1>2 DEF Core, TypeOK, Outs, Rid, BridgeAssumption
  <2>5. answer[r] \in Replies(asked[r])
    BY <1>2, <2>3, <2>4 DEF Replied
  <2>6. asked[r].sig # "attend" /\ answer[r] # NoOutput
    BY <1>2, <2>3, <2>4 DEF BridgeAssumption
  <2>7. answer[r] = Recorded(asked[r])
    BY <2>5, <2>6, BridgeAssumption DEF Replies, BridgeAssumption
  <2> QED BY <2>3, <2>7 DEF Recorded
<1>3. BridgeAssumption /\ Core /\ Core' /\ Replied /\ [Next]_vars => Replied'
  BY NextReplied
<1> QED BY <1>1, <1>2, <1>3, CoreInvariance, AnswersAreSound, BridgeAssumption, PTL DEF Spec
=============================================================================
