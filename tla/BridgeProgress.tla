--------------------------- MODULE BridgeProgress ---------------------------
(***************************************************************************)
(* The safety half of CallsReturn: while the subprocess lives and a caller *)
(* waits in _bridge_call, some thread can go on -- without the watchdog,   *)
(* without the code calling again, printing or ending -- unless the host   *)
(* serves inline and both a request and a reply outgrow the pipes.         *)
(*                                                                         *)
(* ENABLED is out of the provers' reach, so that a thread can go on is     *)
(* stated as the guards of the actions Fairness names.                     *)
(*                                                                         *)
(* And no thread can go on for ever: on a live bridge every step of one    *)
(* takes a call past a milestone, of which there are ten for each request. *)
(* The same two halves of SessionEnds follow, for a subprocess that ended. *)
(***************************************************************************)
EXTENDS BridgeProofs

(* The guards of CallerStep, Reader, Loop and Job on a live subprocess.    *)
CallerCan(c) ==
  \/ at[c] = "enter" /\ lock = "free"
  \/ at[c] = "write" /\ host = "dead"
  \/ at[c] = "write" /\ host # "dead" /\ Reads(host = "read", toHost, CallOf(c) \in BigRequest)
  \/ at[c] = "wait" /\ slot[rid[c]] # Missing /\ lock = "free"
ReaderCan ==
  \/ reader = "reading" /\ toSandbox # <<>>
  \/ reader = "reading" /\ host = "dead" /\ lock = "free"
  \/ reader = "routing" /\ lock = "free"
LoopCan == host = "read" /\ toHost # <<>>
JobCan(r) ==
  \/ job[r] = "queued" /\ Cardinality(Busy) < Workers
  \/ job[r] = "serving"
  \/ job[r] = "answered" /\ \A s \in Rid : job[s] # "sending"
  \/ job[r] = "sending" /\ Reads(reader = "reading", toSandbox, asked[r] \in BigReply)

SomeoneCan == \/ \E c \in Caller : CallerCan(c)
              \/ ReaderCan
              \/ host # "dead" /\ (LoopCan \/ \E r \in Rid : JobCan(r))

(* No open call is stuck: some thread can go on.                           *)
NeverStuck == alive /\ (\E c \in Caller : at[c] # "idle") => SomeoneCan

-----------------------------------------------------------------------------
(* Where an open call can be.                                              *)
Active    == {"queued", "serving", "answered", "sending"}
In(x, s)  == \E i \in 1..Len(s) : s[i] = x

(* A caller holds the lock only while it writes.                           *)
LockHeld == lock \in Caller => at[lock] = "write"

(* The host of a live subprocess reads, serves inline, or has crashed.     *)
HostUp == /\ host \in {"read", "serve", "dead"}
          /\ host = "serve" => Workers = 1 /\ \E r \in Rid : job[r] \in Active

(* The reader thread is there for whoever waits.                           *)
Registered == \A c \in Caller : at[c] \in {"write", "wait"} => rid[c] \in table
ReaderUp ==
  /\ reader = "none" =>
       /\ \A c \in Caller : at[c] \in {"idle", "enter"}
       /\ \A r \in Rid : job[r] = "none" /\ ~ In(r, toHost)
  /\ reader = "ended" =>
       host = "dead" /\ \A c \in Caller : at[c] = "wait" => slot[rid[c]] # Missing

(* Every reply on its way is an answer.                                    *)
Answered ==
  /\ \A r \in Rid : job[r] \in {"answered", "sending"} \/ In(r, toSandbox) => answer[r] # Missing
  /\ reader = "routing" => answer[inHand] # Missing

(* A request whose reply is not yet in its slot is somewhere.              *)
OnItsWay(r) == \/ In(r, toHost) \/ job[r] \in Active
               \/ In(r, toSandbox) \/ (reader = "routing" /\ inHand = r)
NotLost == host # "dead" =>
  \A c \in Caller : at[c] = "wait" /\ slot[rid[c]] = Missing => OnItsWay(rid[c])

Whereabouts ==
  alive => LockHeld /\ HostUp /\ Registered /\ ReaderUp /\ Answered /\ NotLost

(* The bridge's shapes without a cycle of waiting: a pool, or messages one *)
(* of whose directions fits the pipe.                                      *)
NoWaitCycle == \/ Workers > 1
               \/ Request \cap BigRequest = {}
               \/ Request \cap BigReply = {}
-----------------------------------------------------------------------------
(* Where everything is decides that somebody can go on.                    *)
LEMMA SomeoneGoesOn ==
  ASSUME BridgeAssumption, Core, Whereabouts, NoWaitCycle
  PROVE  NeverStuck
<1> SUFFICES ASSUME alive, NEW c \in Caller, at[c] # "idle", ~ SomeoneCan
             PROVE  FALSE
  BY DEF NeverStuck
<1>0. /\ at \in [Caller -> {"idle", "enter", "write", "wait"}] /\ rid \in [Caller -> Rid]
      /\ lock \in {"free"} \cup Caller /\ reader \in {"none", "reading", "routing", "ended"}
      /\ job \in [Rid -> {"none", "queued", "serving", "answered", "sending", "done", "cancelled"}]
      /\ toHost \in Seq(0..MaxRid) /\ toSandbox \in Seq(Rid)
      /\ asked \in Seq(Request) /\ Len(asked) \in Nat
      /\ Workers \in Nat \ {0} /\ "free" \notin Caller
      /\ \A r \in Rid : r \in Nat /\ r >= 1
  BY DEF Core, TypeOK, BridgeAssumption, Rid
<1>1. /\ LockHeld /\ HostUp /\ Registered /\ ReaderUp /\ Answered /\ NotLost
  BY DEF Whereabouts
<1>2. /\ \A d \in Caller : ~ CallerCan(d)
      /\ ~ ReaderCan
      /\ host # "dead" => ~ LoopCan /\ \A r \in Rid : ~ JobCan(r)
  BY DEF SomeoneCan
(* Nobody can write, so a held lock is held by a big request that the host *)
(* does not read.                                                          *)
<1>3. ASSUME lock # "free"
      PROVE  /\ host = "serve" /\ Workers = 1
             /\ Request \cap BigRequest # {}
  <2>1. PICK d \in Caller : lock = d /\ at[d] = "write"
    BY <1>0, <1>1, <1>3 DEF LockHeld
  <2>2. host # "dead" /\ ~ Reads(host = "read", toHost, CallOf(d) \in BigRequest)
    BY <1>2, <2>1 DEF CallerCan
  <2>3. CallOf(d) \in BigRequest /\ ~ (host = "read" /\ toHost = <<>>)
    BY <2>2 DEF Reads
  <2>4. host = "serve" /\ Workers = 1
    BY <1>1, <1>2, <2>2, <2>3 DEF HostUp, LoopCan
  <2>5. CallOf(d) \in Request
    <3>1. rid[d] \in Rid /\ rid[d] <= Len(asked)
      BY <1>0, <2>1 DEF Core, Ids
    <3>2. rid[d] \in 1..Len(asked)
      BY <1>0, <3>1
    <3> QED BY <1>0, <3>2 DEF CallOf
  <2> QED BY <2>3, <2>4, <2>5
(* No job is in service: the one that should go on waits for the reader,   *)
(* the reader for the lock, and the lock's holder for the host.            *)
<1>4. ASSUME host # "dead", NEW r \in Rid, job[r] \in Active
      PROVE  FALSE
  <2>1. PICK s \in Rid : job[s] = "sending"
    <3>1. job[r] \notin {"serving", "answered"} \/ \E s \in Rid : job[s] = "sending"
      BY <1>2, <1>4 DEF JobCan
    <3>2. ASSUME job[r] = "queued" PROVE \E s \in Rid : job[s] = "sending"
      <4>1. ~ (Cardinality(Busy) < Workers)
        BY <1>2, <1>4, <3>2 DEF JobCan
      <4>2. Busy # {}
        <5>1. Busy = {} => Cardinality(Busy) = 0
          BY FS_EmptySet
        <5> QED BY <1>0, <4>1, <5>1
      <4>3. PICK s \in Rid : job[s] \in {"serving", "answered", "sending"}
        BY <4>2 DEF Busy
      <4> QED BY <1>2, <1>4, <4>3 DEF JobCan
    <3> QED BY <1>4, <3>1, <3>2 DEF Active
  <2>2. asked[s] \in BigReply /\ ~ (reader = "reading" /\ toSandbox = <<>>)
    BY <1>2, <1>4, <2>1 DEF JobCan, Reads
  <2>3. reader = "routing"
    BY <1>0, <1>1, <1>2, <1>4, <2>1, <2>2 DEF ReaderUp, ReaderCan
  <2>4. lock # "free"
    BY <1>2, <2>3 DEF ReaderCan
  <2>5. Workers = 1 /\ Request \cap BigRequest # {}
    BY <1>3, <2>4
  <2>6. asked[s] \in Request
    <3>1. s <= Len(asked)
      BY <2>1 DEF Core, Queue
    <3>2. s \in 1..Len(asked)
      BY <1>0, <3>1
    <3> QED BY <1>0, <3>2
  <2> QED BY <2>2, <2>5, <2>6 DEF NoWaitCycle
<1>5. lock = "free"
  BY <1>1, <1>3, <1>4 DEF HostUp
<1>6. at[c] = "wait" /\ slot[rid[c]] = Missing
  <2>1. at[c] # "write"
    <3>1. ASSUME at[c] = "write" PROVE FALSE
      <4>1. host # "dead" /\ CallOf(c) \in BigRequest /\ ~ (host = "read" /\ toHost = <<>>)
        BY <1>2, <3>1 DEF CallerCan, Reads
      <4>2. host = "serve"
        BY <1>1, <1>2, <4>1 DEF HostUp, LoopCan
      <4> QED BY <1>1, <1>4, <4>2 DEF HostUp
    <3> QED BY <3>1
  <2> QED BY <1>0, <1>2, <1>5, <2>1 DEF CallerCan
<1>7. CASE host = "dead"
  BY <1>0, <1>1, <1>2, <1>5, <1>6, <1>7 DEF ReaderUp, ReaderCan
<1>8. CASE host # "dead"
  <2>1. host = "read"
    BY <1>1, <1>4, <1>8 DEF HostUp
  <2>2. toHost = <<>>
    BY <1>2, <1>8, <2>1 DEF LoopCan
  <2>3. rid[c] \in Rid /\ job[rid[c]] \notin Active
    BY <1>0, <1>4, <1>8
  <2>4. In(rid[c], toSandbox) \/ reader = "routing"
    BY <1>1, <1>6, <1>8, <2>2, <2>3 DEF NotLost, OnItsWay, In
  <2>5. toSandbox # <<>> \/ reader = "routing"
    BY <2>4 DEF In
  <2>6. reader \notin {"none", "ended"}
    BY <1>1, <1>6, <1>8 DEF ReaderUp
  <2> QED BY <1>0, <1>2, <1>5, <2>5, <2>6 DEF ReaderCan
<1> QED BY <1>7, <1>8
-----------------------------------------------------------------------------
(* What is in a pipe after a write is what was, and what was written.      *)
LEMMA Written ==
  ASSUME NEW S, NEW s \in Seq(S), NEW y \in S, NEW x
  PROVE  In(x, Append(s, y)) <=> In(x, s) \/ x = y
<1>1. /\ Len(s) \in Nat /\ Len(Append(s, y)) = Len(s) + 1
      /\ Append(s, y)[Len(s) + 1] = y
      /\ \A i \in 1..Len(s) : Append(s, y)[i] = s[i]
  OBVIOUS
<1>2. ASSUME In(x, Append(s, y)) PROVE In(x, s) \/ x = y
  <2>1. PICK i \in 1..Len(s) + 1 : Append(s, y)[i] = x
    BY <1>1, <1>2 DEF In
  <2>2. i \in 1..Len(s) \/ i = Len(s) + 1
    BY <1>1, <2>1
  <2> QED BY <1>1, <2>1, <2>2 DEF In
<1>3. ASSUME In(x, s) PROVE In(x, Append(s, y))
  <2>1. PICK i \in 1..Len(s) : s[i] = x
    BY <1>3 DEF In
  <2>2. i \in 1..Len(Append(s, y)) /\ Append(s, y)[i] = x
    BY <1>1, <2>1
  <2> QED BY <2>2 DEF In
<1>4. ASSUME x = y PROVE In(x, Append(s, y))
  <2>1. Len(s) + 1 \in 1..Len(Append(s, y)) /\ Append(s, y)[Len(s) + 1] = x
    BY <1>1, <1>4
  <2> QED BY <2>1 DEF In
<1> QED BY <1>2, <1>3, <1>4

(* What is in a pipe is its head and what is left after a read.            *)
LEMMA Read ==
  ASSUME NEW S, NEW s \in Seq(S), s # <<>>, NEW x
  PROVE  In(x, s) <=> In(x, Tail(s)) \/ x = Head(s)
<1>1. /\ Len(s) \in Nat /\ Len(s) >= 1 /\ Len(Tail(s)) = Len(s) - 1 /\ Head(s) = s[1]
      /\ \A i \in 1..Len(s) - 1 : Tail(s)[i] = s[i + 1]
  OBVIOUS
<1>2. ASSUME In(x, s) PROVE In(x, Tail(s)) \/ x = Head(s)
  <2>1. PICK i \in 1..Len(s) : s[i] = x
    BY <1>2 DEF In
  <2>2. i = 1 \/ (i - 1 \in 1..Len(s) - 1 /\ (i - 1) + 1 = i)
    BY <1>1, <2>1
  <2>3. i = 1 \/ (i - 1 \in 1..Len(Tail(s)) /\ Tail(s)[i - 1] = x)
    BY <1>1, <2>1, <2>2
  <2> QED BY <1>1, <2>1, <2>3 DEF In
<1>3. ASSUME In(x, Tail(s)) PROVE In(x, s)
  <2>1. PICK i \in 1..Len(s) - 1 : Tail(s)[i] = x
    BY <1>1, <1>3 DEF In
  <2>2. i + 1 \in 1..Len(s) /\ s[i + 1] = x
    BY <1>1, <2>1
  <2> QED BY <2>2 DEF In
<1>4. ASSUME x = Head(s) PROVE In(x, s)
  <2>1. 1 \in 1..Len(s) /\ s[1] = x
    BY <1>1, <1>4
  <2> QED BY <2>1 DEF In
<1> QED BY <1>2, <1>3, <1>4

(* What the types say of the state, for the steps below.                   *)
Typed ==
  /\ at \in [Caller -> {"idle", "enter", "write", "wait"}] /\ rid \in [Caller -> Rid]
  /\ lock \in {"free"} \cup Caller /\ "free" \notin Caller
  /\ job \in [Rid -> {"none", "queued", "serving", "answered", "sending", "done", "cancelled"}]
  /\ slot \in [Rid -> Reply \cup {Closed, Missing}]
  /\ answer \in [Rid -> Reply \cup {Missing}]
  /\ toHost \in Seq(0..MaxRid) /\ toSandbox \in Seq(Rid) /\ inHand \in Rid
  /\ Workers \in Nat \ {0} /\ Missing \notin Reply /\ Missing # Closed
  /\ \A r \in Rid : r # 0 /\ r \in 0..MaxRid
  /\ \A c, d \in Caller : c # d /\ at[c] # "idle" /\ at[d] # "idle" => rid[c] # rid[d]

(* The invariant of BridgeProofs says as much.                             *)
LEMMA CoreIsTyped == BridgeAssumption /\ Core => Typed
  BY DEF Typed, Core, TypeOK, Ids, BridgeAssumption, Rid, Reply

(* The conjuncts of Whereabouts on a live subprocess.                      *)
Located == LockHeld /\ HostUp /\ Registered /\ ReaderUp /\ Answered /\ NotLost

(* Nothing is lost where nobody begins to wait and nothing moves.          *)
LEMMA QuietWays ==
  ASSUME NotLost, UNCHANGED <<inHand, toSandbox, toHost, job, host, slot>>,
         reader = "routing" => reader' = "routing",
         \A d \in Caller : at'[d] = "wait" => at[d] = "wait" /\ rid'[d] = rid[d]
  PROVE  NotLost'
<1> SUFFICES ASSUME host # "dead", NEW d \in Caller, at'[d] = "wait", slot[rid[d]] = Missing,
                    rid'[d] = rid[d]
             PROVE  OnItsWay(rid[d])'
  BY DEF NotLost
<1>1. OnItsWay(rid[d])
  BY DEF NotLost
<1> QED BY <1>1 DEF OnItsWay, In

(* The steps of a caller.                                                  *)
LEMMA CallerLocated ==
  ASSUME Typed, Located, NEW c \in Caller, Call(c) \/ CallerStep(c)
  PROVE  Located'
<1> USE DEF Typed
<1>0. UNCHANGED <<inHand, toSandbox, job, answer, host>>
  BY DEF Call, CallerStep, Enter, Write, WriteFails, Return, reading, serving, session
<1>a. HostUp' /\ (reader' = "routing" => reader = "routing") => Answered' /\ HostUp'
  BY <1>0 DEF Located, HostUp, Answered, In
<1>b. HostUp'
  BY <1>0 DEF Located, HostUp
<1>1. CASE Call(c)
  <2>1. /\ at[c] = "idle" /\ at' = [at EXCEPT ![c] = "enter"]
        /\ \A d \in Caller : d # c => rid'[d] = rid[d] /\ at'[d] = at[d]
        /\ UNCHANGED <<lock, table, slot, reader, toHost>>
    BY <1>1 DEF Call, reading
  <2>2. at'[c] = "enter"
    BY <2>1
  <2>3. LockHeld' /\ Registered'
    BY <2>1, <2>2 DEF Located, LockHeld, Registered
  <2>4. ReaderUp'
    BY <1>0, <2>1, <2>2 DEF Located, ReaderUp, In
  <2>5. NotLost'
    BY <1>0, <2>1, <2>2, QuietWays DEF Located
  <2> QED BY <1>a, <1>b, <2>1, <2>3, <2>4, <2>5 DEF Located
<1>2. CASE Enter(c)
  <2>1. /\ at[c] = "enter" /\ lock' = c /\ at'[c] = "write" /\ table' = table \cup {rid[c]}
        /\ \A d \in Caller : d # c => at'[d] = at[d]
        /\ reader' = IF reader = "none" THEN "reading" ELSE reader
        /\ UNCHANGED <<rid, slot, toHost>>
    BY <1>2 DEF Enter
  <2>2. LockHeld' /\ Registered'
    BY <2>1 DEF Located, LockHeld, Registered
  <2>3. ReaderUp'
    BY <1>0, <2>1 DEF Located, ReaderUp
  <2>4. NotLost'
    BY <1>0, <2>1, QuietWays DEF Located
  <2> QED BY <1>a, <1>b, <2>1, <2>2, <2>3, <2>4 DEF Located
<1>3. CASE Write(c)
  <2>1. /\ at[c] = "write" /\ host # "dead" /\ lock' = "free" /\ at'[c] = "wait"
        /\ toHost' = Append(toHost, rid[c])
        /\ \A d \in Caller : d # c => at'[d] = at[d]
        /\ UNCHANGED <<rid, slot, table, reader>>
    BY <1>3 DEF Write, reading
  <2>2. \A r : In(r, toHost') <=> In(r, toHost) \/ r = rid[c]
    <3>1. rid[c] \in 0..MaxRid /\ toHost \in Seq(0..MaxRid)
      OBVIOUS
    <3>2. \A r : In(r, Append(toHost, rid[c])) <=> In(r, toHost) \/ r = rid[c]
      BY ONLY <3>1, Written
    <3> QED BY <2>1, <3>2, Zenon
  <2>3. LockHeld' /\ Registered'
    BY <2>1 DEF Located, LockHeld, Registered
  <2>4. reader \notin {"none", "ended"}
    BY <2>1 DEF Located, ReaderUp
  <2>5. ReaderUp'
    BY <2>1, <2>4 DEF ReaderUp
  <2>6. NotLost'
    <3> SUFFICES ASSUME NEW d \in Caller, at'[d] = "wait", slot'[rid'[d]] = Missing
                 PROVE  OnItsWay(rid[d])'
      BY <2>1 DEF NotLost
    <3>1. CASE d = c
      BY <2>1, <2>2, <3>1 DEF OnItsWay
    <3>2. CASE d # c
      <4>1. OnItsWay(rid[d])
        BY <2>1, <3>2 DEF Located, NotLost
      <4> QED BY <1>0, <2>1, <2>2, <4>1 DEF OnItsWay
    <3> QED BY <3>1, <3>2
  <2> QED BY <1>a, <1>b, <2>1, <2>3, <2>5, <2>6 DEF Located
<1>4. CASE WriteFails(c) \/ Return(c)
  <2>1. /\ lock' = "free" /\ at[c] # "enter" /\ at'[c] = "idle"
        /\ \A d \in Caller : d # c => at'[d] = at[d]
        /\ table \ {rid[c]} \subseteq table'
        /\ UNCHANGED <<rid, slot, reader, toHost>>
    BY <1>4 DEF WriteFails, Return, reading
  <2>2. at[c] # "idle"
    BY <1>4 DEF WriteFails, Return
  <2>3. LockHeld'
    BY <2>1 DEF LockHeld
  <2>4. Registered'
    BY <2>1, <2>2 DEF Located, Registered
  <2>5. ReaderUp'
    BY <1>0, <2>1 DEF Located, ReaderUp, In
  <2>6. NotLost'
    BY <1>0, <2>1, QuietWays DEF Located
  <2> QED BY <1>a, <1>b, <2>1, <2>3, <2>4, <2>5, <2>6 DEF Located
<1> QED BY <1>1, <1>2, <1>3, <1>4 DEF CallerStep

(* The steps of the reader thread.                                         *)
LEMMA ReaderLocated ==
  ASSUME Typed, Located, Reader
  PROVE  Located'
<1> USE DEF Typed
<1>0. UNCHANGED <<at, rid, lock, toHost, table, job, answer, host>>
  BY DEF Reader, ReadReply, Route, ReadEOF, callers, serving, session
<1>1. LockHeld' /\ HostUp' /\ Registered'
  BY <1>0 DEF Located, LockHeld, HostUp, Registered
<1>2. CASE ReadReply
  <2>1. /\ reader = "reading" /\ reader' = "routing" /\ inHand' = Head(toSandbox)
        /\ toSandbox' = Tail(toSandbox) /\ slot' = slot /\ toSandbox # <<>>
    BY <1>2 DEF ReadReply
  <2>2. \A r : In(r, toSandbox) <=> In(r, toSandbox') \/ r = inHand'
    BY <2>1, Read
  <2>3. inHand' \in Rid
    BY <2>1
  <2>4. Answered' /\ ReaderUp'
    BY <1>0, <2>1, <2>2, <2>3 DEF Located, Answered, ReaderUp
  <2>5. NotLost'
    <3> SUFFICES ASSUME NEW c \in Caller, OnItsWay(rid[c]) PROVE OnItsWay(rid[c])'
      BY <1>0, <2>1 DEF Located, NotLost
    <3> QED BY <1>0, <2>1, <2>2 DEF OnItsWay
  <2> QED BY <1>1, <2>4, <2>5 DEF Located
<1>3. CASE Route
  <2>1. /\ reader = "routing" /\ reader' = "reading" /\ UNCHANGED <<inHand, toSandbox>>
        /\ slot' = [r \in Rid |-> IF r \in Slot(inHand) THEN answer[inHand] ELSE slot[r]]
    BY <1>3 DEF Route
  <2>2. Answered' /\ ReaderUp'
    BY <1>0, <2>1 DEF Located, Answered, ReaderUp, In
  <2>3. NotLost'
    <3> SUFFICES ASSUME host # "dead", NEW c \in Caller, at[c] = "wait", slot'[rid[c]] = Missing
                 PROVE  OnItsWay(rid[c])'
      BY <1>0 DEF NotLost
    <3>1. rid[c] \in table /\ answer[inHand] # Missing
      BY <2>1 DEF Located, Registered, Answered
    <3>2. rid[c] # inHand
      BY <2>1, <3>1 DEF Slot
    <3>3. slot[rid[c]] = Missing
      BY <2>1, <3>2 DEF Slot
    <3>4. OnItsWay(rid[c])
      BY <3>3 DEF Located, NotLost
    <3> QED BY <1>0, <2>1, <3>2, <3>4 DEF OnItsWay, In
  <2> QED BY <1>1, <2>2, <2>3 DEF Located
<1>4. CASE ReadEOF
  <2>1. /\ reader = "reading" /\ reader' = "ended" /\ host = "dead"
        /\ UNCHANGED <<inHand, toSandbox>>
        /\ slot' = [r \in Rid |-> IF r \in table THEN Closed ELSE slot[r]]
    BY <1>4 DEF ReadEOF
  <2>2. Answered' /\ NotLost'
    BY <1>0, <2>1 DEF Located, Answered, NotLost, In
  <2>3. ReaderUp'
    <3> SUFFICES ASSUME NEW c \in Caller, at[c] = "wait" PROVE slot'[rid[c]] # Missing
      BY <1>0, <2>1 DEF ReaderUp
    <3>1. rid[c] \in table
      BY DEF Located, Registered
    <3> QED BY <2>1, <3>1
  <2> QED BY <1>1, <2>2, <2>3 DEF Located
<1> QED BY <1>2, <1>3, <1>4 DEF Reader

(* The steps of the host's loop that leave the subprocess alive, and its   *)
(* crash; the code's result line.                                          *)
LEMMA HostLocated ==
  ASSUME Typed, Located, Queue, Dispatch \/ ReadResult \/ HostCrash \/ PrintResult
  PROVE  Located'
<1> USE DEF Typed
<1>0. UNCHANGED <<at, rid, lock, table, slot, reader, inHand, toSandbox, answer>>
  BY DEF Dispatch, ReadResult, HostCrash, PrintResult, callers, reading, serving
<1>1. LockHeld' /\ Registered'
  BY <1>0 DEF Located, LockHeld, Registered
<1>2. CASE Dispatch
  <2> DEFINE h == Head(toHost)
  <2>1. /\ host = "read" /\ h # 0 /\ toHost # <<>> /\ toHost' = Tail(toHost)
        /\ job' = [job EXCEPT ![h] = "queued"]
        /\ host' = IF Workers > 1 THEN "read" ELSE "serve"
    BY <1>2 DEF Dispatch
  <2>2. \A r : In(r, toHost) <=> In(r, toHost') \/ r = h
    BY <2>1, Read
  <2>3. h \in Rid
    <3>1. PipeType
      BY DEF PipeType
    <3> QED BY <2>1, <3>1, BridgeAssumption, HeadAndTail
  <2> HIDE DEF h
  <2>4. job'[h] = "queued" /\ \A r \in Rid : r # h => job'[r] = job[r]
    BY <2>1, <2>3
  <2>5. Workers > 1 \/ Workers = 1
    OBVIOUS
  <2>6. HostUp'
    BY <2>1, <2>3, <2>4, <2>5 DEF HostUp, Active
  <2>7. reader \notin {"none", "ended"}
    BY <2>1, <2>2, <2>3 DEF Located, ReaderUp
  <2>8. ReaderUp'
    BY <1>0, <2>7 DEF ReaderUp
  <2>9. Answered'
    BY <1>0, <2>4 DEF Located, Answered, In
  <2>10. NotLost'
    <3> SUFFICES ASSUME NEW c \in Caller, OnItsWay(rid[c]) PROVE OnItsWay(rid[c])'
      BY <1>0, <2>1 DEF Located, NotLost
    <3>1. rid[c] \in Rid
      OBVIOUS
    <3>2. CASE rid[c] = h
      BY <1>0, <2>4, <3>2 DEF OnItsWay, Active
    <3>3. CASE rid[c] # h
      BY <1>0, <2>2, <2>4, <3>1, <3>3 DEF OnItsWay, In
    <3> QED BY <3>2, <3>3
  <2> QED BY <1>1, <2>6, <2>8, <2>9, <2>10 DEF Located
<1>3. CASE ReadResult \/ PrintResult
  <2>1. UNCHANGED <<host, job>>
    BY <1>3 DEF ReadResult, PrintResult, serving, session
  <2>2. \A r \in Rid : In(r, toHost') <=> In(r, toHost)
    <3>1. CASE ReadResult
      <4>1. toHost # <<>> /\ Head(toHost) = 0 /\ toHost' = Tail(toHost)
        BY <3>1 DEF ReadResult
      <4>2. \A r : In(r, toHost) <=> In(r, toHost') \/ r = 0
        BY <4>1, Read
      <4> QED BY <4>2
    <3>2. CASE PrintResult
      <4>1. toHost' = Append(toHost, 0) /\ 0 \in 0..MaxRid
        BY <3>2, BridgeAssumption DEF PrintResult, BridgeAssumption
      <4>2. \A r : In(r, toHost') <=> In(r, toHost) \/ r = 0
        BY <4>1, Written
      <4> QED BY <4>2
    <3> QED BY <1>3, <3>1, <3>2
  <2>3. HostUp' /\ ReaderUp' /\ Answered'
    BY <1>0, <2>1, <2>2 DEF Located, HostUp, ReaderUp, Answered, In
  <2>4. NotLost'
    <3> SUFFICES ASSUME NEW c \in Caller, OnItsWay(rid[c]) PROVE OnItsWay(rid[c])'
      BY <1>0, <2>1 DEF Located, NotLost
    <3> QED BY <1>0, <2>1, <2>2 DEF OnItsWay, In
  <2> QED BY <1>1, <2>3, <2>4 DEF Located
<1>4. CASE HostCrash
  <2>1. /\ host # "dead" /\ host' = "dead" /\ toHost' = <<>>
        /\ job' = [r \in Rid |-> "none"]
    BY <1>4 DEF HostCrash
  <2>2. HostUp' /\ NotLost'
    BY <2>1 DEF HostUp, NotLost
  <2>3. ReaderUp' /\ Answered'
    BY <1>0, <2>1 DEF Located, ReaderUp, Answered, In
  <2> QED BY <1>1, <2>2, <2>3 DEF Located
<1> QED BY <1>2, <1>3, <1>4

(* The steps of a job.                                                     *)
LEMMA JobLocated ==
  ASSUME BridgeAssumption, Typed, Located, Core, NEW r \in Rid, Job(r), alive
  PROVE  Located'
<1> USE DEF Typed
<1>0. UNCHANGED <<at, rid, lock, table, slot, reader, inHand, toHost>> /\ host # "dead"
  BY DEF Job, StartJob, Serve, TakeStdin, Send, SendFails, callers, reading
<1>1. LockHeld' /\ Registered'
  BY <1>0 DEF Located, LockHeld, Registered
<1>2. job[r] \in Active /\ \A s \in Rid : s # r => job'[s] = job[s]
  BY DEF Job, StartJob, Serve, TakeStdin, Send, SendFails, Active
<1>3. reader \notin {"none", "ended"}
  BY <1>0, <1>2 DEF Located, ReaderUp, Active
<1>4. ReaderUp'
  BY <1>0, <1>3 DEF ReaderUp
<1>5. CASE StartJob(r) \/ Serve(r) \/ TakeStdin(r)
  <2>1. job'[r] \in Active /\ UNCHANGED <<host, toSandbox>>
    BY <1>5 DEF StartJob, Serve, TakeStdin, Active, session
  <2>2. /\ \A s \in Rid : answer[s] # Missing => answer'[s] # Missing
        /\ job'[r] \in {"answered", "sending"} => answer'[r] # Missing
    <3>1. CASE StartJob(r) \/ TakeStdin(r)
      BY <3>1 DEF StartJob, TakeStdin, Located, Answered
    <3>2. CASE Serve(r)
      <4>1. PICK v \in Replies(asked[r]) : answer' = [answer EXCEPT ![r] = v]
        BY <3>2 DEF Serve
      <4>2. asked[r] \in Request
        <5>1. r <= Len(asked) /\ r \in 1..MaxRid /\ MaxRid \in Nat /\ asked \in Seq(Request)
          BY <1>2 DEF Core, Queue, TypeOK, Rid, Active, BridgeAssumption
        <5> QED BY <5>1
      <4>3. v # Missing
        BY <4>2, RepliesAreReplies
      <4> QED BY <4>1, <4>3
    <3> QED BY <1>5, <3>1, <3>2
  <2>3. HostUp'
    BY <1>2, <2>1 DEF Located, HostUp
  <2>4. Answered'
    BY <1>0, <1>2, <2>1, <2>2 DEF Located, Answered, In
  <2>5. NotLost'
    <3> SUFFICES ASSUME NEW c \in Caller, OnItsWay(rid[c]) PROVE OnItsWay(rid[c])'
      BY <1>0, <2>1 DEF Located, NotLost
    <3>1. job[rid[c]] \in Active => job'[rid[c]] \in Active
      BY <1>2, <2>1
    <3> QED BY <1>0, <2>1, <3>1 DEF OnItsWay, In
  <2> QED BY <1>1, <1>4, <2>3, <2>4, <2>5 DEF Located
<1>6. CASE Send(r)
  <2>1. /\ job[r] = "sending" /\ job'[r] = "done" /\ answer' = answer
        /\ toSandbox' = Append(toSandbox, r)
        /\ host' = IF host = "serve" THEN "read" ELSE host
    BY <1>6 DEF Send
  <2>2. \A s : In(s, toSandbox') <=> In(s, toSandbox) \/ s = r
    BY <2>1, Written
  <2>3. HostUp'
    BY <2>1 DEF Located, HostUp
  <2>4. Answered'
    BY <1>0, <1>2, <2>1, <2>2 DEF Located, Answered
  <2>5. NotLost'
    <3> SUFFICES ASSUME NEW c \in Caller, OnItsWay(rid[c]) PROVE OnItsWay(rid[c])'
      BY <1>0, <2>1 DEF Located, NotLost
    <3> QED BY <1>0, <1>2, <2>1, <2>2 DEF OnItsWay, In
  <2> QED BY <1>1, <1>4, <2>3, <2>4, <2>5 DEF Located
<1> QED BY <1>5, <1>6 DEF Job, SendFails

(* Every step keeps the whereabouts.                                       *)
LEMMA NextWhereabouts ==
  ASSUME BridgeAssumption, Core, Whereabouts, [Next]_vars
  PROVE  Whereabouts'
<1> SUFFICES ASSUME alive' PROVE Located'
  BY DEF Whereabouts, Located
<1>1. alive
  BY DEF Next, Loop, Over, Reader, Job, CallerStep, Call, Enter, Write, WriteFails,
     Return, ReadReply, Route, ReadEOF, PrintResult, Exit, Timeout, Refuse, Dispatch, ReadResult,
     ReadEnd, GuardEnd, Guard, StartJob, Serve, TakeStdin, Send, SendFails, FinishUnheard, Finish,
     Shutdown, HostCrash, Dies, vars
<1>2. Typed /\ Located /\ Queue
  BY <1>1, CoreIsTyped DEF Whereabouts, Located, Core
<1>3. CASE UNCHANGED vars
  BY <1>2, <1>3 DEF vars, callers, reading, serving, session, Located, LockHeld, HostUp,
     Registered, ReaderUp, Answered, NotLost, OnItsWay, In
<1>4. CASE \E c \in Caller : Call(c) \/ CallerStep(c)
  BY <1>2, <1>4, CallerLocated
<1>5. CASE Reader
  BY <1>2, <1>5, ReaderLocated
<1>6. CASE Dispatch \/ ReadResult \/ HostCrash \/ PrintResult
  BY <1>2, <1>6, HostLocated
<1>7. CASE \E r \in Rid : Job(r)
  BY <1>1, <1>2, <1>7, JobLocated
<1>8. ~ Exit /\ ~ Timeout /\ ~ Refuse
  BY DEF Exit, Timeout, Refuse, Dies
<1>9. ~ ReadEnd /\ ~ FinishUnheard /\ (\A o \in Outs : ~ Finish(o)) /\ ~ GuardEnd
      /\ \A k \in Case : ~ Guard(k)
  BY <1>1, <1>2 DEF ReadEnd, FinishUnheard, Finish, Shutdown, GuardEnd, Guard, Located, HostUp
<1> QED
  BY <1>3, <1>4, <1>5, <1>6, <1>7, <1>8, <1>9 DEF Next, Loop, Over

(* For any number of callers, requests and workers, with a pool or with    *)
(* pipes that hold what one side sends: no open call on a live bridge is   *)
(* ever stuck, whatever the threads' order and whenever the host crashes.  *)
THEOREM NoOpenCallIsStuck ==
  ASSUME NoWaitCycle PROVE Spec => []NeverStuck
<1>1. Init => Whereabouts
  BY BridgeAssumption DEF Init, BridgeAssumption, Whereabouts, LockHeld, HostUp, Registered,
     ReaderUp, Answered, NotLost, In
<1>2. BridgeAssumption /\ Core /\ Whereabouts /\ [Next]_vars => Whereabouts'
  BY NextWhereabouts
<1>3. BridgeAssumption /\ Core /\ Whereabouts => NeverStuck
  BY SomeoneGoesOn
<1> QED BY <1>1, <1>2, <1>3, CoreInvariance, BridgeAssumption, PTL DEF Spec
-----------------------------------------------------------------------------
(* After the subprocess's end.  The guards of Loop and Job then: a host    *)
(* that reads has a line or the end of input to read, one that closes or   *)
(* guards needs nobody, a reply can no longer be sent and fails.           *)
SessionCan ==
  \/ host \in {"read", "closing", "guard"}
  \/ \E r \in Rid : \/ JobCan(r)
                    \/ job[r] = "sending"

(* No session whose subprocess is gone is stuck before its end.            *)
NeverLeftOpen == ~ alive /\ host \notin {"done", "dead"} => SessionCan

(* A host that serves inline has a job to serve.                           *)
Serving == host = "serve" => \E r \in Rid : job[r] \in Active

(* Every step keeps the job of an inline host.                             *)
LEMMA NextServing ==
  ASSUME BridgeAssumption, Core, Serving, [Next]_vars
  PROVE  Serving'
<1>0. job \in [Rid -> {"none", "queued", "serving", "answered", "sending", "done", "cancelled"}]
  BY DEF Core, TypeOK
<1>1. CASE UNCHANGED <<host, job>>
  BY <1>1 DEF Serving
<1>2. CASE Dispatch
  <2> DEFINE h == Head(toHost)
  <2>1. h \in Rid
    <3>1. PipeType
      BY DEF Core, TypeOK, PipeType
    <3>2. toHost # <<>> /\ h # 0
      BY <1>2 DEF Dispatch
    <3> QED BY <3>1, <3>2, BridgeAssumption, HeadAndTail
  <2>2. job'[h] = "queued"
    BY <1>0, <1>2, <2>1 DEF Dispatch
  <2> HIDE DEF h
  <2> QED BY <2>1, <2>2 DEF Serving, Active
<1>3. ASSUME NEW r \in Rid, Job(r) PROVE Serving'
  <2>1. CASE StartJob(r) \/ Serve(r) \/ TakeStdin(r)
    <3>1. job'[r] \in Active
      BY <1>0, <2>1 DEF StartJob, Serve, TakeStdin, Active
    <3> QED BY <3>1 DEF Serving
  <2>2. CASE Send(r) \/ SendFails(r)
    BY <2>2 DEF Send, SendFails, Serving
  <2> QED BY <1>3, <2>1, <2>2 DEF Job
<1>4. CASE Refuse \/ ReadEnd \/ GuardEnd \/ HostCrash \/ FinishUnheard
           \/ \E o \in Outs : Finish(o)
  BY <1>4 DEF Refuse, ReadEnd, GuardEnd, HostCrash, FinishUnheard, Finish, Serving
<1>5. CASE \/ \E c \in Caller : Call(c) \/ CallerStep(c)
           \/ Reader \/ PrintResult \/ Exit \/ ReadResult \/ Timeout \/ UNCHANGED vars
           \/ \E k \in Case : Guard(k)
  BY <1>1, <1>5 DEF Reader, CallerStep, Call, Enter, Write, WriteFails, Return, ReadReply, Route,
     ReadEOF, PrintResult, Exit, ReadResult, Timeout, Guard, vars, serving, session
<1> QED BY <1>2, <1>3, <1>4, <1>5 DEF Next, Loop, Over

(* The safety half of SessionEnds, for every number of workers: whatever   *)
(* was queued or in service when the subprocess ended, the host is never   *)
(* left waiting for it.                                                    *)
THEOREM NoSessionIsStuck == Spec => []NeverLeftOpen
<1>1. Init => Serving
  BY DEF Init, Serving
<1>2. BridgeAssumption /\ Core /\ Serving /\ [Next]_vars => Serving'
  BY NextServing
<1>3. ASSUME BridgeAssumption, Core, Serving, host = "serve" PROVE SessionCan
  <2>1. PICK r \in Rid : job[r] \in Active
    BY <1>3 DEF Serving
  <2>2. CASE Busy = {}
    <3>1. Cardinality(Busy) = 0
      BY <2>2, FS_EmptySet
    <3>2. Cardinality(Busy) < Workers
      BY <1>3, <3>1 DEF BridgeAssumption
    <3>3. job[r] = "queued"
      BY <2>1, <2>2 DEF Busy, Active
    <3> QED BY <3>2, <3>3 DEF SessionCan, JobCan
  <2>3. CASE Busy # {}
    <3>1. PICK s \in Rid : job[s] \in {"serving", "answered", "sending"}
      BY <2>3 DEF Busy
    <3> QED BY <3>1 DEF SessionCan, JobCan
  <2> QED BY <2>2, <2>3
<1>4. BridgeAssumption /\ Core /\ Serving => NeverLeftOpen
  BY <1>3 DEF NeverLeftOpen, SessionCan, Core, TypeOK
<1> QED BY <1>1, <1>2, <1>4, CoreInvariance, BridgeAssumption, PTL DEF Spec
-----------------------------------------------------------------------------
(* The other half of progress: on a live bridge no step is wasted.  A call *)
(* passes ten milestones, from the request table to the caller's return,   *)
(* and every step of a thread takes some call past one of them.            *)
Milestone == {"entered", "posted", "dispatched", "started", "served", "taken", "sent",
              "fetched", "slotted", "returned"}

Entered(r) == r \in table \/ got[r] # Missing
Posted(r)  == In(r, toHost) \/ job[r] # "none"
Fetched(r) == job[r] = "done" /\ ~ In(r, toSandbox)

(* The milestones a request has passed.                                    *)
Passed(r) ==
  {m \in Milestone :
     \/ m = "entered" /\ Entered(r)
     \/ m = "posted" /\ Posted(r)
     \/ m = "dispatched" /\ job[r] # "none"
     \/ m = "started" /\ job[r] \in {"serving", "answered", "sending", "done"}
     \/ m = "served" /\ job[r] \in {"answered", "sending", "done"}
     \/ m = "taken" /\ job[r] \in {"sending", "done"}
     \/ m = "sent" /\ job[r] = "done"
     \/ m = "fetched" /\ Fetched(r)
     \/ m = "slotted" /\ slot[r] # Missing
     \/ m = "returned" /\ got[r] # Missing}

(* The milestones still ahead of the requests the code may make.           *)
Ahead == {p \in Milestone \X Rid : p[1] \notin Passed(p[2])}

(* A step of a thread that Fairness names.                                 *)
ThreadStep == \/ \E c \in Caller : CallerStep(c)
              \/ Reader \/ Dispatch \/ \E r \in Rid : Job(r)

Live == alive /\ host # "dead"

(* No step of anybody -- the code, the loop, the watchdog -- undoes what a *)
(* thread has done, and every thread's step counts.                        *)
EveryStepCounts ==
  [][Live' => /\ Ahead' \subseteq Ahead
              /\ ThreadStep => Cardinality(Ahead') < Cardinality(Ahead)]_vars

(* A call passes the milestones in order, and its reply is in one place.   *)
InOrder ==
  /\ \A r \in Rid : Posted(r) => Entered(r)
  /\ \A r \in Rid : In(r, toSandbox) => job[r] = "done"
  /\ \A i, j \in 1..Len(toSandbox) : i # j => toSandbox[i] # toSandbox[j]
  /\ reader = "routing" => Fetched(inHand) /\ slot[inHand] = Missing
  /\ \A r \in Rid : slot[r] # Missing => Fetched(r)
  /\ \A r \in Rid : got[r] # Missing => slot[r] # Missing
  /\ \A r \in table : \E c \in Caller : at[c] \in {"write", "wait"} /\ rid[c] = r

(* What a step must show: nothing is undone, and some call gets further.   *)
Kept  == \A r \in Rid : Passed(r) \subseteq Passed(r)'
Gains == \E r \in Rid, m \in Milestone : m \notin Passed(r) /\ m \in Passed(r)'

(* Nothing is undone when each fact a milestone is read off stays true.    *)
LEMMA KeptIf ==
  ASSUME \A r \in Rid : /\ Entered(r) => Entered(r)'
                        /\ Posted(r) => Posted(r)'
                        /\ Fetched(r) => Fetched(r)'
                        /\ slot[r] # Missing => slot'[r] # Missing
                        /\ got[r] # Missing => got'[r] # Missing,
         \A r \in Rid : job'[r] = job[r] \/ <<job[r], job'[r]>> \in
           {<<"none", "queued">>, <<"queued", "serving">>, <<"serving", "answered">>,
            <<"answered", "sending">>, <<"sending", "done">>}
  PROVE  Kept
<1> SUFFICES ASSUME NEW r \in Rid, NEW m \in Milestone, m \in Passed(r)
             PROVE  m \in Passed(r)'
  BY DEF Kept, Passed
<1>1. job'[r] = job[r] \/ <<job[r], job'[r]>> \in
           {<<"none", "queued">>, <<"queued", "serving">>, <<"serving", "answered">>,
            <<"answered", "sending">>, <<"sending", "done">>}
  OBVIOUS
<1> QED BY <1>1 DEF Passed

(* The steps of a caller.                                                  *)
LEMMA CallerAdvances ==
  ASSUME Typed, Located, Core, InOrder, host # "dead",
         NEW c \in Caller, Call(c) \/ CallerStep(c)
  PROVE  InOrder' /\ Kept /\ (CallerStep(c) => Gains)
<1> USE DEF Typed
<1>0. UNCHANGED <<inHand, slot, toSandbox, job>> /\ rid[c] \in Rid
  BY DEF Call, CallerStep, Enter, Write, WriteFails, Return, reading, serving
<1>c. Ids /\ Queue /\ got \in [Rid -> Reply \cup {Closed, Missing}]
  BY DEF Core, TypeOK
<1>a. \A r : Fetched(r)' <=> Fetched(r)
  BY <1>0 DEF Fetched, In
<1>b. /\ \A r \in Rid : In(r, toSandbox') => job'[r] = "done"
      /\ \A i, j \in 1..Len(toSandbox') : i # j => toSandbox'[i] # toSandbox'[j]
      /\ \A r \in Rid : slot'[r] # Missing => Fetched(r)'
  BY <1>0, <1>a DEF InOrder, In
<1>1. CASE Call(c)
  <2>1. /\ at[c] = "idle" /\ \A d \in Caller : d # c => at'[d] = at[d] /\ rid'[d] = rid[d]
        /\ UNCHANGED <<got, table, reader, toHost>>
    BY <1>1 DEF Call, reading
  <2>2. \A r : (Entered(r)' <=> Entered(r)) /\ (Posted(r)' <=> Posted(r))
    BY <1>0, <2>1 DEF Entered, Posted, In
  <2>3. \A r \in table : \E d \in Caller : at'[d] \in {"write", "wait"} /\ rid'[d] = r
    BY <2>1 DEF InOrder
  <2>4. InOrder'
    BY <1>0, <1>a, <1>b, <2>1, <2>2, <2>3 DEF InOrder
  <2>5. Kept
    BY <1>0, <1>a, <2>1, <2>2, KeptIf
  <2>6. ~ CallerStep(c)
    BY <2>1 DEF CallerStep, Enter, Write, WriteFails, Return
  <2> QED BY <2>4, <2>5, <2>6
<1>2. CASE Enter(c)
  <2>1. /\ at[c] = "enter" /\ at'[c] = "write" /\ table' = table \cup {rid[c]}
        /\ \A d \in Caller : d # c => at'[d] = at[d]
        /\ reader' = IF reader = "none" THEN "reading" ELSE reader
        /\ UNCHANGED <<rid, got, toHost>>
    BY <1>2 DEF Enter
  <2>2. \A r : (Entered(r) => Entered(r)') /\ (Posted(r)' <=> Posted(r))
    BY <1>0, <2>1 DEF Entered, Posted, In
  <2>3. \A r \in table' : \E d \in Caller : at'[d] \in {"write", "wait"} /\ rid'[d] = r
    <3> SUFFICES ASSUME NEW r \in table
                 PROVE  \E d \in Caller : at'[d] \in {"write", "wait"} /\ rid'[d] = r
      BY <2>1
    <3>1. PICK d \in Caller : at[d] \in {"write", "wait"} /\ rid[d] = r
      BY DEF InOrder
    <3> QED BY <2>1, <3>1
  <2>4. InOrder'
    BY <1>0, <1>a, <1>b, <2>1, <2>2, <2>3 DEF InOrder
  <2>5. Kept
    BY <1>0, <1>a, <2>1, <2>2, KeptIf
  <2>6. ~ Entered(rid[c])
    <3>1. got[rid[c]] = Missing
      BY <1>c, <2>1 DEF Ids
    <3>2. ASSUME rid[c] \in table PROVE FALSE
      <4>1. PICK d \in Caller : at[d] \in {"write", "wait"} /\ rid[d] = rid[c]
        BY <3>2 DEF InOrder
      <4> QED BY <2>1, <4>1
    <3> QED BY <3>1, <3>2 DEF Entered
  <2>7. Entered(rid[c])'
    BY <2>1 DEF Entered
  <2>8. Gains
    <3>1. "entered" \in Milestone /\ "entered" \notin Passed(rid[c])
      BY <2>6 DEF Passed, Milestone
    <3>2. "entered" \in Passed(rid[c])'
      BY <2>1, <2>7 DEF Passed, Milestone, Entered
    <3> QED BY <1>0, <2>1, <3>1, <3>2 DEF Gains
  <2> QED BY <2>4, <2>5, <2>8
<1>3. CASE Write(c)
  <2>1. /\ at[c] = "write" /\ at'[c] = "wait" /\ toHost' = Append(toHost, rid[c])
        /\ \A d \in Caller : d # c => at'[d] = at[d]
        /\ UNCHANGED <<rid, got, table, reader>>
    BY <1>3 DEF Write, reading
  <2>2. \A r : In(r, toHost') <=> In(r, toHost) \/ r = rid[c]
    <3>1. rid[c] \in 0..MaxRid /\ toHost \in Seq(0..MaxRid)
      BY <1>0
    <3>2. \A r : In(r, Append(toHost, rid[c])) <=> In(r, toHost) \/ r = rid[c]
      BY ONLY <3>1, Written
    <3> QED BY <2>1, <3>2, Zenon
  <2>3. \A r : (Entered(r)' <=> Entered(r)) /\ (Posted(r)' <=> Posted(r) \/ r = rid[c])
    BY <1>0, <2>1, <2>2 DEF Entered, Posted
  <2>4. \A r \in table' : \E d \in Caller : at'[d] \in {"write", "wait"} /\ rid'[d] = r
    <3> SUFFICES ASSUME NEW r \in table
                 PROVE  \E d \in Caller : at'[d] \in {"write", "wait"} /\ rid'[d] = r
      BY <2>1
    <3>1. PICK d \in Caller : at[d] \in {"write", "wait"} /\ rid[d] = r
      BY DEF InOrder
    <3> QED BY <2>1, <3>1
  <2>5. Entered(rid[c])
    BY <2>1 DEF Located, Registered, Entered
  <2>6. InOrder'
    BY <1>0, <1>a, <1>b, <2>1, <2>3, <2>4, <2>5 DEF InOrder
  <2>7. Kept
    BY <1>0, <1>a, <2>1, <2>3, KeptIf
  <2>8. ~ Posted(rid[c])
    BY <1>c, <2>1 DEF Queue, Posted, In
  <2>9. Gains
    <3>1. "posted" \in Milestone /\ "posted" \notin Passed(rid[c])
      BY <2>8 DEF Passed, Milestone
    <3>2. "posted" \in Passed(rid[c])'
      BY <2>1, <2>3 DEF Passed, Milestone
    <3> QED BY <1>0, <2>1, <3>1, <3>2 DEF Gains
  <2> QED BY <2>6, <2>7, <2>9
<1>4. CASE Return(c)
  <2>1. /\ at[c] = "wait" /\ at'[c] = "idle" /\ slot[rid[c]] # Missing
        /\ got' = [got EXCEPT ![rid[c]] = slot[rid[c]]] /\ table' = table \ {rid[c]}
        /\ \A d \in Caller : d # c => at'[d] = at[d]
        /\ UNCHANGED <<rid, reader, toHost>>
    BY <1>4 DEF Return
  <2>2. /\ \A r \in Rid : r # rid[c] => got'[r] = got[r]
        /\ got'[rid[c]] # Missing /\ got[rid[c]] = Missing
    BY <1>0, <1>c, <2>1 DEF Ids
  <2>3. \A r \in Rid : (Entered(r) => Entered(r)') /\ (Posted(r)' <=> Posted(r))
    BY <1>0, <2>1, <2>2 DEF Entered, Posted, In
  <2>4. \A r \in table' : \E d \in Caller : at'[d] \in {"write", "wait"} /\ rid'[d] = r
    <3> SUFFICES ASSUME NEW r \in table, r # rid[c]
                 PROVE  \E d \in Caller : at'[d] \in {"write", "wait"} /\ rid'[d] = r
      BY <2>1
    <3>1. PICK d \in Caller : at[d] \in {"write", "wait"} /\ rid[d] = r
      BY DEF InOrder
    <3> QED BY <2>1, <3>1
  <2>5. \A r \in Rid : got'[r] # Missing => slot'[r] # Missing
    BY <1>0, <2>1, <2>2 DEF InOrder
  <2>6. InOrder'
    BY <1>0, <1>a, <1>b, <2>1, <2>3, <2>4, <2>5 DEF InOrder
  <2>7. Kept
    BY <1>0, <1>a, <2>1, <2>2, <2>3, KeptIf
  <2>8. Gains
    <3>1. "returned" \in Milestone /\ "returned" \notin Passed(rid[c])
      BY <2>2 DEF Passed, Milestone
    <3>2. "returned" \in Passed(rid[c])'
      BY <2>1, <2>2 DEF Passed, Milestone
    <3> QED BY <1>0, <2>1, <3>1, <3>2 DEF Gains
  <2> QED BY <2>6, <2>7, <2>8
<1>5. ~ WriteFails(c)
  BY DEF WriteFails
<1> QED BY <1>1, <1>2, <1>3, <1>4, <1>5 DEF CallerStep

(* The steps of the reader thread.                                         *)
LEMMA ReaderAdvances ==
  ASSUME Typed, Located, InOrder, host # "dead", Reader
  PROVE  InOrder' /\ Kept /\ Gains
<1> USE DEF Typed
<1>0. UNCHANGED <<at, rid, got, table, toHost, job>>
  BY DEF Reader, ReadReply, Route, ReadEOF, callers, serving
<1>1. /\ \A r : (Entered(r)' <=> Entered(r)) /\ (Posted(r)' <=> Posted(r))
      /\ \A r \in table' : \E d \in Caller : at'[d] \in {"write", "wait"} /\ rid'[d] = r
  BY <1>0 DEF Entered, Posted, In, InOrder
<1>2. CASE ReadReply
  <2> DEFINE h == Head(toSandbox)
  <2>1. /\ inHand' = h /\ toSandbox # <<>> /\ toSandbox' = Tail(toSandbox) /\ slot' = slot
        /\ reader' = "routing"
    BY <1>2 DEF ReadReply
  <2>2. \A r : In(r, toSandbox) <=> In(r, toSandbox') \/ r = h
    BY <2>1, Read
  <2>3. /\ h \in Rid /\ h = toSandbox[1] /\ Len(toSandbox) \in Nat \ {0}
        /\ Len(toSandbox') = Len(toSandbox) - 1
        /\ \A i \in 1..Len(toSandbox') : toSandbox'[i] = toSandbox[i + 1]
    BY <2>1
  <2> HIDE DEF h
  <2>4. /\ ~ In(h, toSandbox')
        /\ \A i, j \in 1..Len(toSandbox') : i # j => toSandbox'[i] # toSandbox'[j]
    <3>1. /\ \A i \in 1..Len(toSandbox') : i + 1 \in 1..Len(toSandbox) /\ i + 1 # 1
          /\ 1 \in 1..Len(toSandbox)
          /\ \A i, j \in 1..Len(toSandbox') : i # j => i + 1 # j + 1
      BY <2>3
    <3>2. \A i, j \in 1..Len(toSandbox) : i # j => toSandbox[i] # toSandbox[j]
      BY DEF InOrder
    <3>3. \A i \in 1..Len(toSandbox') : toSandbox'[i] # h
      BY <2>3, <3>1, <3>2
    <3>4. ASSUME NEW i \in 1..Len(toSandbox'), NEW j \in 1..Len(toSandbox'), i # j
          PROVE  toSandbox'[i] # toSandbox'[j]
      <4>1. /\ i + 1 \in 1..Len(toSandbox) /\ j + 1 \in 1..Len(toSandbox) /\ i + 1 # j + 1
            /\ toSandbox'[i] = toSandbox[i + 1] /\ toSandbox'[j] = toSandbox[j + 1]
        BY <2>3, <3>1, <3>4
      <4> QED BY <3>2, <4>1
    <3> QED BY <3>3, <3>4 DEF In
  <2>5. job[h] = "done" /\ In(h, toSandbox)
    BY <2>2, <2>3 DEF InOrder
  <2>6. Fetched(inHand)' /\ ~ Fetched(h) /\ slot[h] = Missing
    <3>1. Fetched(inHand)'
      BY <1>0, <2>1, <2>4, <2>5 DEF Fetched
    <3>2. ~ Fetched(h)
      BY <2>5 DEF Fetched
    <3> QED BY <2>3, <3>1, <3>2 DEF InOrder
  <2>7. \A r \in Rid : Fetched(r) => Fetched(r)'
    BY <1>0, <2>2 DEF Fetched
  <2>8. InOrder'
    <3>1. \A r \in Rid : In(r, toSandbox') => job'[r] = "done"
      BY <1>0, <2>2 DEF InOrder
    <3>2. reader' = "routing" => Fetched(inHand)' /\ slot'[inHand'] = Missing
      BY <2>1, <2>6
    <3>3. \A r \in Rid : /\ slot'[r] # Missing => Fetched(r)'
                         /\ got'[r] # Missing => slot'[r] # Missing
      BY <1>0, <2>1, <2>7 DEF InOrder
    <3>4. \A r \in Rid : Posted(r)' => Entered(r)'
      BY <1>1 DEF InOrder
    <3> QED BY <1>1, <2>4, <3>1, <3>2, <3>3, <3>4 DEF InOrder
  <2>9. Kept
    BY <1>0, <1>1, <2>1, <2>7, KeptIf
  <2>10. Gains
    <3>1. "fetched" \in Milestone /\ "fetched" \notin Passed(h)
      BY <2>6 DEF Passed, Milestone
    <3>2. "fetched" \in Passed(inHand)'
      BY <2>1, <2>6 DEF Passed, Milestone, Fetched
    <3> QED BY <2>1, <2>3, <3>1, <3>2 DEF Gains
  <2> QED BY <2>8, <2>9, <2>10
<1>3. CASE Route
  <2>1. /\ reader = "routing" /\ reader' = "reading" /\ UNCHANGED <<inHand, toSandbox>>
        /\ slot' = [r \in Rid |-> IF r \in Slot(inHand) THEN answer[inHand] ELSE slot[r]]
    BY <1>3 DEF Route
  <2>2. Fetched(inHand) /\ slot[inHand] = Missing /\ answer[inHand] # Missing
    BY <2>1 DEF InOrder, Located, Answered
  <2>3. inHand \in table
    <3>1. Entered(inHand)
      BY <2>2 DEF Fetched, Posted, InOrder
    <3> QED BY <2>2, <3>1 DEF Entered, InOrder
  <2>4. slot'[inHand] # Missing /\ \A r \in Rid : r # inHand => slot'[r] = slot[r]
    BY <2>1, <2>2, <2>3 DEF Slot
  <2>5. \A r : (Fetched(r)' <=> Fetched(r)) /\ (In(r, toSandbox') <=> In(r, toSandbox))
    BY <1>0, <2>1 DEF Fetched, In
  <2>6. InOrder'
    <3>1. \A r \in Rid : In(r, toSandbox') => job'[r] = "done"
      BY <1>0, <2>5 DEF InOrder
    <3>2. \A i, j \in 1..Len(toSandbox') : i # j => toSandbox'[i] # toSandbox'[j]
      BY <2>1 DEF InOrder
    <3>3. \A r \in Rid : /\ slot'[r] # Missing => Fetched(r)'
                         /\ got'[r] # Missing => slot'[r] # Missing
      BY <1>0, <2>2, <2>4, <2>5 DEF InOrder
    <3>4. \A r \in Rid : Posted(r)' => Entered(r)'
      BY <1>1 DEF InOrder
    <3> QED BY <1>1, <2>1, <3>1, <3>2, <3>3, <3>4 DEF InOrder
  <2>7. Kept
    BY <1>0, <1>1, <2>4, <2>5, KeptIf
  <2>8. Gains
    <3>1. "slotted" \in Milestone /\ "slotted" \notin Passed(inHand)
      BY <2>2 DEF Passed, Milestone
    <3>2. "slotted" \in Passed(inHand)'
      BY <2>1, <2>4 DEF Passed, Milestone
    <3> QED BY <2>1, <3>1, <3>2 DEF Gains
  <2> QED BY <2>6, <2>7, <2>8
<1>4. ~ ReadEOF
  BY DEF ReadEOF
<1> QED BY <1>2, <1>3, <1>4 DEF Reader

(* The steps of the host's loop, and the code's result line.               *)
LEMMA HostAdvances ==
  ASSUME Typed, Queue, InOrder, Dispatch \/ ReadResult \/ PrintResult
  PROVE  InOrder' /\ Kept /\ (Dispatch => Gains)
<1> USE DEF Typed
<1>0. UNCHANGED <<at, rid, got, table, slot, reader, inHand, toSandbox>>
  BY DEF Dispatch, ReadResult, PrintResult, callers, reading
<1>1. \A r : Entered(r)' <=> Entered(r)
  BY <1>0 DEF Entered
<1>2. CASE Dispatch
  <2> DEFINE h == Head(toHost)
  <2>1. /\ h # 0 /\ toHost # <<>> /\ toHost' = Tail(toHost)
        /\ job' = [job EXCEPT ![h] = "queued"]
    BY <1>2 DEF Dispatch
  <2>2. \A r : In(r, toHost) <=> In(r, toHost') \/ r = h
    BY <2>1, Read
  <2>3. h \in Rid
    <3>1. PipeType
      BY DEF PipeType
    <3> QED BY <2>1, <3>1, BridgeAssumption, HeadAndTail
  <2> HIDE DEF h
  <2>4. job[h] = "none"
    <3>1. In(h, toHost)
      BY <2>2
    <3>2. PICK i \in 1..Len(toHost) : toHost[i] = h
      BY <3>1 DEF In
    <3> QED BY <2>1, <3>2 DEF Queue
  <2>5. job'[h] = "queued" /\ \A r \in Rid : r # h => job'[r] = job[r]
    BY <2>1, <2>3
  <2>6. \A r \in Rid : (Posted(r)' <=> Posted(r)) /\ (Fetched(r)' <=> Fetched(r))
    BY <1>0, <2>2, <2>4, <2>5 DEF Posted, Fetched, In
  <2>7. \A r \in Rid : In(r, toSandbox') => job'[r] = "done"
    <3> SUFFICES ASSUME NEW r \in Rid, In(r, toSandbox') PROVE job'[r] = "done"
      OBVIOUS
    <3>1. In(r, toSandbox)
      BY <1>0 DEF In
    <3>2. job[r] = "done"
      BY <3>1 DEF InOrder
    <3> QED BY <2>4, <2>5, <3>2
  <2>8. InOrder'
    BY <1>0, <1>1, <2>6, <2>7 DEF InOrder
  <2>9. Kept
    BY <1>0, <1>1, <2>4, <2>5, <2>6, KeptIf
  <2>10. Gains
    <3>1. "dispatched" \in Milestone /\ "dispatched" \notin Passed(h)
      BY <2>4 DEF Passed, Milestone
    <3>2. \A r : r = h => "dispatched" \in Passed(r)'
      BY <2>5 DEF Passed, Milestone
    <3> QED BY <2>3, <3>1, <3>2 DEF Gains
  <2> QED BY <2>8, <2>9, <2>10
<1>3. CASE ReadResult \/ PrintResult
  <2>1. job' = job /\ ~ Dispatch
    BY <1>3 DEF ReadResult, PrintResult, Dispatch, serving
  <2>2. \A r \in Rid : In(r, toHost') <=> In(r, toHost)
    <3>1. CASE ReadResult
      <4>1. toHost # <<>> /\ Head(toHost) = 0 /\ toHost' = Tail(toHost)
        BY <3>1 DEF ReadResult
      <4>2. \A r : In(r, toHost) <=> In(r, toHost') \/ r = 0
        BY <4>1, Read
      <4> QED BY <4>2
    <3>2. CASE PrintResult
      <4>1. toHost' = Append(toHost, 0) /\ 0 \in 0..MaxRid
        BY <3>2, BridgeAssumption DEF PrintResult, BridgeAssumption
      <4>2. \A r : In(r, toHost') <=> In(r, toHost) \/ r = 0
        BY <4>1, Written
      <4> QED BY <4>2
    <3> QED BY <1>3, <3>1, <3>2
  <2>3. \A r \in Rid : (Posted(r)' <=> Posted(r)) /\ (Fetched(r)' <=> Fetched(r))
    BY <1>0, <2>1, <2>2 DEF Posted, Fetched, In
  <2>4. InOrder'
    BY <1>0, <1>1, <2>1, <2>3 DEF InOrder, In
  <2>5. Kept
    BY <1>0, <1>1, <2>1, <2>3, KeptIf
  <2> QED BY <2>1, <2>4, <2>5
<1> QED BY <1>2, <1>3

(* The steps of a job.                                                     *)
LEMMA JobAdvances ==
  ASSUME Typed, InOrder, alive, NEW r \in Rid, Job(r)
  PROVE  InOrder' /\ Kept /\ Gains
<1> USE DEF Typed
<1>0. UNCHANGED <<at, rid, got, table, slot, reader, inHand, toHost>>
  BY DEF Job, StartJob, Serve, TakeStdin, Send, SendFails, callers, reading
<1>1. \A s : Entered(s)' <=> Entered(s)
  BY <1>0 DEF Entered
<1>2. /\ \A s \in Rid : s # r => job'[s] = job[s]
      /\ job[r] \in {"queued", "serving", "answered", "sending"} /\ job'[r] # "none"
  BY DEF Job, StartJob, Serve, TakeStdin, Send, SendFails
<1>3. /\ \A s \in Rid : Posted(s)' <=> Posted(s)
      /\ ~ Fetched(r) /\ slot[r] = Missing /\ ~ In(r, toSandbox)
      /\ reader = "routing" => inHand # r
  BY <1>0, <1>2 DEF Posted, In, Fetched, InOrder
<1>4. CASE StartJob(r) \/ Serve(r) \/ TakeStdin(r)
  <2>1. /\ toSandbox' = toSandbox
        /\ <<job[r], job'[r]>> \in {<<"queued", "serving">>, <<"serving", "answered">>,
                                      <<"answered", "sending">>}
    BY <1>4 DEF StartJob, Serve, TakeStdin
  <2>2. \A s \in Rid : Fetched(s)' <=> Fetched(s)
    BY <1>2, <1>3, <2>1 DEF Fetched, In
  <2>3. \A s \in Rid : In(s, toSandbox') => job'[s] = "done"
    BY <1>2, <1>3, <2>1 DEF InOrder, In
  <2>4. InOrder'
    BY <1>0, <1>1, <1>3, <2>1, <2>2, <2>3 DEF InOrder
  <2>5. Kept
    BY <1>0, <1>1, <1>2, <1>3, <2>1, <2>2, KeptIf
  <2>6. Gains
    <3>1. CASE job[r] = "queued"
      <4>1. "started" \in Milestone \ Passed(r) /\ "started" \in Passed(r)'
        BY <2>1, <3>1 DEF Passed, Milestone
      <4> QED BY <4>1 DEF Gains
    <3>2. CASE job[r] = "serving"
      <4>1. "served" \in Milestone \ Passed(r) /\ "served" \in Passed(r)'
        BY <2>1, <3>2 DEF Passed, Milestone
      <4> QED BY <4>1 DEF Gains
    <3>3. CASE job[r] = "answered"
      <4>1. "taken" \in Milestone \ Passed(r) /\ "taken" \in Passed(r)'
        BY <2>1, <3>3 DEF Passed, Milestone
      <4> QED BY <4>1 DEF Gains
    <3> QED BY <2>1, <3>1, <3>2, <3>3
  <2> QED BY <2>4, <2>5, <2>6
<1>5. CASE Send(r)
  <2>1. /\ job[r] = "sending" /\ job'[r] = "done" /\ toSandbox' = Append(toSandbox, r)
    BY <1>5 DEF Send
  <2>2. \A s : In(s, toSandbox') <=> In(s, toSandbox) \/ s = r
    BY <2>1, Written
  <2>3. \A s \in Rid : s # r => (Fetched(s)' <=> Fetched(s))
    BY <1>2, <2>2 DEF Fetched
  <2>4. \A s \in Rid : In(s, toSandbox') => job'[s] = "done"
    BY <1>2, <2>1, <2>2 DEF InOrder
  <2>5. \A i, j \in 1..Len(toSandbox') : i # j => toSandbox'[i] # toSandbox'[j]
    <3>1. /\ Len(toSandbox) \in Nat /\ Len(toSandbox') = Len(toSandbox) + 1
          /\ toSandbox'[Len(toSandbox) + 1] = r
          /\ \A i \in 1..Len(toSandbox) : toSandbox'[i] = toSandbox[i]
      BY <2>1
    <3>2. \A i \in 1..Len(toSandbox') : i \in 1..Len(toSandbox) \/ i = Len(toSandbox) + 1
      BY <3>1
    <3>3. \A i \in 1..Len(toSandbox) : toSandbox[i] # r
      BY <1>3 DEF In
    <3>4. \A i, j \in 1..Len(toSandbox) : i # j => toSandbox[i] # toSandbox[j]
      BY DEF InOrder
    <3> QED BY <3>1, <3>2, <3>3, <3>4
  <2>6. InOrder'
    BY <1>0, <1>1, <1>3, <2>3, <2>4, <2>5 DEF InOrder
  <2>7. Kept
    BY <1>0, <1>1, <1>2, <1>3, <2>1, <2>3, KeptIf
  <2>8. Gains
    <3>1. "sent" \in Milestone \ Passed(r) /\ "sent" \in Passed(r)'
      BY <2>1 DEF Passed, Milestone
    <3> QED BY <3>1 DEF Gains
  <2> QED BY <2>6, <2>7, <2>8
<1> QED BY <1>4, <1>5 DEF Job, SendFails

(* Every step of a live bridge keeps the order, and what was passed.       *)
LEMMA NextAdvances ==
  ASSUME BridgeAssumption, Core, Whereabouts, Live => InOrder, [Next]_vars, Live'
  PROVE  InOrder' /\ Kept /\ (ThreadStep => Gains)
<1>1. alive
  BY DEF Live, Next, Loop, Over, Reader, Job, CallerStep, Call, Enter, Write, WriteFails,
     Return, ReadReply, Route, ReadEOF, PrintResult, Exit, Timeout, Refuse, Dispatch, ReadResult,
     ReadEnd, GuardEnd, Guard, StartJob, Serve, TakeStdin, Send, SendFails, FinishUnheard, Finish,
     Shutdown, HostCrash, Dies, vars
<1>2. Typed /\ Located /\ Queue /\ Ids
  BY <1>1, CoreIsTyped DEF Whereabouts, Located, Core
<1>3. \/ UNCHANGED vars
      \/ \E c \in Caller : Call(c) \/ CallerStep(c)
      \/ Reader \/ Dispatch \/ ReadResult \/ PrintResult
      \/ \E r \in Rid : Job(r)
  <2>1. ~ Exit /\ ~ Timeout /\ ~ Refuse /\ ~ HostCrash
    BY DEF Live, Exit, Timeout, Refuse, Dies, HostCrash
  <2>2. ~ ReadEnd /\ ~ FinishUnheard /\ (\A o \in Outs : ~ Finish(o)) /\ ~ GuardEnd
        /\ \A k \in Case : ~ Guard(k)
    BY <1>1, <1>2 DEF ReadEnd, FinishUnheard, Finish, Shutdown, GuardEnd, Guard, Located, HostUp
  <2> QED BY <2>1, <2>2 DEF Next, Loop, Over
<1>4. host # "dead"
  BY <1>3 DEF Live, Reader, Job, CallerStep, Call, Enter, Write, WriteFails, Return, ReadReply,
     Route, ReadEOF, PrintResult, Dispatch, ReadResult, StartJob, Serve, TakeStdin, Send,
     SendFails, vars, session
<1>5. InOrder
  BY <1>1, <1>4 DEF Live
<1>6. InOrder' /\ Kept
  <2>1. CASE UNCHANGED vars
    <3>1. UNCHANGED <<at, rid, got, table, slot, reader, inHand, toHost, toSandbox, job>>
      BY <2>1 DEF vars, callers, reading, serving
    <3>2. \A r : /\ Entered(r)' <=> Entered(r)
                 /\ Posted(r)' <=> Posted(r)
                 /\ Fetched(r)' <=> Fetched(r)
                 /\ In(r, toSandbox') <=> In(r, toSandbox)
      BY <3>1 DEF Entered, Posted, Fetched, In
    <3>3. InOrder'
      BY <1>5, <3>1, <3>2 DEF InOrder
    <3>4. Kept
      BY <3>1, <3>2, KeptIf
    <3> QED BY <3>3, <3>4
  <2>2. CASE \E c \in Caller : Call(c) \/ CallerStep(c)
    BY <1>2, <1>4, <1>5, <2>2, CallerAdvances
  <2>3. CASE Reader
    BY <1>2, <1>4, <1>5, <2>3, ReaderAdvances
  <2>4. CASE Dispatch \/ ReadResult \/ PrintResult
    BY <1>2, <1>5, <2>4, HostAdvances
  <2>5. CASE \E r \in Rid : Job(r)
    BY <1>1, <1>2, <1>5, <2>5, JobAdvances
  <2> QED BY <1>3, <2>1, <2>2, <2>3, <2>4, <2>5
<1>7. ASSUME ThreadStep PROVE Gains
  <2>1. CASE \E c \in Caller : CallerStep(c)
    BY <1>2, <1>4, <1>5, <2>1, CallerAdvances
  <2>2. CASE Reader
    BY <1>2, <1>4, <1>5, <2>2, ReaderAdvances
  <2>3. CASE Dispatch
    BY <1>2, <1>5, <2>3, HostAdvances
  <2>4. CASE \E r \in Rid : Job(r)
    BY <1>1, <1>2, <1>5, <2>4, JobAdvances
  <2> QED BY <1>7, <2>1, <2>2, <2>3, <2>4 DEF ThreadStep
<1> QED BY <1>6, <1>7

(* There are ten milestones for each request the code may make.            *)
LEMMA AheadIsFinite ==
  ASSUME BridgeAssumption
  PROVE  /\ IsFiniteSet(Ahead) /\ Cardinality(Ahead) \in Nat
         /\ Cardinality(Ahead) \in 0 .. 10 * MaxRid
<1>1. IsFiniteSet(Rid) /\ Cardinality(Rid) = MaxRid
  BY FS_Interval DEF Rid, BridgeAssumption
<1>2. IsFiniteSet(Milestone) /\ Cardinality(Milestone) = 10
  <2> DEFINE n == 10
             f == <<"entered", "posted", "dispatched", "started", "served", "taken", "sent",
                    "fetched", "slotted", "returned">>
  <2>1. f \in [1..n -> Milestone]
    BY DEF Milestone
  <2>2. \A m \in Milestone : \E i \in 1..n : f[i] = m
    BY DEF Milestone
  <2>3. \A i, j \in 1..n : f[i] = f[j] => i = j
    OBVIOUS
  <2>4. n \in Nat /\ n > 0 /\ n = 10
    OBVIOUS
  <2> HIDE DEF f, n
  <2>5. f \in Surjection(1..n, Milestone) /\ f \in Injection(1..n, Milestone)
    BY <2>1, <2>2, <2>3 DEF Surjection, Injection, IsInjective
  <2>6. IsFiniteSet(1..n) /\ Cardinality(1..n) = n
    <3>1. 1 \in Int /\ n \in Int
      BY <2>4
    <3>2. IsFiniteSet(1..n) /\ Cardinality(1..n) = IF 1 > n THEN 0 ELSE n - 1 + 1
      BY ONLY <3>1, FS_Interval
    <3> QED BY <2>4, <3>2
  <2> QED BY <2>4, <2>5, <2>6, FS_Surjection
<1>3. IsFiniteSet(Milestone \X Rid)
      /\ Cardinality(Milestone \X Rid) = Cardinality(Milestone) * Cardinality(Rid)
  BY <1>1, <1>2, FS_Product
<1>4. Ahead \subseteq Milestone \X Rid
  BY DEF Ahead
<1>5. IsFiniteSet(Ahead) /\ Cardinality(Ahead) <= Cardinality(Milestone \X Rid)
  BY <1>3, <1>4, FS_Subset
<1>6. Cardinality(Ahead) \in Nat /\ MaxRid \in Nat
  BY <1>5, FS_CardinalityType DEF BridgeAssumption
<1> QED BY <1>1, <1>2, <1>3, <1>5, <1>6

(* What was passed is no longer ahead.                                     *)
LEMMA PassedIsBehind ==
  ASSUME BridgeAssumption, Kept
  PROVE  Ahead' \subseteq Ahead /\ (Gains => Cardinality(Ahead') < Cardinality(Ahead))
<1>1. Ahead' \subseteq Ahead
  BY DEF Ahead, Kept
<1>2. ASSUME Gains PROVE Cardinality(Ahead') < Cardinality(Ahead)
  <2>1. PICK r \in Rid, m \in Milestone : m \notin Passed(r) /\ m \in Passed(r)'
    BY <1>2 DEF Gains
  <2>2. <<m, r>> \in Ahead /\ <<m, r>> \notin Ahead'
    BY <2>1 DEF Ahead
  <2>3. IsFiniteSet(Ahead) /\ Cardinality(Ahead) \in Nat
    BY AheadIsFinite
  <2>4. /\ IsFiniteSet(Ahead') /\ Cardinality(Ahead') <= Cardinality(Ahead)
        /\ Cardinality(Ahead) = Cardinality(Ahead') => Ahead = Ahead'
    BY <1>1, <2>3, FS_Subset
  <2>5. Cardinality(Ahead') \in Nat
    BY <2>4, FS_CardinalityType
  <2> QED BY <2>2, <2>3, <2>4, <2>5
<1> QED BY <1>1, <1>2

(* While the bridge lives no thread can run without bringing some call     *)
(* further, and only so many steps remain: 10 * MaxRid, whatever the       *)
(* interleaving.  With NoOpenCallIsStuck this is the safety half of        *)
(* CallsReturn: an open call can always go on, and not for ever.           *)
THEOREM NoStepIsWasted ==
  Spec => [](Cardinality(Ahead) \in 0 .. 10 * MaxRid) /\ EveryStepCounts
<1>1. Init => Whereabouts /\ (Live => InOrder)
  BY BridgeAssumption DEF Init, BridgeAssumption, Whereabouts, LockHeld, HostUp, Registered,
     ReaderUp, Answered, NotLost, In, InOrder, Posted
<1>2. BridgeAssumption /\ Core /\ Whereabouts /\ (Live => InOrder) /\ [Next]_vars
        => Whereabouts' /\ (Live => InOrder)'
  BY NextWhereabouts, NextAdvances
<1>3. BridgeAssumption /\ Core /\ Whereabouts /\ (Live => InOrder) /\ [Next]_vars
        => [Live' => /\ Ahead' \subseteq Ahead
                     /\ ThreadStep => Cardinality(Ahead') < Cardinality(Ahead)]_vars
  BY NextAdvances, PassedIsBehind
<1>4. BridgeAssumption => Cardinality(Ahead) \in 0 .. 10 * MaxRid
  BY AheadIsFinite
<1> QED BY <1>1, <1>2, <1>3, <1>4, CoreInvariance, BridgeAssumption, PTL DEF Spec, EveryStepCounts
-----------------------------------------------------------------------------
(* The end of a session.  What is left of it once the subprocess is gone:  *)
(* what its jobs have ahead of them, what is in the pipe, and the phases   *)
(* of the host, the guard's cases among them.                              *)
JobMilestone == {"dispatched", "started", "served", "taken", "sent"}
JobsAhead    == {p \in Ahead : p[1] \in JobMilestone}

Phase == CASE host \in {"read", "serve"} -> Cardinality(Case) + 3
           [] host = "closing"           -> Cardinality(Case) + 2
           [] host = "guard"             -> Cardinality(toGuard) + 1
           [] OTHER                      -> 0

EndLeft == Cardinality(JobsAhead) + Len(toHost) + Phase

(* Every step of the host and its pool brings the end nearer, and neither  *)
(* the watchdog nor a late call puts it off.                               *)
EndComesNearer ==
  [][~ alive /\ host' # "dead" =>
       /\ EndLeft' <= EndLeft
       /\ Loop \/ (\E r \in Rid : Job(r)) => EndLeft' < EndLeft]_vars

JobMoves == {<<"none", "queued">>, <<"queued", "serving">>, <<"serving", "answered">>,
             <<"answered", "sending">>, <<"sending", "done">>}

(* What a job has ahead of it only grows less, cancelled or not.           *)
LEMMA JobsMove ==
  ASSUME BridgeAssumption,
         \A r \in Rid : job'[r] = job[r]
                        \/ <<job[r], job'[r]>> \in JobMoves \cup {<<"queued", "cancelled">>}
  PROVE  /\ Cardinality(JobsAhead) \in Nat /\ Cardinality(JobsAhead') \in Nat
         /\ Cardinality(JobsAhead') <= Cardinality(JobsAhead)
         /\ (\E r \in Rid : <<job[r], job'[r]>> \in JobMoves)
              => Cardinality(JobsAhead') < Cardinality(JobsAhead)
<1>1. IsFiniteSet(JobsAhead)
  BY AheadIsFinite, FS_Subset DEF JobsAhead
<1>2. JobsAhead' \subseteq JobsAhead
  <2> SUFFICES ASSUME NEW m \in JobMilestone, NEW r \in Rid, m \in Passed(r)
               PROVE  m \in Passed(r)'
    BY DEF JobsAhead, Ahead
  <2>1. job'[r] = job[r] \/ <<job[r], job'[r]>> \in JobMoves \cup {<<"queued", "cancelled">>}
    OBVIOUS
  <2> QED BY <2>1 DEF Passed, JobMilestone, JobMoves
<1>3. /\ IsFiniteSet(JobsAhead') /\ Cardinality(JobsAhead') <= Cardinality(JobsAhead)
      /\ Cardinality(JobsAhead) = Cardinality(JobsAhead') => JobsAhead = JobsAhead'
  BY <1>1, <1>2, FS_Subset
<1>4. Cardinality(JobsAhead) \in Nat /\ Cardinality(JobsAhead') \in Nat
  BY <1>1, <1>3, FS_CardinalityType
<1>5. ASSUME NEW r \in Rid, <<job[r], job'[r]>> \in JobMoves
      PROVE  Cardinality(JobsAhead') < Cardinality(JobsAhead)
  <2>1. PICK m \in JobMilestone : m \notin Passed(r) /\ m \in Passed(r)'
    <3>1. CASE job[r] = "none"
      <4>1. "dispatched" \in JobMilestone \ Passed(r) /\ "dispatched" \in Passed(r)'
        BY <1>5, <3>1 DEF JobMoves, Passed, JobMilestone, Milestone
      <4> QED BY <4>1
    <3>2. CASE job[r] = "queued"
      <4>1. "started" \in JobMilestone \ Passed(r) /\ "started" \in Passed(r)'
        BY <1>5, <3>2 DEF JobMoves, Passed, JobMilestone, Milestone
      <4> QED BY <4>1
    <3>3. CASE job[r] = "serving"
      <4>1. "served" \in JobMilestone \ Passed(r) /\ "served" \in Passed(r)'
        BY <1>5, <3>3 DEF JobMoves, Passed, JobMilestone, Milestone
      <4> QED BY <4>1
    <3>4. CASE job[r] = "answered"
      <4>1. "taken" \in JobMilestone \ Passed(r) /\ "taken" \in Passed(r)'
        BY <1>5, <3>4 DEF JobMoves, Passed, JobMilestone, Milestone
      <4> QED BY <4>1
    <3>5. CASE job[r] = "sending"
      <4>1. "sent" \in JobMilestone \ Passed(r) /\ "sent" \in Passed(r)'
        BY <1>5, <3>5 DEF JobMoves, Passed, JobMilestone, Milestone
      <4> QED BY <4>1
    <3> QED BY <1>5, <3>1, <3>2, <3>3, <3>4, <3>5 DEF JobMoves
  <2>2. <<m, r>> \in JobsAhead /\ <<m, r>> \notin JobsAhead'
    BY <2>1 DEF JobsAhead, Ahead, JobMilestone, Milestone
  <2> QED BY <1>3, <1>4, <2>2
<1> QED BY <1>3, <1>4, <1>5

(* A request is dispatched once: the one at hand was never seen before.    *)
LEMMA DispatchesFresh ==
  ASSUME BridgeAssumption, TypeOK, Queue, Dispatch
  PROVE  Head(toHost) \in Rid /\ job[Head(toHost)] = "none"
<1>1. toHost # <<>> /\ Head(toHost) # 0 /\ toHost \in Seq(0..MaxRid)
  BY DEF Dispatch, TypeOK
<1>2. Head(toHost) \in Rid
  BY <1>1, HeadAndTail, TypesSplit
<1>3. Len(toHost) \in Nat /\ 1 \in 1..Len(toHost) /\ toHost[1] = Head(toHost)
  BY <1>1
<1> QED BY <1>1, <1>2, <1>3 DEF Queue

(* The cases the guard has left are no more than there are.                *)
LEMMA CasesLeft ==
  ASSUME IsFiniteSet(Case), NEW G \in SUBSET Case
  PROVE  /\ IsFiniteSet(G) /\ Cardinality(G) \in Nat /\ Cardinality(Case) \in Nat
         /\ Cardinality(G) <= Cardinality(Case)
BY FS_Subset, FS_CardinalityType

(* The steps of the pool.                                                  *)
LEMMA JobEndsSooner ==
  ASSUME BridgeAssumption, IsFiniteSet(Case), TypeOK, ~ alive, NEW r \in Rid, Job(r)
  PROVE  EndLeft' \in Nat /\ EndLeft' < EndLeft
<1>1. /\ toHost' = toHost /\ toGuard' = toGuard
      /\ host' = host \/ (host = "serve" /\ host' = "closing")
  BY DEF Job, StartJob, Serve, TakeStdin, Send, SendFails, closing, session
<1>2. /\ <<job[r], job'[r]>> \in JobMoves
      /\ \A s \in Rid : s # r => job'[s] = job[s]
  BY DEF Job, StartJob, Serve, TakeStdin, Send, SendFails, JobMoves, TypeOK
<1>3. /\ Cardinality(JobsAhead) \in Nat /\ Cardinality(JobsAhead') \in Nat
      /\ Cardinality(JobsAhead') < Cardinality(JobsAhead)
  BY <1>2, JobsMove
<1>4. /\ Len(toHost) \in Nat /\ toGuard \in SUBSET Case
      /\ host \in {"read", "serve", "closing", "guard", "done", "dead"}
  BY DEF TypeOK
<1>5. Cardinality(Case) \in Nat /\ Cardinality(toGuard) \in Nat
  BY <1>4, CasesLeft
<1>6. Phase \in Nat /\ Phase' \in Nat /\ Phase' <= Phase
  BY <1>1, <1>4, <1>5 DEF Phase
<1> QED BY <1>1, <1>3, <1>4, <1>6 DEF EndLeft

(* The steps of the host's loop.                                           *)
LEMMA LoopEndsSooner ==
  ASSUME BridgeAssumption, IsFiniteSet(Case), TypeOK, TypeOK', Queue, ~ alive, Loop
  PROVE  EndLeft' \in Nat /\ EndLeft' < EndLeft
<1> DEFINE Nearer == /\ Phase' \in Nat /\ Len(toHost') <= Len(toHost) /\ Phase' <= Phase
                     /\ Len(toHost') < Len(toHost) \/ Phase' < Phase
<1>1. /\ toHost \in Seq(0..MaxRid) /\ Len(toHost) \in Nat /\ Len(toHost') \in Nat
      /\ toGuard \in SUBSET Case /\ toGuard' \in SUBSET Case
      /\ host \in {"read", "serve", "closing", "guard", "done", "dead"}
      /\ job \in [Rid -> {"none", "queued", "serving", "answered", "sending", "done", "cancelled"}]
  BY DEF TypeOK
<1>2. /\ Cardinality(Case) \in Nat /\ Cardinality(toGuard) \in Nat
      /\ Cardinality(toGuard') \in Nat /\ Cardinality(toGuard') <= Cardinality(Case)
      /\ IsFiniteSet(toGuard)
  BY <1>1, CasesLeft
<1>3. Phase \in Nat
  BY <1>2 DEF Phase
<1>4. toHost # <<>> => Len(Tail(toHost)) = Len(toHost) - 1
  BY <1>1
<1>5. \A r \in Rid : job'[r] = job[r]
                     \/ <<job[r], job'[r]>> \in JobMoves \cup {<<"queued", "cancelled">>}
  <2>1. CASE Dispatch
    <3>1. Head(toHost) \in Rid /\ job[Head(toHost)] = "none"
      BY <1>1, <2>1, DispatchesFresh
    <3> QED BY <1>1, <2>1, <3>1 DEF Dispatch, JobMoves
  <2>2. CASE \/ Refuse \/ ReadResult \/ ReadEnd \/ GuardEnd \/ \E k \in Case : Guard(k)
    BY <2>2 DEF Refuse, ReadResult, ReadEnd, GuardEnd, Guard, serving
  <2>3. CASE FinishUnheard \/ \E o \in Outs : Finish(o)
    BY <2>3 DEF FinishUnheard, Finish, Shutdown
  <2> QED BY <2>1, <2>2, <2>3 DEF Loop
<1>6. /\ Cardinality(JobsAhead) \in Nat /\ Cardinality(JobsAhead') \in Nat
      /\ Cardinality(JobsAhead') <= Cardinality(JobsAhead)
  BY <1>5, JobsMove
<1>7. ASSUME Dispatch \/ ReadResult PROVE Nearer
  <2>1. /\ toHost # <<>> /\ toHost' = Tail(toHost)
        /\ host = "read" /\ host' \in {"read", "serve"}
    BY <1>7 DEF Dispatch, ReadResult, session
  <2>2. Phase' = Phase
    BY <2>1 DEF Phase
  <2> QED BY <1>1, <1>3, <1>4, <2>1, <2>2
<1>8. ASSUME Refuse \/ ReadEnd PROVE Nearer
  <2>1. /\ host = "read" /\ host' = "closing"
        /\ toHost' = toHost \/ (toHost # <<>> /\ toHost' = Tail(toHost))
    BY <1>8 DEF Refuse, ReadEnd
  <2>2. Phase = Cardinality(Case) + 3 /\ Phase' = Cardinality(Case) + 2
    BY <2>1 DEF Phase
  <2>3. Phase' \in Nat /\ Phase' < Phase
    BY <1>2, <2>2
  <2> QED BY <1>1, <1>3, <1>4, <2>1, <2>3
<1>9. ASSUME FinishUnheard \/ \E o \in Outs : Finish(o) PROVE Nearer
  <2>1. host = "closing" /\ host' \in {"guard", "done"} /\ toHost' = toHost
    BY <1>9 DEF FinishUnheard, Finish, Shutdown
  <2>2. Phase = Cardinality(Case) + 2 /\ Phase' \in {Cardinality(toGuard') + 1, 0}
    BY <2>1 DEF Phase
  <2>3. Phase' \in Nat /\ Phase' < Phase
    BY <1>2, <2>2
  <2> QED BY <1>1, <1>3, <2>1, <2>3
<1>10. ASSUME GuardEnd PROVE Nearer
  <2>1. host = "guard" /\ host' = "done" /\ toHost' = toHost
    BY <1>10 DEF GuardEnd
  <2>2. Phase = Cardinality(toGuard) + 1 /\ Phase' = 0
    BY <2>1 DEF Phase
  <2> QED BY <1>1, <1>2, <2>1, <2>2
<1>11. ASSUME \E k \in Case : Guard(k) PROVE Nearer
  <2>1. PICK k \in Case : Guard(k)
    BY <1>11
  <2>2. /\ host = "guard" /\ host' = "guard" /\ toHost' = toHost
        /\ k \in toGuard /\ toGuard' = toGuard \ {k}
    BY <2>1 DEF Guard, session
  <2>3. Cardinality(toGuard') = Cardinality(toGuard) - 1
    BY <1>2, <2>2, FS_RemoveElement
  <2>4. Phase = Cardinality(toGuard) + 1 /\ Phase' = Cardinality(toGuard') + 1
    BY <2>2 DEF Phase
  <2>5. Phase' \in Nat /\ Phase' < Phase
    BY <1>2, <2>3, <2>4
  <2> QED BY <1>1, <1>3, <2>2, <2>5
<1>12. Nearer
  BY <1>7, <1>8, <1>9, <1>10, <1>11 DEF Loop
<1>13. \A a, b, c, x, y, z \in Nat :
          (x <= a /\ y <= b /\ z <= c /\ (y < b \/ z < c))
             => x + y + z \in Nat /\ x + y + z < a + b + c
  OBVIOUS
<1>14. Len(toHost) \in Nat /\ Len(toHost') \in Nat
  BY <1>1
<1>15. /\ Cardinality(JobsAhead') + Len(toHost') + Phase' \in Nat
       /\ Cardinality(JobsAhead') + Len(toHost') + Phase'
             < Cardinality(JobsAhead) + Len(toHost) + Phase
  <2> HIDE DEF Nearer
  <2>1. /\ Phase' \in Nat /\ Len(toHost') <= Len(toHost) /\ Phase' <= Phase
        /\ Len(toHost') < Len(toHost) \/ Phase' < Phase
    BY <1>12 DEF Nearer
  <2> QED BY <1>3, <1>6, <1>13, <1>14, <2>1
<1> QED BY <1>15 DEF EndLeft

(* A session whose subprocess is gone takes finitely many more steps of    *)
(* the host and its pool, whatever was queued or in service and whenever   *)
(* the watchdog fires.  With NoSessionIsStuck this is the safety half of   *)
(* SessionEnds: it can always go on, and not for ever.                     *)
THEOREM SessionsRunOut ==
  ASSUME IsFiniteSet(Case)
  PROVE  Spec => [](EndLeft \in Nat) /\ EndComesNearer
<1>1. BridgeAssumption /\ TypeOK => EndLeft \in Nat
  <2> SUFFICES ASSUME BridgeAssumption, TypeOK PROVE EndLeft \in Nat
    OBVIOUS
  <2>1. Len(toHost) \in Nat /\ toGuard \in SUBSET Case
    BY DEF TypeOK
  <2>2. Cardinality(Case) \in Nat /\ Cardinality(toGuard) \in Nat
    BY <2>1, CasesLeft
  <2>3. Cardinality(JobsAhead) \in Nat
    BY AheadIsFinite, FS_Subset, FS_CardinalityType DEF JobsAhead
  <2> QED BY <2>1, <2>2, <2>3 DEF EndLeft, Phase
<1>2. ASSUME BridgeAssumption, Core, TypeOK', [Next]_vars, ~ alive, host' # "dead"
      PROVE  /\ EndLeft' <= EndLeft
             /\ Loop \/ (\E r \in Rid : Job(r)) => EndLeft' < EndLeft
  <2>0. TypeOK /\ Queue /\ EndLeft \in Nat
    BY <1>1, <1>2 DEF Core
  <2>1. ASSUME Loop \/ \E r \in Rid : Job(r) PROVE EndLeft' \in Nat /\ EndLeft' < EndLeft
    BY <1>2, <2>0, <2>1, LoopEndsSooner, JobEndsSooner
  <2>2. ASSUME ~ (Loop \/ \E r \in Rid : Job(r)) PROVE EndLeft' = EndLeft
    <3>1. Timeout \/ UNCHANGED vars
      BY <1>2, <2>2 DEF Next, Over, Call, CallerStep, Enter, Write, WriteFails, Return, Reader,
         ReadReply, Route, ReadEOF, PrintResult, Exit, HostCrash
    <3>2. UNCHANGED <<host, toHost, toGuard, job>>
      BY <3>1 DEF Timeout, vars, serving, session, closing
    <3>3. Phase' = Phase
      BY <3>2 DEF Phase
    <3>4. \A m \in JobMilestone, r \in Rid : m \in Passed(r)' <=> m \in Passed(r)
      BY <3>2 DEF Passed, JobMilestone
    <3>5. JobsAhead' = JobsAhead
      BY <3>4 DEF JobsAhead, Ahead
    <3> QED BY <3>2, <3>3, <3>5 DEF EndLeft
  <2> QED BY <2>0, <2>1, <2>2
<1>3. BridgeAssumption /\ Core /\ TypeOK' /\ [Next]_vars
        => [~ alive /\ host' # "dead" =>
              /\ EndLeft' <= EndLeft
              /\ Loop \/ (\E r \in Rid : Job(r)) => EndLeft' < EndLeft]_vars
  BY <1>2
<1> QED BY <1>1, <1>3, Typing, CoreInvariance, BridgeAssumption, PTL DEF Spec, EndComesNearer
=============================================================================
