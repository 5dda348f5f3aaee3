-------------------------- MODULE AgenticLoopProofs --------------------------
(***************************************************************************)
(* Safety of the agentic loop for every number of hypotheses, every call   *)
(* limit and every budget.                                                 *)
(*                                                                         *)
(* What has to be carried along: a pending hypothesis has no result yet    *)
(* (else it could be scored twice), every tested one was proposed (else M3 *)
(* could return it again), and a running loop is below the streak limit.   *)
(***************************************************************************)
EXTENDS AgenticLoop, TLAPS

PendingUntested == pending \cap Tested = {} /\ Tested \subseteq proposed
StreakBelow     == pc = "running" => streak < MaxStreak

IInv == /\ TypeOK /\ StreakBelow /\ PendingUntested
        /\ TestedOnce /\ DiscoveryKept /\ FixServesVerified /\ BoardAgrees

core == <<shownConfirmatory, rows, stats, proposed, pending, results, fix, proposer>>

(* The initial state satisfies the invariant.                              *)
THEOREM InitIInv == Init => IInv
<1> SUFFICES ASSUME Init PROVE IInv
  OBVIOUS
<1>1. TypeOK
  <2>1. calls \in [Tool -> Nat] /\ \A t \in Tool : calls[t] <= Quota[t]
    BY LimitAssumption DEF Init
  <2>2. {actionsTaken, tokens, charged, gates} \subseteq Nat /\ streak \in 0..MaxStreak
    BY LimitAssumption DEF Init
  <2> QED
    BY <2>1, <2>2 DEF Init, TypeOK
<1>2. Tested = {} /\ Verified = {}
  BY DEF Init, Tested, Verified
<1> QED
  BY <1>1, <1>2, LimitAssumption
  DEF Init, IInv, StreakBelow, PendingUntested, TestedOnce, DiscoveryKept,
      FixServesVerified, BoardAgrees

(* The host's bookkeeping of one turn keeps the counters in range.         *)
LEMMA TurnType ==
  ASSUME IInv, NEW t \in Tool, NEW valid \in BOOLEAN, Judged(t, valid)
  PROVE  /\ streak' \in 0..MaxStreak /\ charged' \in Nat
         /\ Charge => actionsTaken' \in Nat
         /\ Log(t) => calls' \in [Tool -> Nat] /\ \A u \in Tool : calls'[u] <= Quota[u]
<1>1. streak' \in 0..MaxStreak /\ charged' \in Nat
  BY LimitAssumption DEF IInv, TypeOK, StreakBelow, Judged
<1>2. Charge => actionsTaken' \in Nat
  BY DEF IInv, TypeOK, Charge
<1>3. ASSUME Log(t)
      PROVE  calls' \in [Tool -> Nat] /\ \A u \in Tool : calls'[u] <= Quota[u]
  <2>1. calls \in [Tool -> Nat] /\ \A u \in Tool : calls[u] <= Quota[u]
    BY DEF IInv, TypeOK
  <2>2. Quota[t] \in Nat /\ calls[t] \in Nat
    BY <2>1, LimitAssumption
  <2> QED
    BY <1>3, <2>1, <2>2 DEF Log
<1> QED
  BY <1>1, <1>2, <1>3

(* The control part of the invariant.                                      *)
Control ==
  /\ pc \in {"running", "done", "aborted"} /\ StreakBelow
  /\ stoppedBy \in {None, "max_actions", "budget", "time_budget", "agent_stop",
                    "invalid_actions", "diagnosis_error"}
  /\ actionsTaken \in Nat /\ charged \in Nat /\ streak \in 0..MaxStreak
  /\ calls \in [Tool -> Nat] /\ \A t \in Tool : calls[t] <= Quota[t]

(* A logged turn, however it ends, leaves the control part in place.       *)
LEMMA TurnControl ==
  ASSUME IInv, NEW t \in Tool, NEW valid \in BOOLEAN, Turn(t, valid),
         EndTurn \/ Finish("agent_stop")
  PROVE  Control'
<1>1. Judged(t, valid) /\ Charge /\ Log(t) /\ pc = "running"
  BY DEF Turn, Judged
<1>2. /\ streak' \in 0..MaxStreak /\ charged' \in Nat /\ actionsTaken' \in Nat
      /\ calls' \in [Tool -> Nat] /\ \A u \in Tool : calls'[u] <= Quota[u]
  BY <1>1, TurnType
<1>3. /\ pc' \in {"running", "done", "aborted"} /\ StreakBelow'
      /\ stoppedBy' \in {None, "max_actions", "budget", "time_budget", "agent_stop",
                         "invalid_actions", "diagnosis_error"}
  BY <1>1, <1>2, LimitAssumption DEF IInv, TypeOK, EndTurn, Finish, StreakBelow
<1> QED
  BY <1>2, <1>3 DEF Control

(* What the evidence conjuncts speak of is untouched: they carry over.     *)
LEMMA CoreUnchanged ==
  ASSUME IInv, UNCHANGED core
  PROVE  /\ PendingUntested' /\ TestedOnce' /\ DiscoveryKept'
         /\ FixServesVerified' /\ BoardAgrees'
  BY DEF IInv, core, PendingUntested, TestedOnce, DiscoveryKept, FixServesVerified,
         BoardAgrees, Tested, Verified, Supported

(* A turn that touches no evidence -- refused, a probe, more context, a    *)
(* surgery, a stop.                                                        *)
LEMMA QuietTurn ==
  ASSUME IInv, NEW t \in Tool, NEW valid \in BOOLEAN, Turn(t, valid),
         EndTurn \/ Finish("agent_stop"),
         UNCHANGED <<core, found, diagnosisFailed, tokens, gates>>,
         probed' \in BOOLEAN, declared' \in BOOLEAN,
         surgery' \in [hyp : Hyp, verdict : {"refuted", "notRefuted"}] \cup {None}
  PROVE  IInv'
<1>1. Control'
  BY TurnControl
<1>2. UNCHANGED core
  OBVIOUS
<1>3. TypeOK'
  BY <1>1, <1>2 DEF IInv, TypeOK, core, Control
<1> QED
  BY <1>1, <1>2, <1>3, CoreUnchanged DEF IInv, Control

-----------------------------------------------------------------------------
(* Whatever the rows held, the board rebuilt after a proposal or a test    *)
(* shows every verified hypothesis as supported.                           *)
LEMMA RowsShowVerified ==
  ASSUME NEW rs, NEW r \in rs, r.verdict = "verified"
  PROVE  /\ \E x \in TestedRows(rs) : x.status = "supported" /\ x.consistent
         /\ rs = results =>
              \A hs : \E x \in ProposedRows(hs) : x.status = "supported" /\ x.consistent
<1>1. StatusOf(r.verdict) = "supported" /\ r.verdict # "offProtocol"
  BY DEF StatusOf
<1>2. \E x \in TestedRows(rs) : x.status = "supported" /\ x.consistent
  <2> DEFINE x == [hyp |-> r.hyp, status |-> StatusOf(r.verdict),
                   consistent |-> r.verdict # "offProtocol"]
  <2>1. x \in TestedRows(rs)
    BY DEF TestedRows
  <2>2. x.status = "supported" /\ x.consistent
    BY <1>1
  <2> QED
    BY <2>1, <2>2
<1>3. ASSUME rs = results, NEW hs
      PROVE  \E x \in ProposedRows(hs) : x.status = "supported" /\ x.consistent
  <2> DEFINE x == [hyp |-> r.hyp, status |-> StatusOf(r.verdict), consistent |-> TRUE]
  <2>1. x \in ProposedRows(hs)
    BY <1>3 DEF ProposedRows
  <2>2. x.status = "supported" /\ x.consistent
    BY <1>1
  <2> QED
    BY <2>1, <2>2
<1> QED
  BY <1>2, <1>3

(* The rows the board can hold are rows.                                   *)
LEMMA RowsType ==
  ASSUME NEW hs \in SUBSET Hyp, NEW rs \in SUBSET Result
  PROVE  /\ TestedRows(rs) \subseteq Row
         /\ rs = results => ProposedRows(hs) \subseteq Row
<1>1. \A r \in rs : /\ r.hyp \in Hyp /\ StatusOf(r.verdict) \in Status
                    /\ (r.verdict # "offProtocol") \in BOOLEAN
  BY DEF Result, Verdict, StatusOf, Status
<1>2. TestedRows(rs) \subseteq Row
  <2> SUFFICES ASSUME NEW r \in rs
               PROVE  [hyp |-> r.hyp, status |-> StatusOf(r.verdict),
                       consistent |-> r.verdict # "offProtocol"] \in Row
    BY Zenon DEF TestedRows
  <2> QED
    BY <1>1 DEF Row
<1>3. ASSUME rs = results PROVE ProposedRows(hs) \subseteq Row
  <2>1. \A r \in rs : [hyp |-> r.hyp, status |-> StatusOf(r.verdict),
                       consistent |-> TRUE] \in Row
    BY <1>1 DEF Row
  <2>2. \A h \in hs : [hyp |-> h, status |-> "proposed", consistent |-> TRUE] \in Row
    BY DEF Row, Status
  <2> QED
    BY <1>3, <2>1, <2>2, Zenon DEF ProposedRows
<1> QED
  BY <1>2, <1>3

-----------------------------------------------------------------------------
(* run_stats keeps the board's flag and the report's in step.              *)
LEMMA StatsStep ==
  ASSUME IInv, NEW c \in BOOLEAN, NEW valid \in BOOLEAN, RunStats(c, valid)
  PROVE  IInv'
<1>1. Control'
  BY TurnControl DEF RunStats, Dispatched, Tool, Stages
<1>2. TypeOK'
  BY <1>1 DEF RunStats, IInv, TypeOK, Control, post, Shown
<1>3. BoardAgrees'
  BY DEF RunStats, BoardAgrees, Shown
<1>4. PendingUntested' /\ TestedOnce' /\ DiscoveryKept' /\ FixServesVerified'
  BY DEF RunStats, IInv, post, PendingUntested, TestedOnce, DiscoveryKept,
         FixServesVerified, Tested, Verified, Supported
<1> QED
  BY <1>1, <1>2, <1>3, <1>4 DEF IInv, Control

(* A proposal adds untested objects and rebuilds the board.                *)
LEMMA ProposeStep ==
  ASSUME IInv, NEW valid \in BOOLEAN, Propose(valid)
  PROVE  IInv'
<1>1. Control'
  BY TurnControl DEF Propose, Dispatched, Tool, Stages
<1>2. UNCHANGED <<stats, results, shownConfirmatory, fix, proposer>>
  BY DEF Propose, post
<1>3. /\ proposed' \in SUBSET Hyp /\ pending' \in SUBSET proposed'
      /\ rows' \subseteq Row /\ diagnosisFailed' \in BOOLEAN /\ tokens' \in Nat
      /\ PendingUntested' /\ DiscoveryKept'
  <2>1. CASE UNCHANGED <<rows, proposed, pending, tokens>> /\ diagnosisFailed' = TRUE
    BY <1>2, <2>1 DEF IInv, TypeOK, PendingUntested, DiscoveryKept, Tested, Verified,
                      Supported
  <2>2. ASSUME NEW new \in SUBSET (Hyp \ proposed),
               diagnosisFailed' = FALSE, tokens' = tokens + 1,
               IF new = {}
               THEN UNCHANGED <<rows, proposed, pending>>
               ELSE /\ proposed' = proposed \cup new /\ pending' = new
                    /\ rows' = ProposedRows(proposed')
        PROVE  /\ proposed' \in SUBSET Hyp /\ pending' \in SUBSET proposed'
               /\ rows' \subseteq Row /\ diagnosisFailed' \in BOOLEAN /\ tokens' \in Nat
               /\ PendingUntested' /\ DiscoveryKept'
    <3>1. diagnosisFailed' \in BOOLEAN /\ tokens' \in Nat
      <4>1. tokens \in Nat
        BY DEF IInv, TypeOK
      <4>2. tokens' \in Nat
        <5>1. tokens' = tokens + 1
          BY ONLY <2>2
        <5> QED
          BY ONLY <4>1, <5>1
      <4>3. diagnosisFailed' \in BOOLEAN
        BY ONLY <2>2
      <4> QED
        BY <4>2, <4>3
    <3>2. CASE new = {}
      BY <1>2, <2>2, <3>1, <3>2 DEF IInv, TypeOK, PendingUntested, DiscoveryKept, Tested,
                                    Verified, Supported
    <3>3. CASE new # {}
      <4>1. /\ proposed' = proposed \cup new /\ pending' = new
            /\ rows' = ProposedRows(proposed')
        BY <2>2, <3>3
      <4>2. proposed' \in SUBSET Hyp /\ pending' \in SUBSET proposed'
        BY <4>1 DEF IInv, TypeOK
      <4>3. rows' \subseteq Row
        BY <4>1, <4>2, RowsType DEF IInv, TypeOK
      <4>4. PendingUntested'
        BY <1>2, <4>1 DEF IInv, PendingUntested, Tested
      <4>5. DiscoveryKept'
        <5>1. Verified' = Verified
          BY <1>2 DEF Verified
        <5>2. ASSUME Verified # {} PROVE Supported'
          <6>1. PICK r \in results : r.verdict = "verified"
            BY <5>2 DEF Verified
          <6> QED
            BY <4>1, <6>1, RowsShowVerified DEF Supported
        <5> QED
          BY <5>1, <5>2 DEF DiscoveryKept
      <4> QED
        BY <3>1, <4>2, <4>3, <4>4, <4>5
    <3> QED
      BY <3>2, <3>3
  <2> QED
    BY <2>1, <2>2 DEF Propose
<1>4. TypeOK'
  BY <1>1, <1>2, <1>3 DEF Propose, IInv, TypeOK, Control, post
<1>5. TestedOnce' /\ FixServesVerified' /\ BoardAgrees'
  BY <1>2 DEF IInv, TestedOnce, FixServesVerified, BoardAgrees, Verified
<1> QED
  BY <1>1, <1>3, <1>4, <1>5 DEF IInv, Control

(* A test scores exactly the pending objects, none of which had a result,  *)
(* and shows their verdicts on the board.                                  *)
LEMMA TestStep ==
  ASSUME IInv, NEW valid \in BOOLEAN, Test(valid)
  PROVE  IInv'
<1>1. Control'
  BY TurnControl DEF Test, Dispatched, Tool, Stages
<1>2. UNCHANGED <<probed, found, proposed, diagnosisFailed, tokens, post, declared>>
  BY DEF Test
<1>3. CASE pending = {}
  <2>1. UNCHANGED core
    BY <1>2, <1>3 DEF Test, core, post
  <2>2. TypeOK'
    BY <1>1, <1>2, <2>1 DEF IInv, TypeOK, Control, core, post
  <2> QED
    BY <1>1, <2>1, <2>2, CoreUnchanged DEF IInv, Control
<1>4. CASE pending # {}
  <2>1. PICK v \in [pending -> Verdict] :
          results' = results \cup
            {[hyp |-> h, verdict |-> v[h], round |-> calls["test_hypothesis"],
              on |-> TestData] : h \in pending}
    BY <1>4 DEF Test
  <2>2. /\ stats' = "confirmatory" /\ shownConfirmatory' = TRUE
        /\ pending' = {} /\ rows' = TestedRows(results')
    BY <1>4 DEF Test, Finalized, PendingAfter
  <2>3. \A r \in results' :
          \/ r \in results
          \/ r.hyp \in pending /\ r = [hyp |-> r.hyp, verdict |-> v[r.hyp],
                                       round |-> calls["test_hypothesis"], on |-> TestData]
    BY <2>1
  <2>4. results' \subseteq Result
    <3>1. calls["test_hypothesis"] \in Nat /\ pending \subseteq Hyp
      BY DEF IInv, TypeOK, Tool, Stages
    <3>2. TestData \in {"explore", "whole"}
      BY DEF TestData
    <3>3. \A h \in pending :
            [hyp |-> h, verdict |-> v[h], round |-> calls["test_hypothesis"],
             on |-> TestData] \in Result
      BY <3>1, <3>2 DEF Result
    <3>4. results \subseteq Result
      BY DEF IInv, TypeOK
    <3> QED
      BY <2>1, <3>3, <3>4, Zenon
  <2>5. Tested' \subseteq Tested \cup pending
    BY <2>3 DEF Tested
  <2>6. PendingUntested'
    BY <1>2, <2>2, <2>5 DEF IInv, TypeOK, PendingUntested
  <2>7. TestedOnce'
    <3> SUFFICES ASSUME NEW r \in results', NEW s \in results', r.hyp = s.hyp
                 PROVE  r = s
      BY DEF TestedOnce
    <3>1. \A x \in results : x.hyp \notin pending
      BY DEF IInv, PendingUntested, Tested
    <3>2. CASE r \in results /\ s \in results
      BY <3>2 DEF IInv, TestedOnce
    <3>3. CASE r \notin results \/ s \notin results
      <4>1. r \notin results /\ s \notin results
        BY <2>3, <3>1, <3>3
      <4> QED
        BY <2>3, <4>1
    <3> QED
      BY <3>2, <3>3
  <2>8. DiscoveryKept'
    <3> SUFFICES ASSUME Verified' # {} PROVE Supported'
      BY DEF DiscoveryKept
    <3>1. PICK r \in results' : r.verdict = "verified"
      BY DEF Verified
    <3> QED
      BY <2>2, <3>1, RowsShowVerified DEF Supported
  <2>9. FixServesVerified'
    <3>1. Verified \subseteq Verified'
      BY <2>1 DEF Verified
    <3> QED
      BY <1>2, <3>1 DEF IInv, FixServesVerified, post
  <2>10. BoardAgrees'
    BY <2>2 DEF BoardAgrees
  <2>11. rows' \subseteq Row
    <3>1. \A rs \in SUBSET Result : TestedRows(rs) \subseteq Row
      BY RowsType
    <3> QED
      BY <2>2, <2>4, <3>1
  <2>12. TypeOK'
    BY <1>1, <1>2, <2>2, <2>4, <2>11 DEF IInv, TypeOK, Control, post
  <2> QED
    BY <1>1, <2>6, <2>7, <2>8, <2>9, <2>10, <2>12 DEF IInv, Control
<1> QED
  BY <1>3, <1>4

(* The fix tool hands the proposer what best_hypotheses returns, whatever  *)
(* the board said.                                                         *)
LEMMA FixStep ==
  ASSUME IInv, NEW valid \in BOOLEAN, RunFix(valid)
  PROVE  IInv'
<1>1. Control'
  BY TurnControl DEF RunFix, Dispatched, Tool, Stages
<1>2. Verified \subseteq Hyp
  BY DEF IInv, TypeOK, Verified, Result
<1>3. fix' \in {"skipped", "fixed", "notFixed"} /\ gates' \in Nat /\ proposer' = Verified
  <2>1. gates \in Nat
    BY DEF IInv, TypeOK
  <2> QED
    BY <2>1 DEF RunFix, Accepted
<1>4. UNCHANGED <<board, state, surgery, declared>>
  BY DEF RunFix
<1>5. TypeOK'
  BY <1>1, <1>2, <1>3, <1>4 DEF IInv, TypeOK, Control, board, state
<1>6. FixServesVerified'
  <2>1. Verified' = Verified
    BY <1>4 DEF state, Verified
  <2>2. Verified = {} => fix' = "skipped"
    BY DEF RunFix, Accepted
  <2> QED
    BY <1>3, <2>1, <2>2 DEF FixServesVerified
<1>7. PendingUntested' /\ TestedOnce' /\ DiscoveryKept' /\ BoardAgrees'
  BY <1>4 DEF IInv, board, state, PendingUntested, TestedOnce, DiscoveryKept, BoardAgrees,
              Tested, Verified, Supported
<1> QED
  BY <1>1, <1>5, <1>6, <1>7 DEF IInv, Control

(* Leaving the loop, by a spent budget or an exception, changes no         *)
(* evidence.                                                               *)
LEMMA LeaveStep ==
  ASSUME IInv, BudgetStop \/ \E t \in Tool, valid \in BOOLEAN : Raise(t, valid)
  PROVE  IInv'
<1>1. UNCHANGED core /\ UNCHANGED <<calls, board, state, post, declared>>
  BY DEF BudgetStop, Raise, budget, board, state, post, core
<1>2. Control'
  <2>1. CASE BudgetStop
    BY <2>1 DEF BudgetStop, Finish, budget, IInv, TypeOK, StreakBelow, Control
  <2>2. ASSUME NEW t \in Tool, NEW valid \in BOOLEAN, Raise(t, valid)
        PROVE  Control'
    <3>1. Judged(t, valid) /\ Charge /\ pc' = "aborted" /\ UNCHANGED <<stoppedBy, calls>>
      BY <2>2 DEF Raise
    <3>2. streak' \in 0..MaxStreak /\ charged' \in Nat /\ actionsTaken' \in Nat
      BY <3>1, TurnType
    <3> QED
      BY <3>1, <3>2 DEF IInv, TypeOK, StreakBelow, Control
  <2> QED
    BY <2>1, <2>2
<1>3. TypeOK'
  BY <1>1, <1>2 DEF IInv, TypeOK, Control, board, state, post
<1> QED
  BY <1>1, <1>2, <1>3, CoreUnchanged DEF IInv, Control

(* Every step of the loop preserves the invariant.                         *)
LEMMA NextIInv ==
  ASSUME IInv, [Next]_vars PROVE IInv'
<1>1. CASE UNCHANGED vars
  BY <1>1, CoreUnchanged
  DEF vars, budget, board, state, post, core, IInv, TypeOK, StreakBelow
<1>2. ASSUME NEW valid \in BOOLEAN, NEW t \in Tool, Refuse(t, valid) PROVE IInv'
  <2>1. UNCHANGED <<core, found, diagnosisFailed, tokens, gates, probed, declared, surgery>>
    BY <1>2 DEF Refuse, core, board, state, post
  <2> QED
    BY <1>2, <2>1, QuietTurn DEF Refuse, IInv, TypeOK
<1>3. ASSUME NEW valid \in BOOLEAN, RunProbe(valid) PROVE IInv'
  <2>1. UNCHANGED <<core, found, diagnosisFailed, tokens, gates, declared, surgery>>
    BY <1>3 DEF RunProbe, core, state, post
  <2>2. "run_probe" \in Tool /\ Turn("run_probe", valid) /\ EndTurn /\ probed' \in BOOLEAN
    BY <1>3 DEF RunProbe, Dispatched, Tool, Stages, IInv, TypeOK
  <2> QED
    BY <2>1, <2>2, QuietTurn DEF IInv, TypeOK
<1>4. ASSUME NEW valid \in BOOLEAN, NEW t \in Gather, GatherMore(t, valid) PROVE IInv'
  <2>1. UNCHANGED <<core, found, diagnosisFailed, tokens, gates, probed, declared, surgery>>
    BY <1>4 DEF GatherMore, core, board, state, post
  <2>2. t \in Tool /\ Turn(t, valid) /\ EndTurn
    BY <1>4 DEF GatherMore, Dispatched, Tool
  <2> QED
    BY <2>1, <2>2, QuietTurn DEF IInv, TypeOK
<1>5. ASSUME NEW valid \in BOOLEAN, RunSurgery(valid) PROVE IInv'
  <2>1. UNCHANGED <<core, found, diagnosisFailed, tokens, gates, probed, declared>>
    BY <1>5 DEF RunSurgery, core, board, state
  <2>2. "run_surgery" \in Tool /\ Turn("run_surgery", valid) /\ EndTurn
    BY <1>5 DEF RunSurgery, Dispatched, Tool, Stages
  <2>3. Verified \subseteq Hyp
    BY DEF IInv, TypeOK, Verified, Result
  <2>4. surgery' \in [hyp : Hyp, verdict : {"refuted", "notRefuted"}] \cup {None}
    BY <1>5, <2>3 DEF RunSurgery
  <2> QED
    BY <2>1, <2>2, <2>4, QuietTurn DEF IInv, TypeOK
<1>6. ASSUME NEW valid \in BOOLEAN, NEW resolved \in BOOLEAN, Stop(resolved, valid)
      PROVE  IInv'
  <2>1. UNCHANGED <<core, found, diagnosisFailed, tokens, gates, probed, surgery>>
    BY <1>6 DEF Stop, core, board, state, post
  <2>2. "stop" \in Tool /\ Turn("stop", valid) /\ Finish("agent_stop")
        /\ declared' \in BOOLEAN
    BY <1>6 DEF Stop, Dispatched, Tool
  <2> QED
    BY <2>1, <2>2, QuietTurn DEF IInv, TypeOK
<1> QED
  BY <1>1, <1>2, <1>3, <1>4, <1>5, <1>6, StatsStep, ProposeStep, TestStep, FixStep, LeaveStep
  DEF Next
-----------------------------------------------------------------------------
(* The invariant holds in every reachable state.                           *)
THEOREM IInvAlways == Spec => []IInv
<1> QED
  BY InitIInv, NextIInv, PTL DEF Spec

(* Type correctness.                                                       *)
THEOREM TypeCorrect == Spec => []TypeOK
<1>1. IInv => TypeOK
  BY DEF IInv
<1> QED
  BY <1>1, IInvAlways, PTL

(* test_hypothesis scores every hypothesis object at most once.            *)
THEOREM OneTestEach == Spec => []TestedOnce
<1>1. IInv => TestedOnce
  BY DEF IInv
<1> QED
  BY <1>1, IInvAlways, PTL

(* The board never closes a precondition on a verified hypothesis.         *)
THEOREM BoardKeepsDiscoveries == Spec => []DiscoveryKept
<1>1. IInv => DiscoveryKept
  BY DEF IInv
<1> QED
  BY <1>1, IInvAlways, PTL

(* The fix tool never attempts a repair for anything M4 did not verify.    *)
THEOREM FixGated == Spec => []FixServesVerified
<1>1. IInv => FixServesVerified
  BY DEF IInv
<1> QED
  BY <1>1, IInvAlways, PTL

(* The e-BH flag on the board is the report's.                             *)
THEOREM BoardFlagAgrees == Spec => []BoardAgrees
<1>1. IInv => BoardAgrees
  BY DEF IInv
<1> QED
  BY <1>1, IInvAlways, PTL

(* A step that adds test results leaves adjudicated statistics behind.     *)
LEMMA ResultsAdjudicated ==
  ASSUME Next, results' # results PROVE stats' = "confirmatory"
<1>1. PICK valid \in BOOLEAN : Test(valid)
  BY DEF Next, Refuse, RunProbe, RunStats, GatherMore, Propose, RunSurgery, RunFix, Stop,
         Raise, BudgetStop, state
<1>2. pending # {}
  BY <1>1 DEF Test
<1> QED
  BY <1>1, <1>2 DEF Test, Finalized

(* M4 reads only statistics whose e-BH verdict is in.                      *)
THEOREM TestsOnAdjudicated == Spec => TestsAdjudicated
<1>1. [Next]_vars => [results' # results => stats' = "confirmatory"]_vars
  BY ResultsAdjudicated
<1> QED
  BY <1>1, PTL DEF Spec, TestsAdjudicated
-----------------------------------------------------------------------------
(* Every scoring on the final partition is a logged call of run_fix, which  *)
(* the dispatcher admits only below its limit.                              *)
GatesLogged == gates <= calls["run_fix"]

(* A logged call counts up to its tool's limit and never down.            *)
LEMMA LogGrows ==
  ASSUME TypeOK, NEW t \in Tool, Log(t)
  PROVE  /\ calls["run_fix"] \in Nat /\ calls'["run_fix"] >= calls["run_fix"]
         /\ t = "run_fix" /\ WithinLimit(t) => calls'[t] = calls[t] + 1
<1>1. calls \in [Tool -> Nat] /\ "run_fix" \in Tool
  BY DEF TypeOK, Tool, Stages
<1> QED
  BY <1>1 DEF Log, WithinLimit

(* Every step keeps the scorings within the logged calls of run_fix.      *)
LEMMA NextGates ==
  ASSUME IInv, GatesLogged, [Next]_vars PROVE GatesLogged'
<1>0. TypeOK /\ gates \in Nat /\ calls["run_fix"] \in Nat
  BY DEF IInv, TypeOK, Tool, Stages
<1>1. CASE UNCHANGED vars \/ BudgetStop
  BY <1>1 DEF vars, BudgetStop, budget, post, GatesLogged
<1>2. ASSUME NEW t \in Tool, Log(t), UNCHANGED gates
      PROVE  GatesLogged'
  <2>1. calls'["run_fix"] >= calls["run_fix"] /\ calls'["run_fix"] \in Nat
    <3>1. calls'["run_fix"] \in Nat
      BY <1>2 DEF IInv, TypeOK, Log, Tool, Stages
    <3> QED
      BY <1>0, <1>2, <3>1, LogGrows
  <2> QED
    BY <1>0, <1>2, <2>1 DEF GatesLogged
<1>3. ASSUME NEW valid \in BOOLEAN, NEW t \in Tool, Refuse(t, valid)
      PROVE  GatesLogged'
  BY <1>2, <1>3 DEF Refuse, Turn, post
<1>4. ASSUME NEW valid \in BOOLEAN,
             \/ RunProbe(valid) \/ (\E c \in BOOLEAN : RunStats(c, valid))
             \/ Propose(valid) \/ Test(valid) \/ RunSurgery(valid)
             \/ (\E t \in Gather : GatherMore(t, valid))
             \/ (\E resolved \in BOOLEAN : Stop(resolved, valid))
      PROVE  GatesLogged'
  <2>1. UNCHANGED gates /\ \E t \in Tool : Log(t)
    BY <1>4 DEF RunProbe, RunStats, Propose, Test, RunSurgery, GatherMore, Stop,
       Dispatched, Turn, post, Tool, Stages
  <2> QED
    BY <1>2, <2>1
<1>5. ASSUME NEW valid \in BOOLEAN, RunFix(valid)
      PROVE  GatesLogged'
  <2>1. "run_fix" \in Tool /\ Log("run_fix") /\ WithinLimit("run_fix")
    BY <1>5 DEF RunFix, Dispatched, Turn, Tool, Stages
  <2>2. calls'["run_fix"] = calls["run_fix"] + 1
    BY <1>0, <2>1, LogGrows
  <2>3. gates' = gates \/ gates' = gates + 1
    BY <1>5 DEF RunFix
  <2> QED
    BY <1>0, <2>2, <2>3 DEF GatesLogged
<1>6. ASSUME NEW valid \in BOOLEAN, NEW t \in Tool, Raise(t, valid)
      PROVE  GatesLogged'
  BY <1>6 DEF Raise, post, GatesLogged
<1> QED
  BY <1>1, <1>3, <1>4, <1>5, <1>6 DEF Next

(* run_fix is registered with max_calls=1 (tools.py): then a run scores at  *)
(* most one repair on the final partition, refused calls included.          *)
THEOREM OneFinalScore ==
  ASSUME Quota["run_fix"] = 1 PROVE Spec => []FinalScoredOnce
<1>1. Init => GatesLogged
  BY DEF Init, GatesLogged, Tool, Stages
<1>2. IInv /\ GatesLogged /\ [Next]_vars => GatesLogged'
  BY NextGates
<1>3. IInv /\ GatesLogged => FinalScoredOnce
  <2> SUFFICES ASSUME IInv, GatesLogged PROVE FinalScoredOnce
    OBVIOUS
  <2>1. "run_fix" \in Tool /\ gates \in Nat /\ calls["run_fix"] \in Nat
    BY DEF IInv, TypeOK, Tool, Stages
  <2>2. calls["run_fix"] <= 1
    BY <2>1 DEF IInv, TypeOK
  <2> QED
    BY <2>1, <2>2 DEF GatesLogged, FinalScoredOnce
<1> QED
  BY <1>1, <1>2, <1>3, IInvAlways, PTL DEF Spec
-----------------------------------------------------------------------------
(* What one step of the loop costs: it leaves the loop, or it is a turn    *)
(* taken below every budget.                                               *)
LEMMA StepsAreTurns ==
  ASSUME Next
  PROVE  /\ pc = "running"
         /\ \/ pc' # "running" /\ UNCHANGED actionsTaken
            \/ ~ Exhausted /\ actionsTaken' = actionsTaken + 1
<1>1. CASE BudgetStop
  BY <1>1 DEF BudgetStop, Finish, budget
<1>2. ASSUME NEW valid \in BOOLEAN, NEW t \in Tool, Judged(t, valid), Charge
      PROVE  pc = "running" /\ ~ Exhausted /\ actionsTaken' = actionsTaken + 1
  BY <1>2 DEF Judged, Charge
<1>3. ASSUME NEW valid \in BOOLEAN, NEW t \in Tool,
             Turn(t, valid) \/ Raise(t, valid)
      PROVE  pc = "running" /\ ~ Exhausted /\ actionsTaken' = actionsTaken + 1
  BY <1>2, <1>3 DEF Turn, Raise
<1>4. CASE \E valid \in BOOLEAN, t \in Tool : Turn(t, valid) \/ Raise(t, valid)
  BY <1>3, <1>4
<1>5. Next => BudgetStop \/ \E valid \in BOOLEAN, t \in Tool : Turn(t, valid) \/ Raise(t, valid)
  BY DEF Next, Refuse, RunProbe, RunStats, GatherMore, Propose, Test, RunSurgery, RunFix, Stop,
     Dispatched, Tool, Stages
<1> QED
  BY <1>1, <1>4, <1>5

(* The turns a capped run may still take, its exit included.               *)
TurnsLeft == IF pc = "running" THEN MaxActions - actionsTaken + 1 ELSE 0

WithinCap == MaxActions > 0 => actionsTaken <= MaxActions

NoFreeTurn == [][TurnsLeft' < TurnsLeft]_vars

(* The safety half of Terminates: under max_actions no turn is free -- not *)
(* a refused call, a repaired answer, an exception -- so no run of any     *)
(* judge takes more than max_actions turns and one more step.              *)
THEOREM TurnsAreFinite ==
  ASSUME MaxActions > 0
  PROVE  Spec => [](TurnsLeft \in 0 .. MaxActions + 1) /\ NoFreeTurn
<1>0. MaxActions \in Nat
  BY LimitAssumption
<1>1. Init => WithinCap
  BY <1>0 DEF Init, WithinCap
<1>2. ASSUME IInv, WithinCap, Next
      PROVE  WithinCap' /\ TurnsLeft' < TurnsLeft
  <2>1. /\ pc = "running" /\ actionsTaken \in Nat /\ actionsTaken <= MaxActions
        /\ \/ pc' # "running" /\ actionsTaken' = actionsTaken
           \/ actionsTaken < MaxActions /\ actionsTaken' = actionsTaken + 1
    BY <1>0, <1>2, StepsAreTurns DEF IInv, TypeOK, WithinCap, Exhausted
  <2> QED
    BY <1>0, <2>1 DEF WithinCap, TurnsLeft
<1>3. IInv /\ WithinCap /\ [Next]_vars => WithinCap'
  BY <1>2 DEF vars, budget, WithinCap
<1>4. IInv /\ WithinCap => TurnsLeft \in 0 .. MaxActions + 1
  BY <1>0 DEF IInv, TypeOK, WithinCap, TurnsLeft
<1>5. IInv /\ WithinCap /\ [Next]_vars => [TurnsLeft' < TurnsLeft]_vars
  BY <1>2
<1> QED
  BY <1>1, <1>3, <1>4, <1>5, IInvAlways, PTL DEF Spec, NoFreeTurn
-----------------------------------------------------------------------------
(* What the board knows.  A row shown as supported comes from a test that  *)
(* could be read as support; declared success was supported when declared. *)
Backing    == {"verified", "offProtocol"}
RowsBacked == \A x \in rows : x.status = "supported" =>
                \E s \in results : s.hyp = x.hyp /\ s.verdict \in Backing
RowsTrue   == \A x \in rows : x.status = "supported" /\ x.consistent => x.hyp \in Verified
DeclaredSupported == declared => pc # "running" /\ Supported

(* The rows of a rebuilt board are backed; those of a test are also true.  *)
LEMMA RebuiltRows ==
  ASSUME NEW rs \in SUBSET Result, NEW hs
  PROVE  /\ \A x \in TestedRows(rs) : x.status = "supported" =>
              \E s \in rs : s.hyp = x.hyp /\ s.verdict \in Backing
         /\ \A x \in TestedRows(rs) : x.status = "supported" /\ x.consistent =>
              \E s \in rs : s.hyp = x.hyp /\ s.verdict = "verified"
         /\ rs = results =>
              \A x \in ProposedRows(hs) : x.status = "supported" =>
                \E s \in rs : s.hyp = x.hyp /\ s.verdict \in Backing
<1>1. \A r \in rs : StatusOf(r.verdict) = "supported" => r.verdict \in Backing
  BY DEF StatusOf, Backing, Result, Verdict
<1>2. ASSUME rs = results, NEW x \in ProposedRows(hs), x.status = "supported"
      PROVE  \E s \in rs : s.hyp = x.hyp /\ s.verdict \in Backing
  <2>1. \E r \in rs : x.hyp = r.hyp /\ x.status = StatusOf(r.verdict)
    BY <1>2 DEF ProposedRows
  <2> QED BY <1>1, <1>2, <2>1
<1>3. \A x \in TestedRows(rs) : \E r \in rs :
        /\ x.hyp = r.hyp /\ x.status = StatusOf(r.verdict)
        /\ x.consistent = (r.verdict # "offProtocol")
  BY DEF TestedRows
<1>4. \A x \in TestedRows(rs) : x.status = "supported" =>
        \E s \in rs : s.hyp = x.hyp /\ s.verdict \in Backing
  BY <1>1, <1>3
<1>5. ASSUME NEW x \in TestedRows(rs), x.status = "supported", x.consistent
      PROVE  \E s \in rs : s.hyp = x.hyp /\ s.verdict = "verified"
  <2>1. PICK r \in rs : /\ x.hyp = r.hyp /\ x.status = StatusOf(r.verdict)
                        /\ x.consistent = (r.verdict # "offProtocol")
    BY <1>3, <1>5
  <2>2. r.verdict \in Backing /\ r.verdict # "offProtocol"
    BY <1>1, <1>5, <2>1
  <2> QED BY <2>1, <2>2 DEF Backing
<1> QED BY <1>2, <1>4, <1>5

(* Only a proposal and a test rebuild the board; only a test adds results, *)
(* and only stop declares.                                                 *)
LEMMA WhoWrites ==
  ASSUME Next
  PROVE  \/ UNCHANGED <<rows, results, declared>>
         \/ UNCHANGED <<rows, results>> /\ pc' = "done" /\ (declared' => Supported)
         \/ /\ \E valid \in BOOLEAN : Propose(valid)
            /\ rows' = ProposedRows(proposed') /\ UNCHANGED <<results, declared>>
         \/ /\ results \subseteq results' /\ rows' = TestedRows(results')
            /\ UNCHANGED declared
<1>1. ASSUME NEW valid \in BOOLEAN, Test(valid)
      PROVE  \/ UNCHANGED <<rows, results, declared>>
             \/ results \subseteq results' /\ rows' = TestedRows(results') /\ UNCHANGED declared
  BY <1>1 DEF Test
<1>2. ASSUME NEW valid \in BOOLEAN, Propose(valid)
      PROVE  \/ UNCHANGED <<rows, results, declared>>
             \/ rows' = ProposedRows(proposed') /\ UNCHANGED <<results, declared>>
  BY <1>2 DEF Propose
<1>3. ASSUME NEW valid \in BOOLEAN, NEW resolved \in BOOLEAN, Stop(resolved, valid)
      PROVE  UNCHANGED <<rows, results>> /\ pc' = "done" /\ (declared' => Supported)
  BY <1>3 DEF Stop, board, state, Finish
<1>4. ASSUME \/ \E valid \in BOOLEAN :
                  \/ \E t \in Tool : Refuse(t, valid)
                  \/ RunProbe(valid)
                  \/ \E c \in BOOLEAN : RunStats(c, valid)
                  \/ \E t \in Gather : GatherMore(t, valid)
                  \/ RunSurgery(valid)
                  \/ RunFix(valid)
                  \/ \E t \in Tool \ {"propose_hypotheses", "stop"} : Raise(t, valid)
             \/ BudgetStop
      PROVE  UNCHANGED <<rows, results, declared>>
  BY <1>4 DEF Refuse, RunProbe, RunStats, GatherMore, RunSurgery, RunFix, Raise, BudgetStop,
              board, state
<1>5. CASE \E valid \in BOOLEAN : Test(valid)
  BY <1>1, <1>5
<1>6. CASE \E valid \in BOOLEAN : Propose(valid)
  BY <1>2, <1>6
<1>7. CASE \E valid \in BOOLEAN, resolved \in BOOLEAN : Stop(resolved, valid)
  BY <1>3, <1>7
<1> QED
  BY <1>4, <1>5, <1>6, <1>7, Zenon DEF Next

(* The board stays backed and a declaration supported.                     *)
LEMMA NextBacked ==
  ASSUME IInv, IInv', RowsBacked, DeclaredSupported, [Next]_vars
  PROVE  RowsBacked' /\ DeclaredSupported'
<1>1. CASE UNCHANGED vars
  BY <1>1 DEF vars, board, state, RowsBacked, DeclaredSupported, Supported
<1>2. CASE Next
  <2>1. ~ declared
    BY <1>2, StepsAreTurns DEF DeclaredSupported
  <2>2. CASE UNCHANGED <<rows, results, declared>>
    BY <2>1, <2>2 DEF RowsBacked, DeclaredSupported
  <2>3. CASE UNCHANGED <<rows, results>> /\ pc' = "done" /\ (declared' => Supported)
    BY <2>3 DEF RowsBacked, DeclaredSupported, Supported
  <2>4. CASE rows' = ProposedRows(proposed') /\ UNCHANGED <<results, declared>>
    <3>1. results \in SUBSET Result
      BY DEF IInv, TypeOK
    <3> QED BY <2>1, <2>4, <3>1, RebuiltRows DEF RowsBacked, DeclaredSupported
  <2>5. CASE rows' = TestedRows(results') /\ UNCHANGED declared
    <3>1. results' \in SUBSET Result
      BY DEF IInv, TypeOK
    <3> QED BY <2>1, <2>5, <3>1, RebuiltRows DEF RowsBacked, DeclaredSupported
  <2> QED BY <1>2, <2>2, <2>3, <2>4, <2>5, WhoWrites
<1> QED BY <1>1, <1>2

(* The board and the declaration in every reachable state.                 *)
LEMMA BackedAlways == Spec => [](RowsBacked /\ DeclaredSupported)
<1>1. Init => RowsBacked /\ DeclaredSupported
  BY DEF Init, RowsBacked, DeclaredSupported
<1> QED BY <1>1, NextBacked, IInvAlways, PTL DEF Spec

(* The part of loop.py's promise about success that does hold: whatever    *)
(* the judge answers and however often the board is rebuilt, success is    *)
(* never declared before M4 has found support for some hypothesis.         *)
SuccessWasTested == declared => \E s \in results : s.verdict \in Backing

(* Success rests on a test, for every judge and every call limit.          *)
THEOREM SuccessRestsOnATest == Spec => []SuccessWasTested
<1>1. RowsBacked /\ DeclaredSupported => SuccessWasTested
  BY DEF RowsBacked, DeclaredSupported, Supported, SuccessWasTested
<1> QED BY <1>1, BackedAlways, PTL

(* The bound of the finding: the board of a run is true until a proposal   *)
(* rebuilds it -- no other tool makes it show support that is not verified *)
(* -- and a true board never lets an unverified success through.           *)
OnlyProposalsForget ==
  [][RowsTrue /\ ~ RowsTrue' => \E valid \in BOOLEAN : Propose(valid)]_vars
TrueBoardsSuffice == RowsTrue => SuccessIsVerified

(* SuccessIsVerified fails only by way of propose_hypotheses.              *)
THEOREM ForgottenByProposals ==
  /\ Init => RowsTrue
  /\ Spec => OnlyProposalsForget /\ []TrueBoardsSuffice
<1>1. Init => RowsTrue
  BY DEF Init, RowsTrue
<1>2. DeclaredSupported => TrueBoardsSuffice
  BY DEF DeclaredSupported, TrueBoardsSuffice, Supported, RowsTrue, SuccessIsVerified
<1>3. ASSUME IInv', Next, RowsTrue, ~ RowsTrue'
      PROVE  \E valid \in BOOLEAN : Propose(valid)
  <2>1. ASSUME UNCHANGED <<rows, results>> PROVE FALSE
    BY <1>3, <2>1 DEF RowsTrue, Verified
  <2>2. ASSUME rows' = TestedRows(results') PROVE FALSE
    <3>1. results' \in SUBSET Result
      BY <1>3 DEF IInv, TypeOK
    <3> QED BY <1>3, <2>2, <3>1, RebuiltRows DEF RowsTrue, Verified
  <2> QED BY <1>3, <2>1, <2>2, WhoWrites
<1>4. IInv' /\ [Next]_vars =>
        [RowsTrue /\ ~ RowsTrue' => \E valid \in BOOLEAN : Propose(valid)]_vars
  BY <1>3
<1> QED
  BY <1>1, <1>2, <1>4, BackedAlways, IInvAlways, PTL DEF Spec, OnlyProposalsForget
=============================================================================
