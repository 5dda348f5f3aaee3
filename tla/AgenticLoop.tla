----------------------------- MODULE AgenticLoop -----------------------------
(***************************************************************************)
(* AgenticDiagnoseLoop.run: a judge picks one tool a turn -- probe, stats, *)
(* propose, test, surgery, fix, stop -- and the host, not the judge, keeps *)
(* the discipline: call limits, preconditions read off the evidence board, *)
(* and no declared success without a supported hypothesis.                 *)
(*                                                                         *)
(* The board is what the judge and the preconditions see; the run state    *)
(* (_RunState) is what the stages wrote.  They are separate variables here *)
(* because they can disagree.  A hypothesis is one object M3 returned:     *)
(* each proposal makes new ones.                                           *)
(***************************************************************************)
EXTENDS Integers, FiniteSets

CONSTANTS Hyp,          \* the hypothesis objects M3 may return in a run
          Gather,       \* the registered tools that only add evidence for M3
          Quota,        \* max_calls of each registered ToolSpec
          None,         \* Python's None
          MaxActions,   \* max_actions; 0 is unlimited
          MaxStreak,    \* _MAX_INVALID_STREAK
          TokenBudget,  \* token_budget, in M3 answers; 0 is unlimited
          TimeBudget,   \* whether a time budget is set
          HeldOut       \* whether the batch was split (confirm_split, m4_holdout)

Stages == {"run_probe", "run_stats", "propose_hypotheses", "test_hypothesis",
           "run_surgery", "run_fix"}
Tool   == Stages \cup Gather \cup {"stop"}

ASSUME GatherAssumption ==
  Gather \subseteq {"explore_data", "cluster_failures", "search_probes"}
ASSUME LimitAssumption ==
  /\ {MaxActions, MaxStreak, TokenBudget} \subseteq Nat /\ MaxStreak > 0
  /\ TimeBudget \in BOOLEAN /\ HeldOut \in BOOLEAN
  /\ Quota \in [Tool -> Nat \ {0}]

VARIABLES
  pc, stoppedBy,            \* the while loop; report.stopped_by
  actionsTaken, tokens,     \* BudgetState.actions_taken; the loop's _tokens_used
  charged,                  \* BudgetState.tokens_used
  streak,                   \* invalid_streak
  calls,                    \* calls_made(tool), counted up to the tool's limit
  probed, found,            \* board: probe_findings, stats_findings are non-empty
  shownConfirmatory,        \* board.stats_confirmatory
  rows,                     \* board.hypotheses
  stats,                    \* state.stats_report: None, descriptive or confirmatory
  proposed, pending,        \* all_hypotheses, pending_hypotheses
  results,                  \* all_test_results
  diagnosisFailed,          \* state.diagnosis_failed
  surgery,                  \* state.surgery_outcome: hypothesis and verdict
  fix, proposer,            \* state.fix_outcome; the hypotheses its proposer was given
  gates,                    \* how often a repair was scored on the final partition
  declared                  \* the judge's stop(resolved=True) was accepted

budget == <<actionsTaken, charged, streak, calls>>
board  == <<probed, found, shownConfirmatory, rows>>
state  == <<stats, proposed, pending, results, diagnosisFailed, tokens>>
post   == <<surgery, fix, proposer, gates>>
vars   == <<pc, stoppedBy, budget, board, state, post, declared>>

Verdict == {"verified", "offProtocol", "inconclusive", "refuted"}
Status  == {"proposed", "supported", "inconclusive", "refuted"}
Row     == [hyp : Hyp, status : Status, consistent : BOOLEAN]
Result  == [hyp : Hyp, verdict : Verdict, round : Nat, on : {"explore", "whole"}]

Init ==
  /\ pc = "running" /\ stoppedBy = None
  /\ actionsTaken = 0 /\ tokens = 0 /\ charged = 0 /\ streak = 0
  /\ calls = [t \in Tool |-> 0]
  /\ probed = FALSE /\ found = FALSE /\ shownConfirmatory = FALSE /\ rows = {}
  /\ stats = None /\ proposed = {} /\ pending = {} /\ results = {}
  /\ diagnosisFailed = FALSE /\ surgery = None
  /\ fix = None /\ proposer = {} /\ gates = 0 /\ declared = FALSE

-----------------------------------------------------------------------------
(* The report's view: best_hypotheses over the test results.               *)
Tested   == {r.hyp : r \in results}
Verified == {r.hyp : r \in {s \in results : s.verdict = "verified"}}

(* The board's view: has_supported_hypothesis.  A row without a            *)
(* consistency flag counts as consistent.                                  *)
Supported == \E r \in rows : r.status = "supported" /\ r.consistent

StatusOf(v) == IF v \in {"verified", "offProtocol"} THEN "supported" ELSE v

(* board.hypotheses as propose_hypotheses rebuilds it, from the objects'   *)
(* statuses and without their consistency, and as test_hypothesis does.    *)
ProposedRowsMutant(hs) == {[hyp |-> h, status |-> "proposed", consistent |-> TRUE] :
                             h \in hs \ Tested}
ProposedRows(hs) ==
  {[hyp |-> h, status |-> "proposed", consistent |-> TRUE] : h \in hs \ Tested}
    \cup {[hyp |-> r.hyp, status |-> StatusOf(r.verdict), consistent |-> TRUE] : r \in results}
TestedRows(rs) ==
  {[hyp |-> r.hyp, status |-> StatusOf(r.verdict),
    consistent |-> r.verdict # "offProtocol"] : r \in rs}

-----------------------------------------------------------------------------
(* One turn: exhausted() is false, the judge answers, the host counts.     *)
(* What the judge answers is free; an answer no repair could salvage is    *)
(* replaced by the first unmet stage and counts as invalid.                *)
Exhausted == \/ MaxActions > 0 /\ actionsTaken >= MaxActions
             \/ TokenBudget > 0 /\ charged >= TokenBudget

Fallback == IF ~probed THEN "run_probe"
            ELSE IF ~found THEN "run_stats"
            ELSE IF rows = {} THEN "propose_hypotheses"
            ELSE IF ~Supported THEN "test_hypothesis"
            ELSE "stop"

Judged(t, valid) ==
  /\ pc = "running" /\ ~Exhausted
  /\ valid \/ t = Fallback
  /\ streak' = IF valid THEN 0 ELSE streak + 1
  /\ UNCHANGED charged
Charge    == actionsTaken' = actionsTaken + 1
Log(t)    == calls' = [calls EXCEPT ![t] = IF @ < Quota[t] THEN @ + 1 ELSE @]
Turn(t, valid) == Judged(t, valid) /\ Charge /\ Log(t)

(* The report is built on the way out; a failed diagnosis renames the end. *)
Finish(reason) ==
  /\ pc' = "done"
  /\ stoppedBy' = IF diagnosisFailed' THEN "diagnosis_error" ELSE reason
EndTurnMutant == IF streak' > MaxStreak THEN Finish("invalid_actions")
                                        ELSE UNCHANGED <<pc, stoppedBy>>
EndTurn       == IF streak' >= MaxStreak THEN Finish("invalid_actions")
                                         ELSE UNCHANGED <<pc, stoppedBy>>

(* dispatch: the call limit, then the preconditions, in that order.        *)
WithinLimitMutant(t) == calls[t] <= Quota[t]
WithinLimit(t)       == calls[t] < Quota[t]
Ready(t) ==
  CASE t \in {"run_stats", "explore_data", "cluster_failures"} -> probed
    [] t = "propose_hypotheses"                                -> found
    [] t = "test_hypothesis"                                   -> rows # {}
    [] t \in {"run_surgery", "run_fix"}                        -> Supported
    [] OTHER                                                   -> TRUE
Dispatched(t, valid) == Turn(t, valid) /\ WithinLimit(t) /\ Ready(t)

(* A refused call is logged like any other: it costs a turn and a call.    *)
Refusal(t) == \/ ~WithinLimit(t) \/ ~Ready(t)
              \/ t = "stop" /\ ~Supported
RefuseMutant(t, valid) ==
  /\ Refusal(t) /\ Judged(t, valid) /\ Log(t) /\ UNCHANGED actionsTaken
  /\ UNCHANGED <<board, state, post, declared>> /\ EndTurn
Refuse(t, valid) ==
  /\ Refusal(t) /\ Turn(t, valid)
  /\ UNCHANGED <<board, state, post, declared>> /\ EndTurn

-----------------------------------------------------------------------------
(* M1: an empty pass leaves the earlier probe results in place.            *)
RunProbe(valid) ==
  /\ Dispatched("run_probe", valid)
  /\ probed' \in {probed, TRUE}
  /\ UNCHANGED <<found, shownConfirmatory, rows, state, post, declared>> /\ EndTurn

(* M2: the judge chooses whether the e-BH verdict is deferred; the report  *)
(* may hold no result rows.                                                *)
ShownMutant(confirmatory) == shownConfirmatory \/ confirmatory
Shown(confirmatory)       == confirmatory
RunStats(confirmatory, valid) ==
  /\ Dispatched("run_stats", valid)
  /\ valid \/ confirmatory
  /\ stats' = IF confirmatory THEN "confirmatory" ELSE "descriptive"
  /\ found' \in BOOLEAN
  /\ shownConfirmatory' = Shown(confirmatory)
  /\ UNCHANGED <<probed, rows, proposed, pending, results, diagnosisFailed, tokens,
                 post, declared>>
  /\ EndTurn

(* explore_data, cluster_failures, search_probes: context for M3 and the   *)
(* judge; no other tool's control reads what they leave.                   *)
GatherMore(t, valid) ==
  /\ Dispatched(t, valid)
  /\ UNCHANGED <<board, state, post, declared>> /\ EndTurn

(* M3 in _do_m3's bounded retries: it fails, answers nothing, or answers   *)
(* with new hypotheses, which become the ones test_hypothesis will take.   *)
Propose(valid) ==
  /\ Dispatched("propose_hypotheses", valid)
  /\ \/ /\ diagnosisFailed' = TRUE
        /\ UNCHANGED <<rows, proposed, pending, tokens>>
     \/ \E new \in SUBSET (Hyp \ proposed) :
          /\ diagnosisFailed' = FALSE /\ tokens' = tokens + 1
          /\ IF new = {}
             THEN UNCHANGED <<rows, proposed, pending>>
             ELSE /\ proposed' = proposed \cup new /\ pending' = new
                  /\ rows' = ProposedRows(proposed')
  /\ UNCHANGED <<probed, found, shownConfirmatory, stats, results, post, declared>>
  /\ EndTurn

(* M4 on state.data -- EXPLORE when the batch was split -- after           *)
(* _finalize_confirmatory_stats.                                           *)
FinalizedMutant == stats
Finalized       == "confirmatory"
PendingAfterMutant == pending
PendingAfter       == {}
TestData == IF HeldOut THEN "explore" ELSE "whole"
Test(valid) ==
  /\ Dispatched("test_hypothesis", valid)
  /\ IF pending = {}
     THEN UNCHANGED <<shownConfirmatory, rows, stats, pending, results>>
     ELSE /\ stats' = Finalized /\ shownConfirmatory' = TRUE
          /\ \E v \in [pending -> Verdict] :
               results' = results \cup
                 {[hyp |-> h, verdict |-> v[h], round |-> calls["test_hypothesis"],
                   on |-> TestData] : h \in pending}
          /\ pending' = PendingAfter /\ rows' = TestedRows(results')
  /\ UNCHANGED <<probed, found, proposed, diagnosisFailed, tokens, post, declared>>
  /\ EndTurn

(* run_surgery and run_fix act on a report built afresh from the results,  *)
(* which carries no earlier fix_proposal.                                  *)
RunSurgery(valid) ==
  /\ Dispatched("run_surgery", valid)
  /\ IF Verified = {}
     THEN surgery' = None
     ELSE \E h \in Verified, v \in {"refuted", "notRefuted"} :
            surgery' = [hyp |-> h, verdict |-> v]
  /\ UNCHANGED <<board, state, fix, proposer, gates, declared>> /\ EndTurn

AcceptedMutant == {r.hyp : r \in {s \in rows : s.status = "supported" /\ s.consistent}}
Accepted       == Verified
RunFix(valid) ==
  /\ Dispatched("run_fix", valid)
  /\ proposer' = Accepted
  /\ IF Accepted = {}
     THEN fix' = "skipped" /\ UNCHANGED gates
     ELSE \/ fix' = "notFixed" /\ UNCHANGED gates
          \/ fix' \in {"fixed", "notFixed"} /\ gates' = gates + 1
  /\ UNCHANGED <<board, state, surgery, declared>> /\ EndTurn

(* stop(resolved): the fallback always declares success.                   *)
Stop(resolved, valid) ==
  /\ Dispatched("stop", valid)
  /\ valid \/ resolved
  /\ resolved => Supported
  /\ declared' = resolved
  /\ UNCHANGED <<board, state, post>> /\ Finish("agent_stop")

(* The head of the loop finds a budget spent.                              *)
BudgetStop ==
  /\ pc = "running"
  /\ Exhausted \/ TimeBudget
  /\ UNCHANGED <<budget, board, state, post, declared>>
  /\ IF MaxActions > 0 /\ actionsTaken >= MaxActions THEN Finish("max_actions")
     ELSE IF TokenBudget > 0 /\ charged >= TokenBudget THEN Finish("budget")
     ELSE Finish("time_budget")

(* A stage other than M3 may raise: the exception leaves run() without a   *)
(* report and before the action is logged.                                 *)
Raise(t, valid) ==
  /\ Judged(t, valid) /\ Charge /\ WithinLimit(t) /\ Ready(t)
  /\ t = "test_hypothesis" => pending # {}
  /\ t \in {"run_surgery", "run_fix"} => Verified # {}
  /\ pc' = "aborted"
  /\ UNCHANGED <<stoppedBy, calls, board, state, post, declared>>

Next ==
  \/ \E valid \in BOOLEAN :
       \/ \E t \in Tool : Refuse(t, valid)
       \/ RunProbe(valid)
       \/ \E c \in BOOLEAN : RunStats(c, valid)
       \/ \E t \in Gather : GatherMore(t, valid)
       \/ Propose(valid)
       \/ Test(valid)
       \/ RunSurgery(valid)
       \/ RunFix(valid)
       \/ \E resolved \in BOOLEAN : Stop(resolved, valid)
       \/ \E t \in Tool \ {"propose_hypotheses", "stop"} : Raise(t, valid)
  \/ BudgetStop

(* The while loop is one thread that always comes to its next turn: the    *)
(* judge's answer, an error or a fallback.                                 *)
Spec == Init /\ [][Next]_vars /\ WF_vars(Next)
-----------------------------------------------------------------------------
(* Every variable holds a value its counterpart in the code can hold.      *)
TypeOK ==
  /\ pc \in {"running", "done", "aborted"}
  /\ stoppedBy \in {None, "max_actions", "budget", "time_budget", "agent_stop",
                    "invalid_actions", "diagnosis_error"}
  /\ {actionsTaken, tokens, charged, gates} \subseteq Nat /\ streak \in 0..MaxStreak
  /\ calls \in [Tool -> Nat] /\ \A t \in Tool : calls[t] <= Quota[t]
  /\ probed \in BOOLEAN /\ found \in BOOLEAN /\ shownConfirmatory \in BOOLEAN
  /\ rows \subseteq Row /\ results \subseteq Result
  /\ stats \in {None, "descriptive", "confirmatory"}
  /\ proposed \in SUBSET Hyp /\ pending \in SUBSET proposed
  /\ diagnosisFailed \in BOOLEAN /\ declared \in BOOLEAN
  /\ surgery \in [hyp : Hyp, verdict : {"refuted", "notRefuted"}] \cup {None}
  /\ fix \in {None, "skipped", "fixed", "notFixed"} /\ proposer \in SUBSET Hyp

(* A hypothesis faces one confirmatory test: however proposals, tests and  *)
(* refused calls interleave, M4 never scores the same object again until   *)
(* it passes.                                                              *)
TestedOnce == \A r, s \in results : r.hyp = s.hyp => r = s

(* The board never hides a discovery: once a hypothesis is verified, the   *)
(* preconditions of surgery, fix and a successful stop stay open, whatever *)
(* is proposed or tested afterwards.                                       *)
DiscoveryKept == Verified # {} => Supported

(* run_fix's evidence gate holds although the tool's precondition is read  *)
(* off the board: no repair is attempted but for M4-verified hypotheses.   *)
FixServesVerified ==
  fix \notin {None, "skipped"} => proposer # {} /\ proposer \subseteq Verified

(* The e-BH flag the judge sees agrees with the report M4 will read.       *)
BoardAgrees == stats # None => (shownConfirmatory <=> stats = "confirmatory")

(* M4 never reads statistics whose e-BH verdict was deferred, even when    *)
(* the judge asked for a descriptive pass after an adjudicated one.        *)
TestsAdjudicated == [][results' # results => stats' = "confirmatory"]_vars

(* One run scores at most one repair on the final partition.               *)
FinalScoredOnce == gates <= 1

(* Under a cap on actions every run ends, however useless the judge's      *)
(* answers and however many calls are refused.                             *)
Terminates == MaxActions > 0 => <>(pc # "running")

(* loop.py and the stop tool's description: success is declared only for a *)
(* hypothesis tested, supported and protocol-consistent.  The board        *)
(* forgets inconsistency when it is rebuilt after a new proposal.          *)
SuccessIsVerified == declared => Verified # {}
=============================================================================
