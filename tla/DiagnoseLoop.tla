---------------------------- MODULE DiagnoseLoop ----------------------------
(***************************************************************************)
(* VLDiagnoseLoop: one session of public calls -- run, run_analysis,       *)
(* run_confirm, run_m5, run_fix -- on one loop object and one batch.       *)
(*                                                                         *)
(* What makes the loop trustworthy is its held-out discipline: M1-M3 mine  *)
(* the EXPLORE cases, M4 tests on cases nobody mined, repairs are searched *)
(* on a development partition, and the one frozen repair is scored on a    *)
(* final partition that no adaptive decision has read.  The module keeps   *)
(* the control of every call and, in `basis', the set of cases each        *)
(* artifact has been computed from, directly or through an earlier         *)
(* artifact.  Scores, prompts and model outputs are abstracted: the model, *)
(* the judge and the coder answer nondeterministically.                    *)
(***************************************************************************)
EXTENDS Integers, FiniteSets

CONSTANTS Case,       \* the batch handed to every public call
          ValCase,    \* the cases of an external validation batch (val_data)
          Hyp,        \* hypothesis keys (_hyp_key) the M3 judge may propose
          None,       \* Python's None
          MaxCycles,  \* max_cycles
          Retries,    \* diagnosis_retries
          MaxLeads,   \* unverified leads handed to the proposer: [:3] in run_fix
          MaxCalls    \* bound: public calls in one session

ASSUME SizeAssumption == {MaxCycles, Retries, MaxLeads, MaxCalls} \subseteq Nat
ASSUME CaseAssumption == Case \cap ValCase = {}
ASSUME NoneAssumption == None \notin Hyp

VARIABLES
  explore, confirm, test,   \* the partition of Case; {} is an absent partition
  val,                      \* val_data; {} when none was given
  m4Holdout, analysisOnly,  \* constructor switches
  pc, op,                   \* the stage the active call is at; which call it is
  cycle, attempt,           \* loop cycle and M3 attempt
  fresh,                    \* hypotheses M3 proposed this cycle
  hyps,                     \* report.final_hypotheses
  results,                  \* report.all_test_results
  stoppedBy, holdoutStatus, \* report.stopped_by, report.m4_holdout
  descriptive,              \* final_stats_report.descriptive_only
  m5,                       \* report.fix_proposal: hypothesis and verdict
  proposer, leadsAllowed,   \* run_fix: hypotheses given to the proposer, allow_unverified
  outcome,                  \* report.fix_outcome: verdict, the cases it was scored on, and
                            \* the cases the scored candidate was computed from
  basis,                    \* the cases each artifact was computed from
  calls                     \* public calls made

config == <<explore, confirm, test, val, m4Holdout, analysisOnly>>
loop   == <<op, cycle, attempt, fresh>>
report == <<hyps, results, stoppedBy, holdoutStatus, descriptive>>
fixing == <<proposer, leadsAllowed, outcome>>
vars   == <<config, pc, loop, report, m5, fixing, basis, calls>>

AllCase    == Case \cup ValCase
Artifact   == {"notes", "probe", "stats", "hyps", "verdicts", "m5", "candidates"}
Verdict    == {"verified", "belowGrade", "offProtocol", "inconclusive", "refuted"}
M5Verdict  == {"refuted", "notRefuted"}
Result     == [hyp : Hyp, verdict : Verdict]
StopReason == {"max_cycles", "budget", "no_probe_results", "no_hypotheses",
               "diagnosis_error", "criteria_met", "analysis_complete"}
ASSUME ReasonAssumption == None \notin StopReason \cup {"confirmed", "failed"}
Outcome    == [verdict  : {"fixed", "notFixed", "skipped"},
               scoredOn : SUBSET AllCase, candidate : SUBSET AllCase]
Scored(v, cases, read) == [verdict |-> v, scoredOn |-> cases, candidate |-> read]
Stage      == {"idle", "cycle", "m1", "m2", "m3", "m4", "holdout", "test",
               "fixSearch", "fixGate"}
Op         == {"run", "analysis", "confirm", "fix"}

-----------------------------------------------------------------------------
(* _split_partitions.  nConfirm and nTest are the rounded products         *)
(* len * confirm_split and len * test_split.  A two-way draw may come out  *)
(* smaller than nConfirm (per-stratum rounding); a draw of the three-way   *)
(* mode is topped up to the exact size.                                    *)
Draws(pool, n, exact) ==
  {s \in SUBSET pool : IF exact THEN Cardinality(s) = n ELSE Cardinality(s) \in 1..n}

SplitPartitions(nConfirm, nTest) ==
  LET len == Cardinality(Case)
  IN  IF len < 4 \/ nConfirm = 0 \/ nConfirm >= len
      THEN {<<Case, {}, {}>>}
      ELSE UNION {
        LET rest == Case \ c
        IN  IF nTest = 0 \/ nTest >= Cardinality(rest)
            THEN {<<rest, c, {}>>}
            ELSE {<<rest \ t, c, t>> : t \in Draws(rest, nTest, TRUE)} :
        c \in Draws(Case, nConfirm, nTest > 0)}

(* __init__ refuses val_data together with test_split; the partition is    *)
(* deterministic, so every call of the session derives this same one.      *)
Init ==
  /\ \E nConfirm, nTest \in 0..Cardinality(Case), v \in {{}, ValCase} :
       /\ v # {} => nTest = 0
       /\ \E p \in SplitPartitions(nConfirm, nTest) :
            explore = p[1] /\ confirm = p[2] /\ test = p[3]
       /\ val = v
  /\ m4Holdout \in BOOLEAN /\ analysisOnly \in BOOLEAN
  /\ pc = "idle" /\ op = "run" /\ cycle = 0 /\ attempt = 0
  /\ fresh = {} /\ hyps = {} /\ results = {}
  /\ stoppedBy = None /\ holdoutStatus = None /\ descriptive = FALSE
  /\ m5 = None /\ proposer = {} /\ leadsAllowed = FALSE
  /\ outcome = None
  /\ basis = [a \in Artifact |-> {}] /\ calls = 0

(* What M1-M3 see of the batch: `data = explore'.                          *)
MinedDataMutant == Case
MinedData       == explore

(* Where M4 tests held-out hypotheses: val_data, else CONFIRM.             *)
HoldoutTargetMutant == IF confirm # {} THEN confirm ELSE val
HoldoutTarget       == IF val # {} THEN val ELSE confirm
HoldoutMode         == HoldoutTarget # {} /\ m4Holdout
TestInCycleMutant   == TRUE
TestInCycle         == ~HoldoutMode

(* run_fix: where candidates are searched, where the winner is scored.     *)
DevData   == IF val # {} /\ confirm # {} THEN val
             ELSE IF test # {} THEN confirm ELSE explore
FinalData == IF ~(val # {} /\ confirm # {}) /\ test # {} THEN test ELSE confirm
GateDataMutant == DevData
GateData       == FinalData

(* HypothesisTester: `belowGrade' is supported and consistent, but short   *)
(* of min_evidence_grade, so it is verified and does not stop the loop;    *)
(* `offProtocol' is supported and inconsistent with the protocol.          *)
Best(rs)        == {r.hyp : r \in {s \in rs : s.verdict \in {"verified", "belowGrade"}}}
CriteriaMet(rs) == \E r \in rs : r.verdict = "verified"
TestResults(hs) == {{[hyp |-> h, verdict |-> v[h]] : h \in hs} : v \in [hs -> Verdict]}
Verified        == Best(results)

(* _unverified_hypotheses: tested hypotheses, unless their best-ranked     *)
(* result (any of them may rank best) is a refutation; then the untested.  *)
TestedHyps  == {r.hyp : r \in results}
RefutedBy(h, refutes) ==
  \E r \in results : r.hyp = h /\ (r.verdict = "refuted") = refutes
Unverified  == {l \in SUBSET hyps :
                  \A h \in hyps : IF h \in l THEN h \notin TestedHyps \/ RefutedBy(h, FALSE)
                                             ELSE RefutedBy(h, TRUE)}
(* The first hypotheses of such a list: the tested ones come first.        *)
FirstOf(l)  == IF l \cap TestedHyps # {} THEN l \cap TestedHyps ELSE l
Prefixes(l, n) == {s \in SUBSET l :
                     /\ Cardinality(s) = (IF Cardinality(l) < n THEN Cardinality(l) ELSE n)
                     /\ s \subseteq TestedHyps \/ (l \cap TestedHyps) \subseteq s}

(* _m5_refuted: what the latest intervention experiment refuted.           *)
M5Refuted == IF m5 # None /\ m5.verdict = "refuted" THEN {m5.hyp} ELSE {}

-----------------------------------------------------------------------------
Derive(a, cases) == basis' = [basis EXCEPT ![a] = cases]
KeepOnly(as)     == basis' = [a \in Artifact |-> IF a \in as THEN basis[a] ELSE {}]
Call(o, stage)   == /\ pc = "idle" /\ calls < MaxCalls
                    /\ calls' = calls + 1 /\ op' = o /\ pc' = stage
ClearReport      == /\ results' = {} /\ holdoutStatus' = None /\ stoppedBy' = None
                    /\ m5' = None /\ outcome' = None
                    /\ cycle' = 0 /\ attempt' = 0 /\ fresh' = {}
                    /\ UNCHANGED <<config, proposer, leadsAllowed>>

(* The explorer's notes live on the loop object, so they outlive a report. *)
StartRun ==
  /\ Call("run", "cycle") /\ ClearReport
  /\ hyps' = {} /\ descriptive' = FALSE
  /\ KeepOnly({"notes"})

StartAnalysis ==
  /\ Call("analysis", "m1") /\ ClearReport
  /\ hyps' = {} /\ descriptive' = FALSE
  /\ KeepOnly({"notes"})

(* _finalize_confirmatory_stats.                                           *)
FinalizeMutant(deferred) == deferred
Finalize(deferred)       == FALSE

(* run_confirm on the reloaded hypotheses.  A supplied stats report whose  *)
(* e-BH verdict was deferred is finalised; without one M1-M2 run again.    *)
StartConfirm(supplied) ==
  /\ stoppedBy # None
  /\ supplied => basis["stats"] # {}
  /\ Call("confirm", IF supplied THEN "test" ELSE "m1") /\ ClearReport
  /\ descriptive' = Finalize(descriptive)
  /\ KeepOnly({"notes", "stats", "hyps", "verdicts"})
  /\ UNCHANGED hyps

(* The end of a call.  run() takes its one held-out M4 pass on the way out *)
(* when the hypotheses were only mined so far.                             *)
Return(reason) ==
  /\ stoppedBy' = reason
  /\ pc' = IF op = "run" /\ HoldoutMode /\ hyps # {} THEN "holdout" ELSE "idle"

(* The head of run()'s cycle loop.  Tokens accrue only in M3, so the       *)
(* budget cannot be spent before the first cycle.                          *)
CycleHead ==
  /\ pc = "cycle"
  /\ \/ cycle = MaxCycles /\ Return("max_cycles")
     \/ cycle \in 1..MaxCycles - 1 /\ Return("budget")
     \/ cycle < MaxCycles /\ pc' = "m1" /\ UNCHANGED stoppedBy
  /\ UNCHANGED <<config, loop, hyps, results, holdoutStatus, descriptive, m5,
                 fixing, basis, calls>>

(* _do_m1 on EXPLORE, steered by the hypotheses known so far and their     *)
(* statuses; then the optional explore step (not in run_confirm) takes     *)
(* notes on its table, or keeps the previous notes when it fails.          *)
M1 ==
  /\ pc = "m1"
  /\ \/ /\ Return("no_probe_results")
        /\ UNCHANGED basis
     \/ LET probed == MinedData \cup basis["hyps"] \cup basis["verdicts"]
        IN  /\ \/ Derive("probe", probed)
               \/ /\ op # "confirm"
                  /\ basis' = [basis EXCEPT !["probe"] = probed, !["notes"] = probed]
            /\ pc' = "m2" /\ UNCHANGED stoppedBy
  /\ UNCHANGED <<config, loop, hyps, results, holdoutStatus, descriptive, m5,
                 fixing, calls>>

(* _do_m2; run_analysis defers the e-BH verdict (confirmatory=False).      *)
M2 ==
  /\ pc = "m2"
  /\ Derive("stats", basis["probe"] \cup MinedData)
  /\ descriptive' = (op = "analysis")
  /\ IF op = "run" /\ analysisOnly
     THEN Return("no_hypotheses")
     ELSE /\ pc' = IF op = "confirm" THEN "test" ELSE "m3"
          /\ UNCHANGED stoppedBy
  /\ UNCHANGED <<config, loop, hyps, results, holdoutStatus, m5, fixing, calls>>

(* _do_m3: bounded retries; prior_cycles shows the judge earlier           *)
(* hypotheses with the statuses M4 has written on them.                    *)
MayRetryMutant == attempt <= Retries
MayRetry       == attempt < Retries

M3Error ==
  /\ pc = "m3"
  /\ IF MayRetry
     THEN attempt' = attempt + 1 /\ UNCHANGED <<pc, stoppedBy>>
     ELSE attempt' = 0 /\ Return("diagnosis_error")
  /\ UNCHANGED <<config, op, cycle, fresh, hyps, results, holdoutStatus,
                 descriptive, m5, fixing, basis, calls>>

M3(proposed) ==
  /\ pc = "m3"
  /\ attempt' = 0 /\ hyps' = hyps \cup proposed
  /\ Derive("hyps", basis["hyps"] \cup basis["stats"] \cup basis["notes"]
                       \cup basis["verdicts"])
  /\ IF proposed = {} \/ op = "analysis"
     THEN /\ Return(IF proposed = {} THEN "no_hypotheses" ELSE "analysis_complete")
          /\ UNCHANGED <<cycle, fresh>>
     ELSE IF TestInCycle
     THEN pc' = "m4" /\ fresh' = proposed /\ UNCHANGED <<stoppedBy, cycle>>
     ELSE pc' = "cycle" /\ cycle' = cycle + 1 /\ UNCHANGED <<stoppedBy, fresh>>
  /\ UNCHANGED <<config, op, results, holdoutStatus, descriptive, m5, fixing, calls>>

(* In-cycle M4 on the mined data, then the stopping criterion.             *)
M4(rs) ==
  /\ pc = "m4"
  /\ results' = results \cup rs /\ fresh' = {}
  /\ Derive("verdicts", basis["verdicts"] \cup basis["hyps"] \cup basis["stats"])
  /\ IF CriteriaMet(rs)
     THEN Return("criteria_met") /\ UNCHANGED cycle
     ELSE pc' = "cycle" /\ cycle' = cycle + 1 /\ UNCHANGED stoppedBy
  /\ UNCHANGED <<config, op, attempt, hyps, holdoutStatus, descriptive, m5, fixing, calls>>

ConfirmReasonMutant(rs) == IF rs # {} THEN "criteria_met" ELSE "max_cycles"
ConfirmReason(rs) == IF Best(rs) # {} THEN "criteria_met" ELSE "max_cycles"

(* run_confirm's M4: nothing to test, the held-out pass, or the in-cycle   *)
(* test on the explore statistics.                                         *)
ConfirmTest ==
  /\ pc = "test"
  /\ IF hyps # {} /\ HoldoutMode
     THEN pc' = "holdout" /\ UNCHANGED <<results, stoppedBy, basis>>
     ELSE \E rs \in TestResults(hyps) :
            /\ results' = rs /\ Return(ConfirmReason(rs))
            /\ Derive("verdicts", IF hyps = {} THEN {} ELSE basis["hyps"] \cup basis["stats"])
  /\ UNCHANGED <<config, loop, hyps, holdoutStatus, descriptive, m5, fixing, calls>>

(* _m4_holdout_pass: M1 and M2 again on the target with the explore        *)
(* analyzers pinned, then the only hypothesis test of this report.         *)
HoldoutPass ==
  /\ pc = "holdout" /\ pc' = "idle"
  /\ \/ /\ results' = {} /\ holdoutStatus' = "failed"
        /\ UNCHANGED basis
     \/ /\ results' \in TestResults(hyps) /\ holdoutStatus' = "confirmed"
        /\ Derive("verdicts", basis["hyps"] \cup basis["stats"] \cup HoldoutTarget)
  /\ stoppedBy' = IF op = "confirm" THEN ConfirmReason(results') ELSE stoppedBy
  /\ UNCHANGED <<config, loop, hyps, descriptive, m5, fixing, calls>>

(* run_m5: one intervention experiment, on EXPLORE, for the best verified  *)
(* hypothesis or, if allowed, the best lead.                               *)
RunM5(allowUnverified) ==
  /\ pc = "idle" /\ stoppedBy # None /\ calls < MaxCalls
  /\ calls' = calls + 1
  /\ \E h \in hyps, v \in M5Verdict :
       /\ IF Verified # {} THEN h \in Verified
          ELSE allowUnverified /\ \E l \in Unverified : h \in FirstOf(l)
       /\ m5' = [hyp |-> h, verdict |-> v]
  /\ Derive("m5", explore \cup basis["stats"] \cup basis["hyps"] \cup basis["verdicts"])
  /\ UNCHANGED <<config, pc, loop, report, fixing>>

(* run_fix: the evidence gate picks the hypotheses a repair may serve.     *)
LeadsMutant(accepted) == UNION {Prefixes(l \ accepted, MaxLeads) : l \in Unverified}
Leads(accepted) == UNION {Prefixes((l \ M5Refuted) \ accepted, MaxLeads) : l \in Unverified}

StartFix(allowUnverified) ==
  /\ pc = "idle" /\ stoppedBy # None /\ calls < MaxCalls
  /\ calls' = calls + 1 /\ op' = "fix"
  /\ LET accepted == Verified \ M5Refuted
     IN  \E leads \in IF allowUnverified THEN Leads(accepted) ELSE {{}} :
           proposer' = accepted \cup leads
  /\ IF proposer' = {}
     THEN outcome' = Scored("skipped", {}, {}) /\ pc' = "idle" /\ leadsAllowed' = FALSE
     ELSE pc' = "fixSearch" /\ leadsAllowed' = allowUnverified /\ UNCHANGED outcome
  /\ UNCHANGED <<config, cycle, attempt, fresh, report, m5, basis>>

EndFix == pc' = "idle" /\ proposer' = {} /\ leadsAllowed' = FALSE /\ Derive("candidates", {})

(* The candidate search on the development partition.  Without a held-out  *)
(* split its own verdict is the outcome; with one the strongest improving  *)
(* candidate is frozen, or the final partition is left untouched.          *)
FixSearch ==
  /\ pc = "fixSearch"
  /\ LET read == DevData \cup explore
                    \cup UNION {basis[a] : a \in {"notes", "stats", "hyps", "verdicts", "m5"}}
     IN  \/ /\ confirm = {} /\ EndFix
            /\ \E v \in {"fixed", "notFixed"} : outcome' = Scored(v, DevData, read)
         \/ /\ confirm # {} /\ EndFix
            /\ outcome' = Scored("notFixed", {}, {})
         \/ /\ confirm # {} /\ pc' = "fixGate"
            /\ Derive("candidates", read) /\ UNCHANGED <<proposer, leadsAllowed, outcome>>
  /\ UNCHANGED <<config, loop, report, m5, calls>>

(* _confirm_from_explore: the frozen candidate, once, on the final data.   *)
(* A coded candidate whose run fails there is rewritten by the coder from  *)
(* that failure and run again (_run_coded).                                *)
FixGate ==
  /\ pc = "fixGate" /\ EndFix
  /\ \E read \in {basis["candidates"], basis["candidates"] \cup GateData},
        v \in {"fixed", "notFixed"} : outcome' = Scored(v, GateData, read)
  /\ UNCHANGED <<config, loop, report, m5, calls>>

(* Proposing, searching or scoring may raise: no outcome is recorded, and  *)
(* the previous one stays on the report.                                   *)
FixRaises ==
  /\ pc \in {"fixSearch", "fixGate"} /\ EndFix
  /\ UNCHANGED <<config, loop, report, m5, outcome, calls>>

Next ==
  \/ StartRun
  \/ StartAnalysis
  \/ \E supplied \in BOOLEAN : StartConfirm(supplied)
  \/ CycleHead
  \/ M1
  \/ M2
  \/ M3Error
  \/ \E proposed \in SUBSET Hyp : M3(proposed)
  \/ \E rs \in TestResults(fresh) : M4(rs)
  \/ ConfirmTest
  \/ HoldoutPass
  \/ \E au \in BOOLEAN : RunM5(au)
  \/ \E au \in BOOLEAN : StartFix(au)
  \/ FixSearch
  \/ FixGate
  \/ FixRaises

Spec == Init /\ [][Next]_vars
-----------------------------------------------------------------------------
(* Every variable holds a value of its kind: the stages, reports and       *)
(* artifacts the loop's code can build.                                    *)
TypeOK ==
  /\ explore \in SUBSET Case /\ confirm \in SUBSET Case /\ test \in SUBSET Case
  /\ val \in SUBSET ValCase
  /\ m4Holdout \in BOOLEAN /\ analysisOnly \in BOOLEAN
  /\ pc \in Stage /\ op \in Op
  /\ cycle \in 0..MaxCycles /\ attempt \in 0..Retries
  /\ fresh \in SUBSET Hyp /\ hyps \in SUBSET Hyp /\ proposer \in SUBSET Hyp
  /\ results \in SUBSET Result
  /\ stoppedBy \in StopReason \cup {None}
  /\ holdoutStatus \in {"confirmed", "failed", None}
  /\ descriptive \in BOOLEAN /\ leadsAllowed \in BOOLEAN
  /\ m5 \in [hyp : Hyp, verdict : M5Verdict] \cup {None}
  /\ outcome \in Outcome \cup {None}
  /\ calls \in 0..MaxCalls
  /\ basis \in [Artifact -> SUBSET AllCase]

(* run() and run_analysis(): "M1-M4 see only EXPLORE".  However the        *)
(* session's calls are ordered, the hypotheses M3 mined depend on no       *)
(* held-out case, neither directly nor through a verdict fed back to M3.   *)
MinedOnExplore == basis["hyps"] \subseteq explore

(* m4_holdout: with held-out data every verdict on the report comes from   *)
(* the pass over the whole target, so nothing is verified on mined data.   *)
VerifiedOnHoldout ==
  HoldoutMode /\ results # {} =>
    holdoutStatus = "confirmed" /\ HoldoutTarget \subseteq basis["verdicts"]

(* run_fix's modes that keep a partition of their own for the frozen       *)
(* repair: an external validation batch, train/val/test, or a two-way      *)
(* split whose CONFIRM is not also M4's holdout.                           *)
ReservedFinal == test # {} \/ (val # {} /\ confirm # {}) \/ (confirm # {} /\ ~m4Holdout)

(* In those modes nothing that steers the session -- probe, explorer       *)
(* notes, statistics, hypotheses, M4 verdicts, M5 experiment -- was ever   *)
(* computed from a case of the final partition, over any number of calls,  *)
(* and neither was the candidate that reaches the final gate.              *)
FinalUntouched ==
  ReservedFinal => \A a \in Artifact : basis[a] \cap FinalData = {}

(* With a final partition, what a report calls fixed -- even one left over *)
(* from an earlier run_fix, when a later call raised -- was scored on that *)
(* partition, and on none of the cases the search was given to develop on. *)
(* (In the two-way split the verdicts it starts from come from CONFIRM.)   *)
FixedOnFinal ==
  confirm # {} /\ outcome # None /\ outcome.verdict = "fixed" =>
    /\ outcome.scoredOn = FinalData
    /\ outcome.scoredOn \cap DevData = {}

(* run_fix and validate_candidate: the winner is frozen before the final   *)
(* partition is read ("never consults the judge and validates exactly one  *)
(* pre-registered candidate").  A coded candidate that fails on the final  *)
(* partition is rewritten from that failure, so this does not hold.        *)
FrozenWhenScored ==
  ReservedFinal /\ outcome # None /\ outcome.verdict = "fixed" =>
    outcome.candidate \cap outcome.scoredOn = {}

(* run_fix's evidence gate: the proposer never works for a hypothesis the  *)
(* latest M5 experiment refuted, and without allow_unverified only for     *)
(* hypotheses M4 verified.                                                 *)
ProposerEvidence ==
  pc \in {"fixSearch", "fixGate"} =>
    /\ proposer # {} /\ proposer \cap M5Refuted = {}
    /\ ~leadsAllowed => proposer \subseteq Verified

(* The report of a finished call agrees with itself: criteria_met means a  *)
(* verified hypothesis exists, a failed held-out pass verifies nothing,    *)
(* and in holdout mode run() never stops on a verdict.                     *)
ReportConsistent ==
  pc = "idle" =>
    /\ stoppedBy = "criteria_met" => Verified # {}
    /\ holdoutStatus = "failed" => Verified = {}
    /\ HoldoutMode /\ op = "run" => stoppedBy # "criteria_met"

(* run_confirm owns the validity verdict: M4 never reads statistics whose  *)
(* e-BH correction was deferred by run_analysis.                           *)
TestsConfirmatory == pc \in {"m4", "test", "holdout"} => ~descriptive
=============================================================================
