------------------------- MODULE DiagnoseLoopProofs -------------------------
(***************************************************************************)
(* Machine-checked proofs about DiagnoseLoop, for every batch, validation  *)
(* batch, hypothesis set and bound.                                        *)
(*                                                                         *)
(* The held-out guarantee is not inductive: that the repair candidates     *)
(* never read the final partition follows from what every earlier artifact *)
(* has read, and that in turn from where the active call is.  IInv adds    *)
(* both: the partitions are disjoint (SplitDisjoint), mining stages have   *)
(* read EXPLORE only, and each artifact stays inside its `Allowed' cases.  *)
(***************************************************************************)
EXTENDS DiagnoseLoop, FiniteSetTheorems, TLAPS

Disjoint ==
  /\ explore \cap confirm = {} /\ explore \cap test = {} /\ confirm \cap test = {}
  /\ test # {} => val = {} /\ confirm # {}

(* The cases M4's verdicts may rest on.                                    *)
Allowed == explore \cup (IF HoldoutMode THEN HoldoutTarget ELSE {})

Mining == op \in {"run", "analysis"} /\ pc \in {"cycle", "m1", "m2", "m3", "m4"}

BasisInv ==
  /\ basis["hyps"] \subseteq explore
  /\ basis["notes"] \subseteq explore
  /\ Mining => /\ basis["probe"] \subseteq explore
               /\ basis["stats"] \subseteq explore
               /\ basis["verdicts"] \subseteq explore
  /\ basis["probe"] \subseteq Allowed
  /\ basis["stats"] \subseteq Allowed
  /\ basis["verdicts"] \subseteq Allowed
  /\ basis["m5"] \subseteq Allowed
  /\ basis["candidates"] \subseteq Allowed \cup DevData

ControlInv ==
  /\ pc = "cycle" => op = "run"
  /\ pc \in {"m1", "m2"} => op \in {"run", "analysis", "confirm"}
  /\ pc = "m3" => op \in {"run", "analysis"}
  /\ pc = "m4" => op = "run" /\ ~HoldoutMode
  /\ pc = "test" => op = "confirm"
  /\ pc = "holdout" => HoldoutMode /\ op \in {"run", "confirm"}
  /\ pc \in {"fixSearch", "fixGate"} => op = "fix"
  /\ op = "run" /\ pc \in {"m1", "m2", "m3", "m4"} => cycle < MaxCycles

(* A confirmed or cycling call holds no statistics with a deferred verdict. *)
Adjudicated == pc # "idle" /\ op \in {"run", "confirm"} => ~descriptive

IInv == /\ TypeOK /\ Disjoint /\ ControlInv /\ BasisInv
        /\ FixedOnFinal /\ VerifiedOnHoldout /\ ProposerEvidence /\ Adjudicated

-----------------------------------------------------------------------------
(* _split_partitions returns pairwise disjoint parts of the batch, and a   *)
(* TEST part only beside a CONFIRM part.                                   *)
LEMMA SplitDisjoint ==
  ASSUME NEW nConfirm \in Nat, NEW nTest \in Nat,
         NEW p \in SplitPartitions(nConfirm, nTest)
  PROVE  /\ p[1] \in SUBSET Case /\ p[2] \in SUBSET Case /\ p[3] \in SUBSET Case
         /\ p[1] \cap p[2] = {} /\ p[1] \cap p[3] = {} /\ p[2] \cap p[3] = {}
         /\ p[3] # {} => p[2] # {} /\ nTest # 0
<1>1. CASE Cardinality(Case) < 4 \/ nConfirm = 0 \/ nConfirm >= Cardinality(Case)
  <2>1. p = <<Case, {}, {}>>
    BY <1>1 DEF SplitPartitions
  <2>2. QED BY <2>1
<1>2. CASE ~(Cardinality(Case) < 4 \/ nConfirm = 0 \/ nConfirm >= Cardinality(Case))
  <2>1. PICK c \in Draws(Case, nConfirm, nTest > 0) :
          p \in IF nTest = 0 \/ nTest >= Cardinality(Case \ c)
                THEN {<<Case \ c, c, {}>>}
                ELSE {<<(Case \ c) \ t, c, t>> : t \in Draws(Case \ c, nTest, TRUE)}
    BY <1>2 DEF SplitPartitions
  <2>2. c \in SUBSET Case
    BY DEF Draws
  <2>3. CASE nTest = 0 \/ nTest >= Cardinality(Case \ c)
    <3>1. p = <<Case \ c, c, {}>>
      BY <2>1, <2>3
    <3>2. QED BY <3>1, <2>2
  <2>4. CASE ~(nTest = 0 \/ nTest >= Cardinality(Case \ c))
    <3>1. PICK t \in Draws(Case \ c, nTest, TRUE) : p = <<(Case \ c) \ t, c, t>>
      BY <2>1, <2>4
    <3>2. t \in SUBSET (Case \ c)
      BY DEF Draws
    <3>3. c # {}
      BY <1>2, FS_EmptySet DEF Draws
    <3>4. QED BY <3>1, <3>2, <3>3, <2>2, <2>4
  <2>5. QED BY <2>3, <2>4
<1>3. QED BY <1>1, <1>2

(* Every combination of M4 verdicts is a set of results.                   *)
LEMMA TestResultsType ==
  ASSUME NEW hs \in SUBSET Hyp, NEW rs \in TestResults(hs)
  PROVE  rs \in SUBSET Result
BY DEF TestResults, Result

-----------------------------------------------------------------------------
(* Every call of a session leaves the partition and the switches alone.    *)
LEMMA ConfigConstant ==
  ASSUME [Next]_vars
  PROVE  UNCHANGED config
<1> USE DEF ClearReport
<1>1. CASE StartRun
  BY <1>1 DEF StartRun
<1>2. CASE StartAnalysis
  BY <1>2 DEF StartAnalysis
<1>3. ASSUME NEW supplied \in BOOLEAN, StartConfirm(supplied) PROVE UNCHANGED config
  BY <1>3 DEF StartConfirm
<1>4. CASE CycleHead
  BY <1>4 DEF CycleHead
<1>5. CASE M1
  BY <1>5 DEF M1
<1>6. CASE M2
  BY <1>6 DEF M2
<1>7. CASE M3Error
  BY <1>7 DEF M3Error
<1>8. ASSUME NEW proposed \in SUBSET Hyp, M3(proposed) PROVE UNCHANGED config
  BY <1>8 DEF M3
<1>9. ASSUME NEW rs \in TestResults(fresh), M4(rs) PROVE UNCHANGED config
  BY <1>9 DEF M4
<1>10. CASE ConfirmTest
  BY <1>10 DEF ConfirmTest
<1>11. CASE HoldoutPass
  BY <1>11 DEF HoldoutPass
<1>12. ASSUME NEW au \in BOOLEAN, RunM5(au) PROVE UNCHANGED config
  BY <1>12 DEF RunM5
<1>13. ASSUME NEW au \in BOOLEAN, StartFix(au) PROVE UNCHANGED config
  BY <1>13 DEF StartFix
<1>14. CASE FixSearch
  BY <1>14 DEF FixSearch
<1>15. CASE FixGate
  BY <1>15 DEF FixGate
<1>16. CASE FixRaises
  BY <1>16 DEF FixRaises
<1>17. CASE UNCHANGED vars
  BY <1>17 DEF vars
<1>18. QED BY <1>1, <1>2, <1>3, <1>4, <1>5, <1>6, <1>7, <1>8, <1>9, <1>10,
         <1>11, <1>12, <1>13, <1>14, <1>15, <1>16, <1>17 DEF Next

(* The four bounds, one by one.                                            *)
LEMMA SizesNat == MaxCycles \in Nat /\ Retries \in Nat /\ MaxLeads \in Nat /\ MaxCalls \in Nat
BY SizeAssumption

(* The control facts: which call each stage belongs to, and that a cycle   *)
(* stage runs only below max_cycles.                                       *)
LEMMA ControlStep ==
  ASSUME TypeOK, ControlInv, [Next]_vars
  PROVE  ControlInv'
<1> USE ConfigConstant, SizesNat DEF ControlInv
<1>1. CASE StartRun
  BY <1>1 DEF StartRun, config, HoldoutMode, HoldoutTarget, Call, ClearReport,
    KeepOnly
<1>2. CASE StartAnalysis
  BY <1>2 DEF StartAnalysis, config, HoldoutMode, HoldoutTarget, Call,
    ClearReport, KeepOnly
<1>3. ASSUME NEW supplied \in BOOLEAN, StartConfirm(supplied) PROVE ControlInv'
  BY <1>3 DEF StartConfirm, config, HoldoutMode, HoldoutTarget, Call,
    ClearReport, KeepOnly
<1>4. CASE CycleHead
  BY <1>4 DEF CycleHead, config, loop, fixing, HoldoutMode, HoldoutTarget,
    Return
<1>5. CASE M1
  BY <1>5 DEF M1, config, loop, fixing, HoldoutMode, HoldoutTarget, Return,
    Derive
<1>6. CASE M2
  BY <1>6 DEF M2, config, loop, fixing, HoldoutMode, HoldoutTarget, Return,
    Derive
<1>7. CASE M3Error
  BY <1>7 DEF M3Error, config, fixing, HoldoutMode, HoldoutTarget, Return
<1>8. ASSUME NEW proposed \in SUBSET Hyp, M3(proposed) PROVE ControlInv'
  BY <1>8 DEF M3, config, fixing, HoldoutMode, HoldoutTarget, Return, Derive,
    TestInCycle
<1>9. ASSUME NEW rs \in TestResults(fresh), M4(rs) PROVE ControlInv'
  BY <1>9 DEF M4, config, fixing, HoldoutMode, HoldoutTarget, Return, Derive
<1>10. CASE ConfirmTest
  BY <1>10 DEF ConfirmTest, config, loop, fixing, HoldoutMode, HoldoutTarget,
    Return, Derive
<1>11. CASE HoldoutPass
  BY <1>11 DEF HoldoutPass, config, loop, fixing, HoldoutMode, HoldoutTarget,
    Derive
<1>12. ASSUME NEW au \in BOOLEAN, RunM5(au) PROVE ControlInv'
  BY <1>12 DEF RunM5, config, loop, report, fixing, HoldoutMode, HoldoutTarget,
    Derive
<1>13. ASSUME NEW au \in BOOLEAN, StartFix(au) PROVE ControlInv'
  BY <1>13 DEF StartFix, config, report, HoldoutMode, HoldoutTarget
<1>14. CASE FixSearch
  BY <1>14 DEF FixSearch, config, loop, report, HoldoutMode, HoldoutTarget,
    Derive, EndFix
<1>15. CASE FixGate
  BY <1>15 DEF FixGate, config, loop, report, HoldoutMode, HoldoutTarget,
    Derive, EndFix
<1>16. CASE FixRaises
  BY <1>16 DEF FixRaises, config, loop, report, HoldoutMode, HoldoutTarget,
    Derive, EndFix
<1>17. CASE UNCHANGED vars
  BY <1>17 DEF vars, config, loop, report, fixing, HoldoutMode, HoldoutTarget
<1>18. QED BY <1>1, <1>2, <1>3, <1>4, <1>5, <1>6, <1>7, <1>8, <1>9, <1>10,
         <1>11, <1>12, <1>13, <1>14, <1>15, <1>16, <1>17 DEF Next

(* Clearing all but some artifacts keeps the ledger well typed.            *)
LEMMA KeepOnlyType ==
  ASSUME basis \in [Artifact -> SUBSET AllCase], NEW as, KeepOnly(as)
  PROVE  basis' \in [Artifact -> SUBSET AllCase]
BY DEF KeepOnly

(* The hypotheses run_fix may hand to the proposer are hypotheses.         *)
LEMMA ProposerType ==
  ASSUME TypeOK, NEW au \in BOOLEAN, NEW acc \in SUBSET Hyp,
         NEW leads \in IF au THEN Leads(acc) ELSE {{}}
  PROVE  leads \in SUBSET Hyp
<1>1. CASE au
  <2>1. PICK l \in Unverified : leads \in Prefixes((l \ M5Refuted) \ acc, MaxLeads)
    BY <1>1 DEF Leads
  <2>2. l \in SUBSET Hyp
    BY DEF Unverified, TypeOK
  <2>3. QED BY <2>1, <2>2 DEF Prefixes
<1>2. CASE ~au
  BY <1>2
<1>3. QED BY <1>1, <1>2

(* The hypotheses M4 verified are hypotheses.                              *)
LEMMA AcceptedType ==
  ASSUME TypeOK
  PROVE  Verified \in SUBSET Hyp
BY DEF TypeOK, Verified, Best, Result

(* Every partition is a set of known cases.                                *)
LEMMA DataType ==
  ASSUME TypeOK
  PROVE  /\ explore \in SUBSET AllCase /\ DevData \in SUBSET AllCase
         /\ FinalData \in SUBSET AllCase
BY DEF TypeOK, DevData, FinalData, AllCase

-----------------------------------------------------------------------------
(* What each artifact has read, expressed over the constant partition.     *)
LEMMA BasisStep ==
  ASSUME TypeOK, ControlInv, BasisInv, [Next]_vars
  PROVE  BasisInv'
<1> USE ConfigConstant DEF TypeOK, BasisInv, ControlInv, Mining, Allowed,
      DevData
<1>1. CASE StartRun
  BY <1>1 DEF StartRun, config, Call, ClearReport, KeepOnly, Artifact,
    StopReason, Stage, Op, AllCase, HoldoutMode, HoldoutTarget
<1>2. CASE StartAnalysis
  BY <1>2 DEF StartAnalysis, config, Call, ClearReport, KeepOnly, Artifact,
    StopReason, Stage, Op, AllCase, HoldoutMode, HoldoutTarget
<1>3. ASSUME NEW supplied \in BOOLEAN, StartConfirm(supplied) PROVE BasisInv'
  BY <1>3 DEF StartConfirm, config, Call, ClearReport, KeepOnly, Artifact,
    StopReason, Stage, Op, AllCase, HoldoutMode, HoldoutTarget
<1>4. CASE CycleHead
  BY <1>4 DEF CycleHead, config, loop, fixing, Return, Artifact, StopReason,
    Stage, Op, AllCase, HoldoutMode, HoldoutTarget
<1>5. CASE M1
  BY <1>5 DEF M1, config, loop, fixing, Return, Derive, Artifact, StopReason,
    Stage, Op, AllCase, HoldoutMode, HoldoutTarget, MinedData
<1>6. CASE M2
  BY <1>6 DEF M2, config, loop, fixing, Return, Derive, Artifact, StopReason,
    Stage, Op, AllCase, HoldoutMode, HoldoutTarget, MinedData
<1>7. CASE M3Error
  BY <1>7 DEF M3Error, config, fixing, Return, Artifact, StopReason, Stage, Op,
    AllCase, HoldoutMode, HoldoutTarget
<1>8. ASSUME NEW proposed \in SUBSET Hyp, M3(proposed) PROVE BasisInv'
  BY <1>8 DEF M3, config, fixing, Return, Derive, Artifact, StopReason, Stage,
    Op, AllCase, HoldoutMode, HoldoutTarget, TestInCycle
<1>9. ASSUME NEW rs \in TestResults(fresh), M4(rs) PROVE BasisInv'
  BY <1>9 DEF M4, config, fixing, Return, Derive, Artifact, StopReason, Stage,
    Op, AllCase, HoldoutMode, HoldoutTarget
<1>10. CASE ConfirmTest
  BY <1>10 DEF ConfirmTest, config, loop, fixing, Return, Derive, Artifact,
    StopReason, Stage, Op, AllCase, HoldoutMode, HoldoutTarget
<1>11. CASE HoldoutPass
  BY <1>11 DEF HoldoutPass, config, loop, fixing, Derive, Artifact, StopReason,
    Stage, Op, AllCase, HoldoutMode, HoldoutTarget
<1>12. ASSUME NEW au \in BOOLEAN, RunM5(au) PROVE BasisInv'
  BY <1>12 DEF RunM5, config, loop, report, fixing, Derive, Artifact,
    StopReason, Stage, Op, AllCase, HoldoutMode, HoldoutTarget
<1>13. ASSUME NEW au \in BOOLEAN, StartFix(au) PROVE BasisInv'
  BY <1>13 DEF StartFix, config, report, Artifact, StopReason, Stage, Op,
    AllCase, HoldoutMode, HoldoutTarget
<1>14. CASE FixSearch
  BY <1>14 DEF FixSearch, config, loop, report, Derive, EndFix, Artifact,
    StopReason, Stage, Op, AllCase, HoldoutMode, HoldoutTarget
<1>15. CASE FixGate
  BY <1>15 DEF FixGate, config, loop, report, Derive, EndFix, Artifact,
    StopReason, Stage, Op, AllCase, HoldoutMode, HoldoutTarget
<1>16. CASE FixRaises
  BY <1>16 DEF FixRaises, config, loop, report, Derive, EndFix, Artifact,
    StopReason, Stage, Op, AllCase, HoldoutMode, HoldoutTarget
<1>17. CASE UNCHANGED vars
  BY <1>17 DEF vars, config, loop, report, fixing, Artifact, StopReason, Stage,
    Op, AllCase, HoldoutMode, HoldoutTarget
<1>18. QED BY <1>1, <1>2, <1>3, <1>4, <1>5, <1>6, <1>7, <1>8, <1>9, <1>10,
         <1>11, <1>12, <1>13, <1>14, <1>15, <1>16, <1>17 DEF Next

-----------------------------------------------------------------------------
(* Every action keeps every variable in its type.                          *)
LEMMA TypeStep ==
  ASSUME TypeOK, ControlInv, [Next]_vars
  PROVE  TypeOK'
<1> USE SizesNat DEF TypeOK, ControlInv
<1>1. CASE StartRun
  <2>1. basis' \in [Artifact -> SUBSET AllCase]
    BY <1>1, KeepOnlyType DEF StartRun
  <2>2. calls' \in 0..MaxCalls /\ op' \in Op /\ pc' \in Stage
    BY <1>1 DEF StartRun, Call, Op, Stage
  <2>3. ClearReport /\ hyps' \in SUBSET Hyp /\ descriptive' \in BOOLEAN
    BY <1>1 DEF StartRun, Finalize
  <2>4. UNCHANGED config /\ proposer' = proposer /\ leadsAllowed' = leadsAllowed
    BY <2>3 DEF ClearReport
  <2>5. cycle' \in 0..MaxCycles /\ attempt' \in 0..Retries
    BY <2>3 DEF ClearReport
  <2>6. QED BY <2>1, <2>2, <2>3, <2>4, <2>5 DEF ClearReport, config
<1>2. CASE StartAnalysis
  <2>1. basis' \in [Artifact -> SUBSET AllCase]
    BY <1>2, KeepOnlyType DEF StartAnalysis
  <2>2. calls' \in 0..MaxCalls /\ op' \in Op /\ pc' \in Stage
    BY <1>2 DEF StartAnalysis, Call, Op, Stage
  <2>3. ClearReport /\ hyps' \in SUBSET Hyp /\ descriptive' \in BOOLEAN
    BY <1>2 DEF StartAnalysis, Finalize
  <2>4. UNCHANGED config /\ proposer' = proposer /\ leadsAllowed' = leadsAllowed
    BY <2>3 DEF ClearReport
  <2>5. cycle' \in 0..MaxCycles /\ attempt' \in 0..Retries
    BY <2>3 DEF ClearReport
  <2>6. QED BY <2>1, <2>2, <2>3, <2>4, <2>5 DEF ClearReport, config
<1>3. ASSUME NEW supplied \in BOOLEAN, StartConfirm(supplied) PROVE TypeOK'
  <2>1. basis' \in [Artifact -> SUBSET AllCase]
    BY <1>3, KeepOnlyType DEF StartConfirm
  <2>2. calls' \in 0..MaxCalls /\ op' \in Op /\ pc' \in Stage
    BY <1>3 DEF StartConfirm, Call, Op, Stage
  <2>3. ClearReport /\ hyps' \in SUBSET Hyp /\ descriptive' \in BOOLEAN
    BY <1>3 DEF StartConfirm, Finalize
  <2>4. UNCHANGED config /\ proposer' = proposer /\ leadsAllowed' = leadsAllowed
    BY <2>3 DEF ClearReport
  <2>5. cycle' \in 0..MaxCycles /\ attempt' \in 0..Retries
    BY <2>3 DEF ClearReport
  <2>6. QED BY <2>1, <2>2, <2>3, <2>4, <2>5 DEF ClearReport, config
<1>4. CASE CycleHead
  BY <1>4 DEF CycleHead, config, loop, fixing, Return, Artifact, StopReason,
    Stage, Op, AllCase
<1>5. CASE M1
  BY <1>5 DEF M1, config, loop, fixing, Return, Derive, Artifact, StopReason,
    Stage, Op, AllCase, MinedData
<1>6. CASE M2
  BY <1>6 DEF M2, config, loop, fixing, Return, Derive, Artifact, StopReason,
    Stage, Op, AllCase, MinedData
<1>7. CASE M3Error
  BY <1>7 DEF M3Error, config, fixing, Return, Artifact, StopReason, Stage, Op,
    AllCase, MayRetry
<1>8. ASSUME NEW proposed \in SUBSET Hyp, M3(proposed) PROVE TypeOK'
  BY <1>8 DEF M3, config, fixing, Return, Derive, Artifact, StopReason, Stage,
    Op, AllCase, TestInCycle
<1>9. ASSUME NEW rs \in TestResults(fresh), M4(rs) PROVE TypeOK'
  BY <1>9, TestResultsType DEF M4, config, fixing, Return, Derive, Artifact,
    StopReason, Stage, Op, AllCase
<1>10. CASE ConfirmTest
  BY <1>10, TestResultsType DEF ConfirmTest, config, loop, fixing, Return,
    Derive, Artifact, StopReason, Stage, Op, AllCase, ConfirmReason
<1>11. CASE HoldoutPass
  BY <1>11, TestResultsType DEF HoldoutPass, config, loop, fixing, Derive,
    Artifact, StopReason, Stage, Op, AllCase, HoldoutTarget, ConfirmReason
<1>12. ASSUME NEW au \in BOOLEAN, RunM5(au) PROVE TypeOK'
  BY <1>12 DEF RunM5, config, loop, report, fixing, Derive, Artifact,
    StopReason, Stage, Op, AllCase, M5Verdict
<1>13. ASSUME NEW au \in BOOLEAN, StartFix(au) PROVE TypeOK'
  <2>1. PICK leads \in (IF au THEN Leads(Verified \ M5Refuted) ELSE {{}}) :
               proposer' = (Verified \ M5Refuted) \cup leads
    BY <1>13 DEF StartFix
  <2>2. proposer' \in SUBSET Hyp
    BY <2>1, ProposerType, AcceptedType
  <2>3. Scored("skipped", {}, {}) \in Outcome
    BY DEF Scored, Outcome
  <2>4. outcome' \in Outcome \cup {None} /\ pc' \in Stage /\ leadsAllowed' \in BOOLEAN
    BY <1>13, <2>3 DEF StartFix, Stage
  <2>5. calls' \in 0..MaxCalls /\ op' \in Op
    BY <1>13 DEF StartFix, Op
  <2>6. QED BY <1>13, <2>2, <2>4, <2>5 DEF StartFix, config, report
<1>14. CASE FixSearch
  <2> DEFINE read == DevData \cup explore
                      \cup UNION {basis[a] : a \in {"notes", "stats", "hyps", "verdicts", "m5"}}
  <2>1. read \in SUBSET AllCase
    BY DataType DEF Artifact
  <2> HIDE DEF read
  <2>2. \A v \in {"fixed", "notFixed"} : Scored(v, DevData, read) \in Outcome
    BY <2>1, DataType DEF Scored, Outcome
  <2>3. Scored("notFixed", {}, {}) \in Outcome
    BY DEF Scored, Outcome
  <2>4. outcome' \in Outcome \cup {None}
    BY <1>14, <2>2, <2>3 DEF FixSearch, read
  <2>5. basis' \in [Artifact -> SUBSET AllCase]
    BY <1>14, <2>1 DEF FixSearch, read, EndFix, Derive
  <2>6. QED BY <1>14, <2>4, <2>5 DEF FixSearch, EndFix, Stage, config, loop, report
<1>15. CASE FixGate
  <2>1. PICK read \in {basis["candidates"], basis["candidates"] \cup GateData},
             v \in {"fixed", "notFixed"} : outcome' = Scored(v, GateData, read)
    BY <1>15 DEF FixGate
  <2>2. GateData \in SUBSET AllCase /\ read \in SUBSET AllCase
    BY <2>1, DataType DEF GateData, Artifact
  <2>3. outcome' \in Outcome
    BY <2>1, <2>2 DEF Scored, Outcome
  <2>4. QED BY <1>15, <2>3 DEF FixGate, EndFix, Derive, Stage, config, loop, report
<1>16. CASE FixRaises
  BY <1>16 DEF FixRaises, config, loop, report, Derive, EndFix, Artifact,
    StopReason, Stage, Op, AllCase
<1>17. CASE UNCHANGED vars
  BY <1>17 DEF vars, config, loop, report, fixing, Artifact, StopReason, Stage,
    Op, AllCase
<1>18. QED BY <1>1, <1>2, <1>3, <1>4, <1>5, <1>6, <1>7, <1>8, <1>9, <1>10,
         <1>11, <1>12, <1>13, <1>14, <1>15, <1>16, <1>17 DEF Next

-----------------------------------------------------------------------------
(* No case of the final partition is one the session may mine, test or     *)
(* search on.                                                              *)
LEMMA FinalOutsideAllowed ==
  ASSUME TypeOK, Disjoint, ReservedFinal
  PROVE  (Allowed \cup DevData) \cap FinalData = {}
<1> USE CaseAssumption DEF TypeOK, Disjoint, Allowed, DevData, FinalData,
      HoldoutMode, HoldoutTarget
<1>1. CASE test # {}
  BY <1>1
<1>2. CASE test = {} /\ val # {} /\ confirm # {}
  BY <1>2
<1>3. CASE test = {} /\ val = {} /\ confirm # {} /\ ~m4Holdout
  BY <1>3
<1>4. QED BY <1>1, <1>2, <1>3 DEF ReservedFinal

(* Searching and scoring never share a case.                               *)
LEMMA DevOutsideFinal ==
  ASSUME TypeOK, Disjoint, confirm # {}
  PROVE  DevData \cap FinalData = {}
BY CaseAssumption DEF TypeOK, Disjoint, DevData, FinalData

(* A fixed outcome was scored on the final partition; only FixSearch       *)
(* without a held-out split and FixGate write one.                         *)
LEMMA FixedStep ==
  ASSUME TypeOK, Disjoint, FixedOnFinal, [Next]_vars
  PROVE  FixedOnFinal'
<1> USE ConfigConstant DEF FixedOnFinal, FinalData, DevData, config
<1>1. CASE StartRun
  BY <1>1 DEF StartRun, ClearReport, loop, report, fixing
<1>2. CASE StartAnalysis
  BY <1>2 DEF StartAnalysis, ClearReport, loop, report, fixing
<1>3. ASSUME NEW supplied \in BOOLEAN, StartConfirm(supplied) PROVE FixedOnFinal'
  BY <1>3 DEF StartConfirm, ClearReport, loop, report, fixing
<1>4. CASE CycleHead
  BY <1>4 DEF CycleHead, ClearReport, loop, report, fixing
<1>5. CASE M1
  BY <1>5 DEF M1, ClearReport, loop, report, fixing
<1>6. CASE M2
  BY <1>6 DEF M2, ClearReport, loop, report, fixing
<1>7. CASE M3Error
  BY <1>7 DEF M3Error, ClearReport, loop, report, fixing
<1>8. ASSUME NEW proposed \in SUBSET Hyp, M3(proposed) PROVE FixedOnFinal'
  BY <1>8 DEF M3, ClearReport, loop, report, fixing
<1>9. ASSUME NEW rs \in TestResults(fresh), M4(rs) PROVE FixedOnFinal'
  BY <1>9 DEF M4, ClearReport, loop, report, fixing
<1>10. CASE ConfirmTest
  BY <1>10 DEF ConfirmTest, ClearReport, loop, report, fixing
<1>11. CASE HoldoutPass
  BY <1>11 DEF HoldoutPass, ClearReport, loop, report, fixing
<1>12. ASSUME NEW au \in BOOLEAN, RunM5(au) PROVE FixedOnFinal'
  BY <1>12 DEF RunM5, ClearReport, loop, report, fixing
<1>13. ASSUME NEW au \in BOOLEAN, StartFix(au) PROVE FixedOnFinal'
  BY <1>13 DEF StartFix, report, Scored
<1>14. CASE FixSearch
  BY <1>14 DEF FixSearch, Scored, EndFix
<1>15. CASE FixGate
  BY <1>15, DevOutsideFinal DEF FixGate, Scored, EndFix, GateData
<1>16. CASE FixRaises
  BY <1>16 DEF FixRaises, EndFix
<1>17. CASE UNCHANGED vars
  BY <1>17 DEF vars, ClearReport, loop, report, fixing
<1>18. QED BY <1>1, <1>2, <1>3, <1>4, <1>5, <1>6, <1>7, <1>8, <1>9, <1>10,
         <1>11, <1>12, <1>13, <1>14, <1>15, <1>16, <1>17 DEF Next

(* Only the held-out pass writes verdicts in holdout mode.                 *)
LEMMA HoldoutStep ==
  ASSUME TypeOK, ControlInv, VerifiedOnHoldout, [Next]_vars
  PROVE  VerifiedOnHoldout'
<1> USE ConfigConstant DEF VerifiedOnHoldout, HoldoutMode, HoldoutTarget,
      config, ControlInv, TypeOK
<1>1. CASE StartRun
  BY <1>1 DEF StartRun, ClearReport, KeepOnly, Artifact
<1>2. CASE StartAnalysis
  BY <1>2 DEF StartAnalysis, ClearReport, KeepOnly, Artifact
<1>3. ASSUME NEW supplied \in BOOLEAN, StartConfirm(supplied) PROVE VerifiedOnHoldout'
  BY <1>3 DEF StartConfirm, ClearReport, KeepOnly, Artifact
<1>4. CASE CycleHead
  BY <1>4 DEF CycleHead, loop, fixing, Artifact, Return
<1>5. CASE M1
  BY <1>5 DEF M1, Derive, loop, fixing, Artifact, Return
<1>6. CASE M2
  BY <1>6 DEF M2, Derive, loop, fixing, Artifact, Return
<1>7. CASE M3Error
  BY <1>7 DEF M3Error, fixing, Artifact, Return
<1>8. ASSUME NEW proposed \in SUBSET Hyp, M3(proposed) PROVE VerifiedOnHoldout'
  BY <1>8 DEF M3, Derive, fixing, Artifact, Return
<1>9. ASSUME NEW rs \in TestResults(fresh), M4(rs) PROVE VerifiedOnHoldout'
  BY <1>9 DEF M4, Derive, fixing, Artifact, Return
<1>10. CASE ConfirmTest
  BY <1>10 DEF ConfirmTest, TestResults, Derive, Artifact
<1>11. CASE HoldoutPass
  BY <1>11 DEF HoldoutPass, Derive, loop, fixing, Artifact
<1>12. ASSUME NEW au \in BOOLEAN, RunM5(au) PROVE VerifiedOnHoldout'
  BY <1>12 DEF RunM5, Derive, loop, report, fixing, Artifact
<1>13. ASSUME NEW au \in BOOLEAN, StartFix(au) PROVE VerifiedOnHoldout'
  BY <1>13 DEF StartFix, report, Artifact
<1>14. CASE FixSearch
  BY <1>14 DEF FixSearch, Derive, EndFix, loop, report, Artifact
<1>15. CASE FixGate
  BY <1>15 DEF FixGate, Derive, EndFix, loop, report, Artifact
<1>16. CASE FixRaises
  BY <1>16 DEF FixRaises, Derive, EndFix, loop, report, Artifact
<1>17. CASE UNCHANGED vars
  BY <1>17 DEF vars, loop, report, fixing, Artifact
<1>18. QED BY <1>1, <1>2, <1>3, <1>4, <1>5, <1>6, <1>7, <1>8, <1>9, <1>10,
         <1>11, <1>12, <1>13, <1>14, <1>15, <1>16, <1>17 DEF Next

(* Only StartFix chooses hypotheses, and only idle calls change evidence.  *)
LEMMA ProposerStep ==
  ASSUME TypeOK, ControlInv, ProposerEvidence, [Next]_vars
  PROVE  ProposerEvidence'
<1> USE DEF ProposerEvidence, ControlInv
<1>1. CASE StartRun
  BY <1>1 DEF StartRun, Call, ClearReport, M5Refuted, Verified
<1>2. CASE StartAnalysis
  BY <1>2 DEF StartAnalysis, Call, ClearReport, M5Refuted, Verified
<1>3. ASSUME NEW supplied \in BOOLEAN, StartConfirm(supplied) PROVE ProposerEvidence'
  BY <1>3 DEF StartConfirm, Call, ClearReport, M5Refuted, Verified
<1>4. CASE CycleHead
  BY <1>4 DEF CycleHead, Return, M5Refuted, Verified, loop, fixing
<1>5. CASE M1
  BY <1>5 DEF M1, Return, M5Refuted, Verified, loop, fixing
<1>6. CASE M2
  BY <1>6 DEF M2, Return, M5Refuted, Verified, loop, fixing
<1>7. CASE M3Error
  BY <1>7 DEF M3Error, Return, M5Refuted, Verified, fixing
<1>8. ASSUME NEW proposed \in SUBSET Hyp, M3(proposed) PROVE ProposerEvidence'
  BY <1>8 DEF M3, Return, M5Refuted, Verified, fixing
<1>9. ASSUME NEW rs \in TestResults(fresh), M4(rs) PROVE ProposerEvidence'
  BY <1>9 DEF M4, Return, M5Refuted, Verified, fixing
<1>10. CASE ConfirmTest
  BY <1>10 DEF ConfirmTest, Return, M5Refuted, Verified, loop, fixing
<1>11. CASE HoldoutPass
  BY <1>11 DEF HoldoutPass, M5Refuted, Verified, loop, fixing
<1>12. ASSUME NEW au \in BOOLEAN, RunM5(au) PROVE ProposerEvidence'
  BY <1>12 DEF RunM5, M5Refuted, Verified, loop, report, fixing
<1>13. ASSUME NEW au \in BOOLEAN, StartFix(au) PROVE ProposerEvidence'
  BY <1>13 DEF StartFix, Leads, Prefixes, M5Refuted, Verified, report
<1>14. CASE FixSearch
  BY <1>14 DEF FixSearch, EndFix, M5Refuted, Verified, loop, report
<1>15. CASE FixGate
  BY <1>15 DEF FixGate, EndFix, M5Refuted, Verified, loop, report
<1>16. CASE FixRaises
  BY <1>16 DEF FixRaises, EndFix, M5Refuted, Verified, loop, report
<1>17. CASE UNCHANGED vars
  BY <1>17 DEF vars, M5Refuted, Verified, loop, report, fixing
<1>18. QED BY <1>1, <1>2, <1>3, <1>4, <1>5, <1>6, <1>7, <1>8, <1>9, <1>10,
         <1>11, <1>12, <1>13, <1>14, <1>15, <1>16, <1>17 DEF Next

(* Only run_analysis defers the e-BH verdict; M2 and run_confirm settle it. *)
LEMMA AdjudicatedStep ==
  ASSUME TypeOK, ControlInv, Adjudicated, [Next]_vars
  PROVE  Adjudicated'
<1> USE DEF Adjudicated, ControlInv
<1>1. CASE StartRun
  BY <1>1 DEF StartRun, Call, ClearReport
<1>2. CASE StartAnalysis
  BY <1>2 DEF StartAnalysis, Call, ClearReport
<1>3. ASSUME NEW supplied \in BOOLEAN, StartConfirm(supplied) PROVE Adjudicated'
  BY <1>3 DEF StartConfirm, Call, ClearReport, Finalize
<1>4. CASE CycleHead
  BY <1>4 DEF CycleHead, Return, loop, fixing
<1>5. CASE M1
  BY <1>5 DEF M1, Return, loop, fixing
<1>6. CASE M2
  BY <1>6 DEF M2, Return, loop, fixing
<1>7. CASE M3Error
  BY <1>7 DEF M3Error, Return, fixing
<1>8. ASSUME NEW proposed \in SUBSET Hyp, M3(proposed) PROVE Adjudicated'
  BY <1>8 DEF M3, Return, fixing
<1>9. ASSUME NEW rs \in TestResults(fresh), M4(rs) PROVE Adjudicated'
  BY <1>9 DEF M4, Return, fixing
<1>10. CASE ConfirmTest
  BY <1>10 DEF ConfirmTest, Return, loop, fixing
<1>11. CASE HoldoutPass
  BY <1>11 DEF HoldoutPass, loop, fixing
<1>12. ASSUME NEW au \in BOOLEAN, RunM5(au) PROVE Adjudicated'
  BY <1>12 DEF RunM5, loop, report, fixing
<1>13. ASSUME NEW au \in BOOLEAN, StartFix(au) PROVE Adjudicated'
  BY <1>13 DEF StartFix, report
<1>14. CASE FixSearch
  BY <1>14 DEF FixSearch, EndFix, loop, report
<1>15. CASE FixGate
  BY <1>15 DEF FixGate, EndFix, loop, report
<1>16. CASE FixRaises
  BY <1>16 DEF FixRaises, EndFix, loop, report
<1>17. CASE UNCHANGED vars
  BY <1>17 DEF vars, loop, report, fixing
<1>18. QED BY <1>1, <1>2, <1>3, <1>4, <1>5, <1>6, <1>7, <1>8, <1>9, <1>10,
         <1>11, <1>12, <1>13, <1>14, <1>15, <1>16, <1>17 DEF Next

-----------------------------------------------------------------------------
(* A fresh session satisfies the invariant.                                *)
LEMMA InitIInv == Init => IInv
<1> SUFFICES ASSUME Init PROVE IInv
  OBVIOUS
<1>1. PICK nConfirm \in 0..Cardinality(Case), nTest \in 0..Cardinality(Case),
           v \in {{}, ValCase} :
         /\ v # {} => nTest = 0
         /\ \E p \in SplitPartitions(nConfirm, nTest) :
              explore = p[1] /\ confirm = p[2] /\ test = p[3]
         /\ val = v
  BY DEF Init
<1>2. PICK p \in SplitPartitions(nConfirm, nTest) :
         explore = p[1] /\ confirm = p[2] /\ test = p[3]
  BY <1>1
<1>3. nConfirm \in Nat /\ nTest \in Nat
  OBVIOUS
<1>4. /\ explore \in SUBSET Case /\ confirm \in SUBSET Case /\ test \in SUBSET Case
      /\ val \in SUBSET ValCase /\ Disjoint
  BY <1>1, <1>2, <1>3, SplitDisjoint DEF Disjoint
<1>5. TypeOK
  <2>1. basis \in [Artifact -> SUBSET AllCase]
    BY DEF Init
  <2>2. /\ cycle \in 0..MaxCycles /\ attempt \in 0..Retries /\ calls \in 0..MaxCalls
        /\ pc \in Stage /\ op \in Op
    BY SizesNat DEF Init, Stage, Op
  <2>3. QED BY <1>4, <2>1, <2>2 DEF Init, TypeOK
<1>6. BasisInv
  BY DEF Init, BasisInv, Artifact
<1>7. ControlInv /\ FixedOnFinal /\ VerifiedOnHoldout /\ ProposerEvidence /\ Adjudicated
  BY DEF Init, ControlInv, FixedOnFinal, VerifiedOnHoldout, ProposerEvidence,
    Adjudicated
<1>8. QED BY <1>4, <1>5, <1>6, <1>7 DEF IInv

(* Every step preserves the invariant.                                     *)
LEMMA StepIInv == IInv /\ [Next]_vars => IInv'
<1> SUFFICES ASSUME IInv, [Next]_vars PROVE IInv'
  OBVIOUS
<1>1. Disjoint'
  BY ConfigConstant DEF IInv, Disjoint, config
<1>2. TypeOK' /\ ControlInv' /\ BasisInv'
  BY TypeStep, ControlStep, BasisStep DEF IInv
<1>3. FixedOnFinal' /\ VerifiedOnHoldout' /\ ProposerEvidence' /\ Adjudicated'
  BY FixedStep, HoldoutStep, ProposerStep, AdjudicatedStep DEF IInv
<1>4. QED BY <1>1, <1>2, <1>3 DEF IInv

(* The inductive invariant holds in every state of every session.          *)
THEOREM IInvAlways == Spec => []IInv
BY InitIInv, StepIInv, PTL DEF Spec

(* Type correctness, for every batch, hypothesis set and bound.            *)
THEOREM TypeCorrect == Spec => []TypeOK
<1>1. IInv => TypeOK
  BY DEF IInv
<1>2. QED BY <1>1, IInvAlways, PTL

(* M3 mines EXPLORE only, whatever order the public calls come in.         *)
THEOREM MiningIsConfined == Spec => []MinedOnExplore
<1>1. IInv => MinedOnExplore
  BY DEF IInv, BasisInv, MinedOnExplore
<1>2. QED BY <1>1, IInvAlways, PTL

(* In the modes that reserve a final partition nothing before the final    *)
(* gate has read one of its cases.                                         *)
THEOREM FinalPartitionUntouched == Spec => []FinalUntouched
<1>1. IInv => FinalUntouched
  <2> SUFFICES ASSUME IInv, ReservedFinal, NEW a \in Artifact
               PROVE  basis[a] \cap FinalData = {}
    BY DEF FinalUntouched
  <2>1. (Allowed \cup DevData) \cap FinalData = {}
    BY FinalOutsideAllowed DEF IInv
  <2>2. basis[a] \subseteq Allowed \cup DevData
    BY DEF IInv, BasisInv, Artifact, Allowed
  <2>3. QED BY <2>1, <2>2
<1>2. QED BY <1>1, IInvAlways, PTL

(* Every fix a report shows was scored on the final partition alone.       *)
THEOREM FixesScoredOnFinal == Spec => []FixedOnFinal
<1>1. IInv => FixedOnFinal
  BY DEF IInv
<1>2. QED BY <1>1, IInvAlways, PTL

(* In holdout mode a report's verdicts come from the held-out pass.        *)
THEOREM VerdictsFromHoldout == Spec => []VerifiedOnHoldout
<1>1. IInv => VerifiedOnHoldout
  BY DEF IInv
<1>2. QED BY <1>1, IInvAlways, PTL

(* run_fix's evidence gate holds for every hypothesis set and lead bound.  *)
THEOREM ProposerGated == Spec => []ProposerEvidence
<1>1. IInv => ProposerEvidence
  BY DEF IInv
<1>2. QED BY <1>1, IInvAlways, PTL

(* M4 never reads statistics whose e-BH verdict is still deferred.         *)
THEOREM StatsAdjudicated == Spec => []TestsConfirmatory
<1>1. IInv => TestsConfirmatory
  BY DEF IInv, ControlInv, Adjudicated, TestsConfirmatory
<1>2. QED BY <1>1, IInvAlways, PTL
-----------------------------------------------------------------------------
(* The report a call is writing: a held-out status is the last thing to be  *)
(* set, and in holdout mode run() has no verdict to stop on.                *)
ReportInv ==
  /\ stoppedBy = "criteria_met" => Verified # {}
  /\ holdoutStatus = "failed" => Verified = {}
  /\ pc \in {"cycle", "m1", "m2", "m3", "m4", "test", "holdout"} => holdoutStatus = None
  /\ HoldoutMode /\ op = "run" => stoppedBy # "criteria_met"

(* A call that starts a new report starts a consistent one.               *)
LEMMA Cleared ==
  ASSUME ClearReport PROVE ReportInv'
BY ReasonAssumption DEF ClearReport, ReportInv, StopReason

(* A stage before M4 ends the call, or not, for a reason of its own.        *)
LEMMA MiningReport ==
  ASSUME ReportInv, UNCHANGED <<config, op, results, holdoutStatus>>,
         pc \in {"cycle", "m1", "m2", "m3", "m4", "test", "holdout"},
         stoppedBy' = stoppedBy \/ stoppedBy' # "criteria_met"
  PROVE  ReportInv'
BY ReasonAssumption DEF ReportInv, Verified, HoldoutMode, HoldoutTarget, config

(* run_m5, the search and the gate leave the report's verdicts alone.       *)
LEMMA QuietReport ==
  ASSUME ReportInv, UNCHANGED <<config, results, holdoutStatus, stoppedBy>>,
         op' = op \/ op' = "fix",
         pc' \notin {"cycle", "m1", "m2", "m3", "m4", "test", "holdout"} \/ pc' = pc
  PROVE  ReportInv'
BY DEF ReportInv, Verified, HoldoutMode, HoldoutTarget, config

(* Every step keeps the report in agreement with itself.                  *)
LEMMA ReportStep ==
  ASSUME TypeOK, ControlInv, ReportInv, [Next]_vars
  PROVE  ReportInv'
<1>1. CASE StartRun \/ StartAnalysis \/ \E supplied \in BOOLEAN : StartConfirm(supplied)
  BY <1>1, Cleared DEF StartRun, StartAnalysis, StartConfirm
<1>2. CASE CycleHead \/ M1 \/ M2 \/ M3Error \/ \E proposed \in SUBSET Hyp : M3(proposed)
  <2>1. /\ UNCHANGED <<config, op, results, holdoutStatus>>
        /\ pc \in {"cycle", "m1", "m2", "m3"}
    BY <1>2 DEF CycleHead, M1, M2, M3Error, M3, loop
  <2>2. stoppedBy' = stoppedBy \/ stoppedBy' # "criteria_met"
    BY <1>2 DEF CycleHead, M1, M2, M3Error, M3, Return
  <2>3. QED BY <2>1, <2>2, MiningReport
<1>3. ASSUME NEW rs \in TestResults(fresh), M4(rs)
      PROVE  ReportInv'
  <2>1. /\ results' = results \cup rs /\ holdoutStatus' = holdoutStatus /\ ~HoldoutMode
        /\ holdoutStatus = None /\ UNCHANGED config
        /\ stoppedBy' = stoppedBy \/ CriteriaMet(rs)
    BY <1>3 DEF M4, Return, ControlInv, ReportInv
  <2>2. Verified \subseteq Verified' /\ (CriteriaMet(rs) => Verified' # {})
    BY <2>1 DEF Verified, Best, CriteriaMet
  <2>3. ~HoldoutMode'
    BY <2>1 DEF HoldoutMode, HoldoutTarget, config
  <2>4. QED BY <2>1, <2>2, <2>3, ReasonAssumption DEF ReportInv
<1>4. CASE ConfirmTest
  <2>1. op = "confirm" /\ UNCHANGED <<config, op, holdoutStatus>> /\ holdoutStatus = None
    BY <1>4 DEF ConfirmTest, ControlInv, ReportInv, loop
  <2>2. CASE hyps # {} /\ HoldoutMode
    BY <1>4, <2>1, <2>2, MiningReport DEF ConfirmTest
  <2>3. CASE ~(hyps # {} /\ HoldoutMode)
    <3>1. PICK rs \in TestResults(hyps) : results' = rs /\ Return(ConfirmReason(rs))
      BY <1>4, <2>3 DEF ConfirmTest
    <3>2. stoppedBy' = "criteria_met" => Verified' # {}
      BY <3>1 DEF Return, ConfirmReason, Verified
    <3>3. QED BY <2>1, <3>2, ReasonAssumption DEF ReportInv
  <2>4. QED BY <2>2, <2>3
<1>5. CASE HoldoutPass
  <2>1. /\ HoldoutMode /\ op \in {"run", "confirm"} /\ pc' = "idle"
        /\ UNCHANGED <<config, op>>
        /\ stoppedBy' = IF op = "confirm" THEN ConfirmReason(results') ELSE stoppedBy
    BY <1>5 DEF HoldoutPass, ControlInv, loop
  <2>2. holdoutStatus' = "failed" => Verified' = {}
    BY <1>5 DEF HoldoutPass, Verified, Best
  <2>3. stoppedBy' = "criteria_met" => Verified' # {} /\ op = "confirm"
    BY <2>1 DEF ReportInv, ConfirmReason, Verified
  <2>4. QED BY <2>1, <2>2, <2>3 DEF ReportInv
<1>6. ASSUME NEW au \in BOOLEAN, RunM5(au)
      PROVE  ReportInv'
  BY <1>6, QuietReport DEF RunM5, report, loop
<1>7. ASSUME NEW au \in BOOLEAN, StartFix(au)
      PROVE  ReportInv'
  <2>1. UNCHANGED <<config, results, holdoutStatus, stoppedBy>> /\ op' = "fix"
        /\ pc' \in {"idle", "fixSearch"}
    BY <1>7 DEF StartFix, report
  <2>2. QED BY <2>1, QuietReport
<1>8. CASE FixSearch \/ FixGate \/ FixRaises
  <2>1. UNCHANGED <<config, results, holdoutStatus, stoppedBy, op>>
        /\ pc' \in {"idle", "fixGate"}
    BY <1>8 DEF FixSearch, FixGate, FixRaises, EndFix, report, loop
  <2>2. QED BY <2>1, QuietReport
<1>9. CASE UNCHANGED vars
  BY <1>9, QuietReport DEF vars, report, loop
<1>10. QED BY <1>1, <1>2, <1>3, <1>4, <1>5, <1>6, <1>7, <1>8, <1>9 DEF Next

(* The report of a finished call agrees with itself: what stopped it, what  *)
(* it calls verified, and how the held-out pass went.                       *)
THEOREM ReportsAgree == Spec => []ReportConsistent
<1>1. Init => ReportInv
  BY ReasonAssumption DEF Init, ReportInv, StopReason
<1>2. IInv /\ ReportInv /\ [Next]_vars => ReportInv'
  BY ReportStep DEF IInv
<1>3. ReportInv => ReportConsistent
  BY DEF ReportInv, ReportConsistent
<1>4. QED BY <1>1, <1>2, <1>3, IInvAlways, PTL DEF Spec
-----------------------------------------------------------------------------
(* No split starves the mining stages or loses a case: a CONFIRM draw is   *)
(* smaller than the batch, a TEST draw smaller than what CONFIRM left.     *)
Partitioned == explore # {} /\ explore \cup confirm \cup test = Case

(* A draw smaller than its pool leaves something of it.                    *)
LEMMA DrawLeaves ==
  ASSUME NEW S, IsFiniteSet(S), NEW T \in SUBSET S, NEW n \in Nat,
         Cardinality(T) <= n, n < Cardinality(S)
  PROVE  S \ T # {} /\ IsFiniteSet(S \ T)
<1>1. S # T
  BY FS_Subset, FS_CardinalityType
<1>2. IsFiniteSet(S \ T)
  BY FS_Difference
<1> QED BY <1>1, <1>2

(* _split_partitions covers the batch and leaves EXPLORE a case.           *)
LEMMA SplitCovers ==
  ASSUME IsFiniteSet(Case), Case # {}, NEW nConfirm \in Nat, NEW nTest \in Nat,
         NEW p \in SplitPartitions(nConfirm, nTest)
  PROVE  p[1] # {} /\ p[1] \cup p[2] \cup p[3] = Case
<1> DEFINE len == Cardinality(Case)
<1>1. len \in Nat
  BY FS_CardinalityType
<1>2. CASE len < 4 \/ nConfirm = 0 \/ nConfirm >= len
  <2>1. p = <<Case, {}, {}>>
    BY <1>2 DEF SplitPartitions
  <2> QED BY <2>1
<1>3. CASE ~(len < 4 \/ nConfirm = 0 \/ nConfirm >= len)
  <2>1. PICK c \in Draws(Case, nConfirm, nTest > 0) :
          p \in IF nTest = 0 \/ nTest >= Cardinality(Case \ c)
                THEN {<<Case \ c, c, {}>>}
                ELSE {<<(Case \ c) \ t, c, t>> : t \in Draws(Case \ c, nTest, TRUE)}
    BY <1>3 DEF SplitPartitions
  <2>2. c \in SUBSET Case /\ Cardinality(c) <= nConfirm
    BY DEF Draws
  <2>3. Case \ c # {} /\ IsFiniteSet(Case \ c)
    BY <1>1, <1>3, <2>2, DrawLeaves
  <2>4. CASE nTest = 0 \/ nTest >= Cardinality(Case \ c)
    <3>1. p = <<Case \ c, c, {}>>
      BY <2>1, <2>4
    <3> QED BY <2>2, <2>3, <3>1
  <2>5. CASE ~(nTest = 0 \/ nTest >= Cardinality(Case \ c))
    <3>1. PICK t \in Draws(Case \ c, nTest, TRUE) : p = <<(Case \ c) \ t, c, t>>
      BY <2>1, <2>5
    <3>2. t \in SUBSET (Case \ c) /\ Cardinality(t) = nTest
      BY DEF Draws
    <3>3. Cardinality(Case \ c) \in Nat
      BY <2>3, FS_CardinalityType
    <3>4. (Case \ c) \ t # {}
      BY <2>3, <2>5, <3>2, <3>3, DrawLeaves
    <3> QED BY <2>2, <3>1, <3>2, <3>4
  <2> QED BY <2>4, <2>5
<1> QED BY <1>2, <1>3

(* Whatever the two split fractions round to, every call of a session      *)
(* mines at least one case, and every case of a non-empty batch is in one  *)
(* of the partitions: none is silently dropped.                            *)
THEOREM SplitsArePartitions ==
  ASSUME IsFiniteSet(Case), Case # {}
  PROVE  Spec => []Partitioned
<1>1. Init => Partitioned
  <2> SUFFICES ASSUME Init PROVE Partitioned
    OBVIOUS
  <2>1. PICK nConfirm \in 0..Cardinality(Case), nTest \in 0..Cardinality(Case) :
          \E p \in SplitPartitions(nConfirm, nTest) :
            explore = p[1] /\ confirm = p[2] /\ test = p[3]
    BY DEF Init
  <2>2. PICK p \in SplitPartitions(nConfirm, nTest) :
          explore = p[1] /\ confirm = p[2] /\ test = p[3]
    BY <2>1
  <2>3. nConfirm \in Nat /\ nTest \in Nat
    OBVIOUS
  <2> QED BY <2>2, <2>3, SplitCovers DEF Partitioned
<1>2. Partitioned /\ [Next]_vars => Partitioned'
  BY ConfigConstant DEF Partitioned, config
<1> QED BY <1>1, <1>2, PTL DEF Spec

-----------------------------------------------------------------------------
(* The step after which a fixed report rests on a candidate that has read  *)
(* the cases it was scored on is the final gate's, and the candidate was   *)
(* rewritten from exactly those cases.                                     *)
Rewritten == FixGate /\ outcome'.candidate = basis["candidates"] \cup GateData
OnlyTheGateThaws == [][FrozenWhenScored /\ ~FrozenWhenScored' => Rewritten]_vars

(* A step that leaves the outcome alone leaves a frozen one frozen.        *)
LEMMA SameOutcome ==
  ASSUME [Next]_vars, UNCHANGED outcome, FrozenWhenScored
  PROVE  FrozenWhenScored'
BY ConfigConstant DEF FrozenWhenScored, ReservedFinal, config

(* A report without a fix has nothing to thaw.                             *)
LEMMA NothingFixed ==
  ASSUME outcome' = None \/ outcome'.verdict # "fixed"
  PROVE  FrozenWhenScored'
BY DEF FrozenWhenScored

(* How far FrozenWhenScored is off: in every mode with a reserved final    *)
(* partition, only the final gate can break it, and only by rewriting the  *)
(* candidate; a candidate that runs there as it was frozen keeps it.       *)
THEOREM OnlyTheFinalRunThaws == Spec => OnlyTheGateThaws
<1>1. IInv /\ [Next]_vars => (FrozenWhenScored /\ ~FrozenWhenScored' => Rewritten)
  <2> SUFFICES ASSUME IInv, [Next]_vars, FrozenWhenScored, ~Rewritten
               PROVE  FrozenWhenScored'
    OBVIOUS
  <2>1. CASE StartRun \/ StartAnalysis \/ \E supplied \in BOOLEAN : StartConfirm(supplied)
    BY <2>1, NothingFixed DEF StartRun, StartAnalysis, StartConfirm, ClearReport
  <2>2. CASE CycleHead \/ M1 \/ M2 \/ M3Error \/ ConfirmTest \/ HoldoutPass
    BY <2>2, SameOutcome DEF CycleHead, M1, M2, M3Error, ConfirmTest, HoldoutPass, fixing
  <2>3. CASE \/ \E proposed \in SUBSET Hyp : M3(proposed)
             \/ \E rs \in TestResults(fresh) : M4(rs)
             \/ \E au \in BOOLEAN : RunM5(au)
    BY <2>3, SameOutcome DEF M3, M4, RunM5, fixing
  <2>4. ASSUME NEW au \in BOOLEAN, StartFix(au)
        PROVE  FrozenWhenScored'
    <3>1. outcome' = Scored("skipped", {}, {}) \/ outcome' = outcome
      BY <2>4 DEF StartFix
    <3> QED BY <3>1, SameOutcome, NothingFixed DEF Scored
  <2>5. CASE FixSearch
    <3>1. CASE confirm = {}
      <4>1. test = {} /\ UNCHANGED config
        BY <3>1, ConfigConstant DEF IInv, Disjoint
      <4> QED BY <3>1, <4>1 DEF FrozenWhenScored, ReservedFinal, config
    <3>2. CASE confirm # {}
      <4>1. outcome' = Scored("notFixed", {}, {}) \/ outcome' = outcome
        BY <2>5, <3>2 DEF FixSearch
      <4> QED BY <4>1, SameOutcome, NothingFixed DEF Scored
    <3> QED BY <3>1, <3>2
  <2>6. CASE FixGate
    <3>1. PICK read \in {basis["candidates"], basis["candidates"] \cup GateData},
               v \in {"fixed", "notFixed"} : outcome' = Scored(v, GateData, read)
      BY <2>6 DEF FixGate
    <3>2. outcome'.candidate = basis["candidates"] /\ outcome'.scoredOn = FinalData
      BY <2>6, <3>1 DEF Scored, GateData, Rewritten
    <3>3. ReservedFinal' = ReservedFinal
      BY ConfigConstant DEF ReservedFinal, config
    <3>4. ReservedFinal => basis["candidates"] \cap FinalData = {}
      BY FinalOutsideAllowed DEF IInv, BasisInv
    <3> QED BY <3>2, <3>3, <3>4 DEF FrozenWhenScored
  <2>7. CASE FixRaises \/ UNCHANGED vars
    BY <2>7, SameOutcome DEF FixRaises, vars, fixing
  <2> QED BY <2>1, <2>2, <2>3, <2>4, <2>5, <2>6, <2>7 DEF Next
<1> QED BY <1>1, IInvAlways, PTL DEF Spec, OnlyTheGateThaws
-----------------------------------------------------------------------------
(* How many steps the active call may still take: what is left of the      *)
(* cycle at hand, with its M3 retries, and the cycles after it.            *)
CycleSteps == Retries + 5

CyclesAhead == IF op = "run" THEN (MaxCycles - cycle - 1) * CycleSteps ELSE 0

StepsLeft ==
  CASE pc = "idle"                      -> 0
    [] pc \in {"holdout", "fixGate"}    -> 1
    [] pc \in {"test", "fixSearch"}     -> 2
    [] pc = "m4"                        -> 3 + CyclesAhead
    [] pc = "m3"                        -> 4 + CyclesAhead + Retries - attempt
    [] pc = "m2"                        -> 5 + CyclesAhead + Retries
    [] pc = "m1"                        -> 6 + CyclesAhead + Retries
    [] pc = "cycle"                     -> 2 + (MaxCycles - cycle) * CycleSteps

LongestCall == 2 + (MaxCycles + 1) * CycleSteps

(* Every step of a public call brings its return nearer.                   *)
StagesCount == [][pc # "idle" => StepsLeft' < StepsLeft]_vars

(* A product of two numbers is a number, and grows with its first factor.  *)
LEMMA Times ==
  ASSUME NEW x \in Nat, NEW y \in Nat, NEW k \in Nat, x <= y
  PROVE  x * k \in Nat /\ y * k \in Nat /\ x * k <= y * k
OBVIOUS

(* The cycles ahead, counted in steps, from a stage inside a cycle and     *)
(* from the head of the next one.                                          *)
LEMMA CyclesCount ==
  ASSUME TypeOK, ControlInv, pc \in {"m1", "m2", "m3", "m4"}
  PROVE  /\ CyclesAhead \in Nat /\ CyclesAhead <= MaxCycles * CycleSteps
         /\ op = "run" => CyclesAhead = (MaxCycles - (cycle + 1)) * CycleSteps
<1> USE SizesNat
<1>1. CycleSteps \in Nat /\ cycle \in 0..MaxCycles
  BY DEF CycleSteps, TypeOK
<1>2. MaxCycles * CycleSteps \in Nat
  BY <1>1, Times
<1>3. CASE op = "run"
  <2>1. cycle < MaxCycles
    BY <1>3 DEF ControlInv
  <2>2. MaxCycles - cycle - 1 \in Nat /\ MaxCycles - cycle - 1 <= MaxCycles
        /\ MaxCycles - cycle - 1 = MaxCycles - (cycle + 1)
    BY <1>1, <2>1
  <2>3. CyclesAhead = (MaxCycles - cycle - 1) * CycleSteps
    BY <1>3 DEF CyclesAhead
  <2>4. CyclesAhead \in Nat /\ CyclesAhead <= MaxCycles * CycleSteps
    BY <1>1, <2>2, <2>3, Times
  <2> QED BY <2>2, <2>3, <2>4
<1>4. CASE op # "run"
  BY <1>2, <1>4 DEF CyclesAhead
<1> QED BY <1>3, <1>4

(* A cycle started takes its own steps from what is left.                  *)
LEMMA CycleTaken ==
  ASSUME NEW c \in Nat, c < MaxCycles
  PROVE  /\ (MaxCycles - c) * CycleSteps = (MaxCycles - c - 1) * CycleSteps + CycleSteps
         /\ (MaxCycles - c - 1) * CycleSteps \in Nat
<1> USE SizesNat
<1>1. \A x \in Int, k \in Nat : x * k = (x - 1) * k + k
  OBVIOUS
<1>2. CycleSteps \in Nat /\ MaxCycles - c \in Int /\ MaxCycles - c - 1 \in Nat
  BY DEF CycleSteps
<1>3. (MaxCycles - c) * CycleSteps = (MaxCycles - c - 1) * CycleSteps + CycleSteps
  BY <1>1, <1>2
<1>4. (MaxCycles - c - 1) * CycleSteps \in Nat
  BY <1>2, Times
<1> QED BY <1>3, <1>4

(* The count is a number below the longest call's.                         *)
LEMMA StepsCount ==
  ASSUME TypeOK, ControlInv
  PROVE  StepsLeft \in 0..LongestCall
<1> USE SizesNat
<1>1. /\ CycleSteps \in Nat /\ CycleSteps = Retries + 5
      /\ attempt \in 0..Retries /\ cycle \in 0..MaxCycles
  BY DEF CycleSteps, TypeOK
<1>2. MaxCycles * CycleSteps \in Nat
  BY <1>1, Times
<1>3. LongestCall = 2 + MaxCycles * CycleSteps + CycleSteps
  <2>1. \A x \in Nat, k \in Nat : (x + 1) * k = x * k + k
    OBVIOUS
  <2> QED BY <1>1, <1>2, <2>1 DEF LongestCall
<1>4. CASE pc \in {"idle", "holdout", "fixGate", "test", "fixSearch"}
  <2>1. StepsLeft \in 0..2
    BY <1>4 DEF StepsLeft
  <2> QED BY <1>1, <1>2, <1>3, <2>1
<1>5. CASE pc \in {"m1", "m2", "m3", "m4"}
  <2>1. CyclesAhead \in Nat /\ CyclesAhead <= MaxCycles * CycleSteps
    BY <1>5, CyclesCount
  <2>2. /\ StepsLeft \in Int
        /\ 0 <= StepsLeft /\ StepsLeft <= 6 + CyclesAhead + Retries
    BY <1>1, <1>5, <2>1 DEF StepsLeft
  <2> QED BY <1>1, <1>2, <1>3, <2>1, <2>2
<1>6. CASE pc = "cycle"
  <2>1. MaxCycles - cycle \in Nat /\ MaxCycles - cycle <= MaxCycles
    BY <1>1
  <2>2. /\ (MaxCycles - cycle) * CycleSteps \in Nat
        /\ (MaxCycles - cycle) * CycleSteps <= MaxCycles * CycleSteps
    BY <1>1, <2>1, Times
  <2>3. StepsLeft = 2 + (MaxCycles - cycle) * CycleSteps
    BY <1>6 DEF StepsLeft
  <2> QED BY <1>1, <1>2, <1>3, <2>2, <2>3
<1>7. pc \in Stage
  BY DEF TypeOK
<1> QED BY <1>4, <1>5, <1>6, <1>7 DEF Stage

(* Ending the call costs at most the held-out pass.                        *)
LEMMA Returning ==
  ASSUME NEW r, Return(r)
  PROVE  StepsLeft' \in {0, 1}
BY DEF Return, StepsLeft

(* Each stage of a call hands on fewer steps than it had.                  *)
LEMMA StageRunsOut ==
  ASSUME TypeOK, ControlInv, Next, pc # "idle"
  PROVE  StepsLeft' < StepsLeft
<1> USE SizesNat
<1>0. cycle \in 0..MaxCycles /\ attempt \in 0..Retries /\ CycleSteps = Retries + 5
  BY DEF TypeOK, CycleSteps
<1>1. CASE CycleHead
  <2>1. /\ StepsLeft = 2 + (MaxCycles - cycle) * CycleSteps
        /\ op = "run" /\ UNCHANGED <<op, cycle, attempt>>
    BY <1>1 DEF CycleHead, StepsLeft, ControlInv, loop
  <2>2. CASE \E r \in {"max_cycles", "budget"} : Return(r)
    <3>1. StepsLeft' \in {0, 1}
      BY <2>2, Returning
    <3>2. MaxCycles - cycle \in Nat /\ CycleSteps \in Nat
      BY <1>0
    <3>3. (MaxCycles - cycle) * CycleSteps \in Nat
      BY <3>2, Times
    <3> QED BY <2>1, <3>1, <3>3
  <2>3. CASE cycle < MaxCycles /\ pc' = "m1"
    <3>1. StepsLeft' = 6 + (MaxCycles - cycle - 1) * CycleSteps + Retries
      BY <2>1, <2>3 DEF StepsLeft, CyclesAhead
    <3>2. /\ (MaxCycles - cycle) * CycleSteps = (MaxCycles - cycle - 1) * CycleSteps + CycleSteps
          /\ (MaxCycles - cycle - 1) * CycleSteps \in Nat
      BY <1>0, <2>3, CycleTaken
    <3> QED BY <1>0, <2>1, <3>1, <3>2
  <2> QED BY <1>1, <2>2, <2>3 DEF CycleHead
<1>2. ASSUME pc \in {"m1", "m2", "m3", "m4"}, NEW r, Return(r)
      PROVE  StepsLeft' < StepsLeft
  <2>1. StepsLeft' \in {0, 1}
    BY <1>2, Returning
  <2>2. CyclesAhead \in Nat
    BY <1>2, CyclesCount
  <2>3. StepsLeft >= 3 /\ StepsLeft \in Int
    BY <1>0, <1>2, <2>2 DEF StepsLeft
  <2> QED BY <2>1, <2>3
<1>3. CASE M1
  <2>1. CASE pc' = "m2"
    <3>1. pc = "m1" /\ UNCHANGED <<op, cycle>>
      BY <1>3 DEF M1, loop
    <3>2. StepsLeft = 6 + CyclesAhead + Retries /\ StepsLeft' = 5 + CyclesAhead + Retries
      BY <2>1, <3>1 DEF StepsLeft, CyclesAhead
    <3>3. CyclesAhead \in Nat
      BY <3>1, CyclesCount
    <3> QED BY <3>2, <3>3
  <2> QED BY <1>2, <1>3, <2>1 DEF M1
<1>4. CASE M2
  <2>1. pc = "m2" /\ UNCHANGED <<op, cycle, attempt>>
    BY <1>4 DEF M2, loop
  <2>2. CyclesAhead \in Nat /\ StepsLeft = 5 + CyclesAhead + Retries
    BY <2>1, CyclesCount DEF StepsLeft
  <2>3. CASE pc' = "test"
    <3>1. StepsLeft' = 2
      BY <2>3 DEF StepsLeft
    <3> QED BY <2>2, <3>1
  <2>4. CASE pc' = "m3"
    <3>1. StepsLeft' = 4 + CyclesAhead + Retries - attempt
      BY <2>1, <2>4 DEF StepsLeft, CyclesAhead
    <3> QED BY <1>0, <2>2, <3>1
  <2> QED BY <1>2, <1>4, <2>3, <2>4 DEF M2
<1>5. CASE M3Error
  <2>1. CASE MayRetry
    <3>1. /\ pc = "m3" /\ attempt < Retries /\ attempt' = attempt + 1
          /\ UNCHANGED <<pc, op, cycle>>
      BY <1>5, <2>1 DEF M3Error, MayRetry
    <3>2. /\ StepsLeft = 4 + CyclesAhead + Retries - attempt
          /\ StepsLeft' = 4 + CyclesAhead + Retries - (attempt + 1)
      BY <3>1 DEF StepsLeft, CyclesAhead
    <3>3. CyclesAhead \in Nat
      BY <3>1, CyclesCount
    <3> QED BY <1>0, <3>2, <3>3
  <2> QED BY <1>2, <1>5, <2>1 DEF M3Error
<1>6. ASSUME pc \in {"m3", "m4"}, op = "run", pc' = "cycle", cycle' = cycle + 1
      PROVE  StepsLeft' < StepsLeft
  <2>1. CyclesAhead \in Nat /\ CyclesAhead = (MaxCycles - (cycle + 1)) * CycleSteps
    BY <1>6, CyclesCount
  <2>2. StepsLeft' = 2 + CyclesAhead
    BY <1>6, <2>1 DEF StepsLeft, CycleSteps
  <2>3. StepsLeft >= 3 + CyclesAhead /\ StepsLeft \in Int
    BY <1>0, <1>6, <2>1 DEF StepsLeft
  <2> QED BY <2>1, <2>2, <2>3
<1>7. ASSUME NEW proposed \in SUBSET Hyp, M3(proposed)
      PROVE  StepsLeft' < StepsLeft
  <2>1. pc = "m3" /\ op' = op /\ op \in {"run", "analysis"} /\ attempt' = 0
    BY <1>7 DEF M3, ControlInv
  <2>2. CASE pc' = "m4" /\ cycle' = cycle
    <3>1. /\ StepsLeft = 4 + CyclesAhead + Retries - attempt
          /\ StepsLeft' = 3 + CyclesAhead
      BY <2>1, <2>2 DEF StepsLeft, CyclesAhead
    <3>2. CyclesAhead \in Nat
      BY <2>1, CyclesCount
    <3> QED BY <1>0, <3>1, <3>2
  <2>3. CASE op = "run" /\ pc' = "cycle" /\ cycle' = cycle + 1
    BY <1>6, <2>1, <2>3
  <2> QED BY <1>2, <1>7, <2>1, <2>2, <2>3 DEF M3
<1>8. ASSUME NEW rs \in TestResults(fresh), M4(rs)
      PROVE  StepsLeft' < StepsLeft
  BY <1>2, <1>6, <1>8 DEF M4, ControlInv
<1>9. CASE ConfirmTest
  <2>1. StepsLeft = 2
    BY <1>9 DEF ConfirmTest, StepsLeft
  <2>2. CASE pc' = "holdout"
    <3>1. StepsLeft' = 1
      BY <2>2 DEF StepsLeft
    <3> QED BY <2>1, <3>1
  <2>3. CASE \E r : Return(r)
    <3>1. StepsLeft' \in {0, 1}
      BY <2>3, Returning
    <3> QED BY <2>1, <3>1
  <2> QED BY <1>9, <2>2, <2>3 DEF ConfirmTest
<1>10. CASE HoldoutPass
  BY <1>10 DEF HoldoutPass, StepsLeft
<1>11. CASE FixSearch \/ FixGate \/ FixRaises
  BY <1>11 DEF FixSearch, FixGate, FixRaises, EndFix, StepsLeft
<1>12. ~(\/ StartRun \/ StartAnalysis
         \/ \E supplied \in BOOLEAN : StartConfirm(supplied)
         \/ \E au \in BOOLEAN : RunM5(au) \/ StartFix(au))
  BY DEF StartRun, StartAnalysis, StartConfirm, RunM5, StartFix, Call
<1> QED BY <1>1, <1>3, <1>4, <1>5, <1>7, <1>8, <1>9, <1>10, <1>11, <1>12 DEF Next

(* No public call can go on for ever, whatever the judge, the tests and    *)
(* the repairs answer: the steps it may still take are a number, bounded   *)
(* by max_cycles and diagnosis_retries, and every stage takes one away.    *)
THEOREM CallsRunOut == Spec => [](StepsLeft \in 0..LongestCall) /\ StagesCount
<1>1. IInv => StepsLeft \in 0..LongestCall
  BY StepsCount DEF IInv
<1>2. IInv /\ [Next]_vars => [pc # "idle" => StepsLeft' < StepsLeft]_vars
  BY StageRunsOut DEF IInv
<1> QED BY <1>1, <1>2, IInvAlways, PTL DEF Spec, StagesCount
=============================================================================
