-------------------------- MODULE FixLadderProofs --------------------------
(***************************************************************************)
(* What a repair search certifies, gives back and leaves untried, for any  *)
(* ladder, any gate, any results and any number of calls and candidates.   *)
(***************************************************************************)
EXTENDS FixLadder, FiniteSetTheorems, TLAPS

(* A product grows with its factor.                                        *)
LEMMA Scale ==
  ASSUME NEW x \in Int, NEW y \in Int, NEW k \in Nat, x <= y
  PROVE  x * k <= y * k
  OBVIOUS

(* Scaling by a positive number keeps a strict order.                     *)
LEMMA StrictScale ==
  ASSUME NEW x \in Int, NEW y \in Int, NEW k \in Nat \ {0}, x < y
  PROVE  x * k < y * k
<1>1. x + 1 <= y
  OBVIOUS
<1>2. (x + 1) * k <= y * k
  BY <1>1, Scale
<1>3. (x + 1) * k = x * k + k
  OBVIOUS
<1> QED BY <1>2, <1>3

(* A survivor of e-BH clears the uncorrected gate: the correction only     *)
(* ever takes candidates away.                                             *)
THEOREM SurvivorsClearTheGate ==
  ASSUME FixAssumption, NEW f, NEW S, IsFiniteSet(S), \A j \in S : f[j].e \in Int,
         NEW i \in ebh(f, S)
  PROVE  i \in S /\ f[i].e >= Gate
<1>1. PICK k \in 1 .. Cardinality(S) : i \in Clear(f, S, k)
  BY DEF ebh
<1>2. Cardinality(S) \in Nat /\ Gate \in Nat \ {0}
  BY FS_CardinalityType DEF FixAssumption
<1>3. i \in S /\ f[i].e \in Int /\ f[i].e * k >= Gate * Cardinality(S)
  BY <1>1 DEF Clear
<1>4. k \in Nat \ {0} /\ k <= Cardinality(S)
  BY <1>2
<1>5. Gate * Cardinality(S) >= Gate * k
  <2>1. k * Gate <= Cardinality(S) * Gate
    BY <1>2, <1>4, Scale
  <2> QED BY <2>1, <1>2, <1>4
<1>6. ~ (f[i].e < Gate)
  <2>1. SUFFICES ASSUME f[i].e < Gate PROVE FALSE
    OBVIOUS
  <2>2. f[i].e * k < Gate * k
    BY <2>1, <1>2, <1>3, <1>4, StrictScale
  <2> HIDE DEF ebh
  <2>3. f[i].e * k \in Int /\ Gate * k \in Int /\ Gate * Cardinality(S) \in Int
    BY <1>2, <1>3, <1>4
  <2> QED BY <2>2, <2>3, <1>3, <1>5
<1> QED BY <1>2, <1>3, <1>6

(* A candidate tested alone survives exactly if it clears its own gate:    *)
(* the final partition's test pays no price for the development search.    *)
THEOREM OneTestNeedsNoCorrection ==
  ASSUME FixAssumption, NEW f, NEW i, f[i].e \in Int
  PROVE  ebh(f, {i}) = IF f[i].e >= Gate THEN {i} ELSE {}
<1>1. IsFiniteSet({i}) /\ Cardinality({i}) = 1
  BY FS_Singleton
<1>2. Gate \in Nat \ {0}
  BY DEF FixAssumption
<1>3. CASE f[i].e >= Gate
  <2>1. Clear(f, {i}, 1) = {i}
    BY <1>1, <1>2, <1>3 DEF Clear
  <2>2. Rejects(f, {i}, 1)
    BY <2>1, <1>1 DEF Rejects
  <2>3. 1 \in 1 .. Cardinality({i})
    BY <1>1
  <2>4. i \in ebh(f, {i})
    BY <2>1, <2>2, <2>3 DEF ebh
  <2>5. ebh(f, {i}) \subseteq {i}
    BY DEF ebh
  <2> QED BY <1>3, <2>4, <2>5
<1>4. CASE ~ (f[i].e >= Gate)
  <2>1. ASSUME NEW j \in ebh(f, {i}) PROVE FALSE
    <3>1. j = i
      BY DEF ebh, Clear
    <3>2. \A l \in {i} : f[l].e \in Int
      OBVIOUS
    <3>3. f[j].e >= Gate
      BY <1>1, <3>2, SurvivorsClearTheGate
    <3> QED BY <1>4, <3>1, <3>3
  <2> QED BY <1>4, <2>1
<1> QED BY <1>3, <1>4

(* An e-value of Gate times the family's size survives whatever else was   *)
(* tried.                                                                  *)
THEOREM StrongEvidenceSurvives ==
  ASSUME FixAssumption, NEW f, NEW S, IsFiniteSet(S), \A j \in S : f[j].e \in Int,
         NEW i \in S, f[i].e >= Gate * Cardinality(S)
  PROVE  i \in ebh(f, S)
<1>1. Cardinality(S) \in Nat \ {0} /\ Gate \in Nat \ {0}
  BY FS_CardinalityType, FS_EmptySet DEF FixAssumption
<1>2. i \in Clear(f, S, 1)
  BY <1>1 DEF Clear
<1>3. Clear(f, S, 1) \subseteq S
  BY DEF Clear
<1>4. Cardinality(Clear(f, S, 1)) >= 1
  <2>1. IsFiniteSet(Clear(f, S, 1))
    BY <1>3, FS_Subset
  <2>2. Cardinality(Clear(f, S, 1)) \in Nat /\ Cardinality(Clear(f, S, 1)) # 0
    BY <1>2, <2>1, FS_CardinalityType, FS_EmptySet
  <2> QED BY <2>2
<1> QED BY <1>1, <1>2, <1>4 DEF ebh, Rejects

(* Who wins a family depends on its own validations only.                  *)
LEMMA WinnersAgree ==
  ASSUME NEW f, NEW g, NEW S, \A i \in S : f[i] = g[i]
  PROVE  Winners(f, S) = Winners(g, S)
<1>1. Tested(f, S) = Tested(g, S) /\ Tested(f, S) \subseteq S
  BY DEF Tested
<1>2. \A k \in 1 .. Cardinality(Tested(f, S)) :
        Clear(f, Tested(f, S), k) = Clear(g, Tested(f, S), k)
  BY <1>1 DEF Clear
<1>3. ebh(f, Tested(f, S)) = ebh(g, Tested(f, S))
  BY <1>2 DEF ebh, Rejects
<1>4. ebh(f, Tested(f, S)) \subseteq S
  BY <1>1 DEF ebh
<1> QED BY <1>1, <1>3, <1>4 DEF Winners

(* An empty family has no winner.                                         *)
LEMMA NoWinnerOfNothing == \A f : Winners(f, {}) = {}
  BY DEF Winners, Tested, ebh
-----------------------------------------------------------------------------
(* What the call holds of the agent's settings, and what it still owes.    *)
Borrowed ==
  /\ saved.minTier = NoTier
  /\ pc # "final" => cap
  /\ pc \notin {"rung", "round"} => minTier = NoTier /\ logger = saved.logger
  /\ pc \in {"rung", "round"} /\ (call.ladder \/ held) => ~ logger
  /\ pc = "round" /\ ~ call.ladder => minTier = NoTier
  /\ pc = "round" /\ ~ call.ladder /\ ~ held => logger = saved.logger

(* Where the call stands, and what it has not yet done.                    *)
Position ==
  /\ pc = "rung" => call.ladder
  /\ pc \in {"select", "final"} => held
  /\ pc = "merge" => ~ held
  /\ rung \in NoTier .. Top
  /\ pc = "round" => maxTier <= call.ceiling
  /\ pc = "round" /\ call.ladder => minTier = rung /\ maxTier = rung
  /\ pc = "round" /\ ~ call.ladder => from = 0
  /\ pc # "idle" => from <= Len(attempted) /\ confirmed = <<>> /\ logged = 0
  /\ pc = "final" => chosen \in Improving(attempted)

(* No validation lies above the ceiling.                                   *)
BelowCeiling == \A i \in DOMAIN attempted : attempted[i].tier <= call.ceiling

(* The tiers below the one at hand are closed, without a winner.           *)
OfTier(t) == {k \in DOMAIN attempted : attempted[k].tier = t}
Failed(t) == Winners(attempted, OfTier(t)) = {}

Escalated ==
  call.ladder =>
    /\ \A i \in DOMAIN attempted : attempted[i].tier <= rung
    /\ pc = "round" => \A i \in DOMAIN attempted : attempted[i].tier = rung <=> i > from
    /\ \A t \in Tiers : t < rung \/ (t = rung /\ pc = "rung") => Failed(t)

IInv == TypeOK /\ Borrowed /\ Position /\ BelowCeiling /\ Escalated /\ CertifiedByFamily /\ LoggedOnce

OutcomeType == [status : {"none", "skipped", "returned", "abandoned"}, best : Nat, rec : BOOLEAN]

(* The invariant holds initially.                                          *)
THEOREM InitIInv == Init => IInv
<1> SUFFICES ASSUME Init PROVE IInv
  OBVIOUS
<1> USE FixAssumption DEF Init, Nothing
<1>1. TypeOK
  BY DEF TypeOK, FixAssumption, NoTier, Tiers, L4
<1>2. Borrowed /\ Position
  BY DEF Borrowed, Position, FixAssumption, NoTier
<1> QED BY <1>1, <1>2 DEF IInv, BelowCeiling, Escalated, CertifiedByFamily, LoggedOnce

(* What was borrowed is back once the finally clauses have run.            *)
LEMMA GivenBack ==
  ASSUME TypeOK, Borrowed, Position, pc \in {"rung", "round"}, GiveBack
  PROVE  minTier' = NoTier /\ logger' = saved.logger /\ maxTier' \in Tiers
<1>1. minTier' = NoTier
  BY DEF Borrowed, Position, GiveBack
<1>2. logger' = saved.logger
  BY DEF Borrowed, Position, GiveBack
<1>3. maxTier' \in Tiers
  BY DEF TypeOK, GiveBack
<1> QED BY <1>1, <1>2, <1>3

(* A returned outcome names a winner, or none.                             *)
LEMMA ReturnedIsAWinner ==
  ASSUME NEW W \in SUBSET Nat, NEW rec \in BOOLEAN, Returned(W, rec)
  PROVE  /\ outcome' \in OutcomeType /\ outcome'.status = "returned"
         /\ outcome'.best = 0 \/ outcome'.best \in W
<1>1. PICK b \in IF W = {} THEN {0} ELSE Best(attempted, W) :
        outcome' = [status |-> "returned", best |-> b, rec |-> rec]
  BY DEF Returned
<1>2. b = 0 \/ b \in W
  BY DEF Best
<1>3. b \in Nat
  BY <1>2
<1> QED BY <1>1, <1>2, <1>3 DEF OutcomeType

(* A winner of a family belongs to it.                                    *)
LEMMA WinnersAreTried ==
  ASSUME TypeOK, NEW S \in SUBSET (DOMAIN attempted)
  PROVE  Winners(attempted, S) \in SUBSET (DOMAIN attempted) /\ DOMAIN attempted \subseteq Nat
  BY DEF Winners, ebh, Tested, TypeOK

(* Every validation has a tier.                                           *)
LEMMA TriedHasATier ==
  ASSUME TypeOK, FixAssumption, NEW i \in DOMAIN attempted
  PROVE  /\ i \in Nat /\ 1 <= i /\ i <= Len(attempted)
         /\ attempted[i] \in Validation /\ attempted[i].tier \in Tiers
         /\ attempted[i].tier \in Int
<1>1. i \in 1 .. Len(attempted) /\ Len(attempted) \in Nat /\ attempted[i] \in Validation
  BY DEF TypeOK
<1>2. attempted[i].tier \in Tiers /\ Tiers \subseteq Int
  BY <1>1 DEF Validation, Tiers, L4, FixAssumption
<1>3. i \in Nat /\ 1 <= i /\ i <= Len(attempted)
  BY <1>1
<1>4. attempted[i].tier \in Int
  BY <1>2, Zenon
<1> QED BY <1>1, <1>2, <1>3, <1>4, Zenon

(* The current family is part of what the call tried.                     *)
LEMMA FamilyIsTried ==
  ASSUME TypeOK
  PROVE  Family \in SUBSET (DOMAIN attempted)
  BY DEF Family, TypeOK
-----------------------------------------------------------------------------

(* A call that begins, or is skipped, has tried nothing.                   *)
LEMMA SkipKeeps ==
  ASSUME IInv, Skip
  PROVE  IInv'
<1> USE FixAssumption DEF IInv, Skip, agent
<1>1. TypeOK'
  BY DEF TypeOK
<1>2. Borrowed'
  BY DEF Borrowed
<1>0. Position'
  BY DEF Position
<1>3. BelowCeiling' /\ Escalated'
  BY NoWinnerOfNothing DEF BelowCeiling, Escalated, Failed, OfTier, Tiers
<1>4. CertifiedByFamily' /\ LoggedOnce'
  BY DEF CertifiedByFamily, LoggedOnce
<1> QED BY <1>0, <1>1, <1>2, <1>3, <1>4

(* Starting a call keeps the invariant.                                   *)
LEMMA CallKeeps ==
  ASSUME IInv, SingleCall \/ LadderCall
  PROVE  IInv'
<1> USE FixAssumption DEF IInv, Begin, agent, Nothing
<1>1. CASE SingleCall
  <2>1. PICK t \in Ceilings :
          /\ Begin
          /\ maxTier' = IF t = NoTier THEN maxTier ELSE t
          /\ logger' = (logger /\ ~ held)
          /\ call' = [ladder |-> FALSE, asked |-> t, ceiling |-> maxTier']
          /\ pc' = "round"
          /\ UNCHANGED <<held, minTier, cap>>
    BY <1>1 DEF SingleCall
  <2>2. t \in Tiers \cup {NoTier} /\ maxTier' \in Tiers
    BY <2>1 DEF TypeOK, FixAssumption
  <2>3. /\ call' \in [ladder : BOOLEAN, asked : Tiers \cup {NoTier}, ceiling : Tiers]
        /\ saved' \in [logger : BOOLEAN, minTier : Tiers \cup {NoTier}]
    BY <2>1, <2>2 DEF TypeOK
  <2>4. TypeOK'
    BY <2>1, <2>2, <2>3 DEF TypeOK, FixAssumption
  <2>5. Borrowed'
    BY <2>1 DEF Borrowed, TypeOK
  <2>6. Position' /\ BelowCeiling' /\ Escalated'
    BY <2>1, <2>2 DEF Position, BelowCeiling, Escalated, FixAssumption, NoTier, Tiers, L4
  <2> QED BY <2>1, <2>4, <2>5, <2>6 DEF CertifiedByFamily, LoggedOnce
<1>2. CASE LadderCall
  <2>1. PICK t \in Ceilings :
          /\ Begin
          /\ logger' = FALSE
          /\ call' = [ladder |-> TRUE, asked |-> t,
                      ceiling |-> IF t = NoTier THEN Top ELSE t]
          /\ pc' = "rung"
          /\ UNCHANGED <<held, maxTier, minTier, cap>>
    BY <1>2 DEF LadderCall
  <2>2. t \in Tiers \cup {NoTier} /\ (IF t = NoTier THEN Top ELSE t) \in Tiers
    BY <2>1 DEF FixAssumption, Tiers, L4
  <2>3. /\ call' \in [ladder : BOOLEAN, asked : Tiers \cup {NoTier}, ceiling : Tiers]
        /\ saved' \in [logger : BOOLEAN, minTier : Tiers \cup {NoTier}]
    BY <2>1, <2>2 DEF TypeOK
  <2>4. TypeOK'
    <3>1. held' \in BOOLEAN /\ logger' \in BOOLEAN /\ cap' \in BOOLEAN
      BY <2>1, Zenon DEF TypeOK
    <3>2. outcome' \in OutcomeType
      BY <2>1 DEF OutcomeType
    <3> HIDE DEF Begin
    <3>3. /\ maxTier' \in Tiers /\ minTier' \in Tiers \cup {NoTier} /\ rung' = NoTier
          /\ from' = 0 /\ round' = 1 /\ fresh' = 0 /\ attempted' = <<>> /\ confirmed' = <<>>
          /\ chosen' = 0 /\ logged' = 0 /\ pc' = "rung"
      BY <2>1, Zenon DEF TypeOK, Begin
    <3> QED BY <2>3, <3>1, <3>2, <3>3 DEF TypeOK, OutcomeType
  <2>5. Borrowed'
    BY <2>1 DEF Borrowed, TypeOK
  <2>6. Position' /\ BelowCeiling'
    BY <2>1, <2>2 DEF Position, BelowCeiling, FixAssumption, NoTier, Tiers, L4
  <2>7. Escalated'
    <3>1. attempted' = <<>> /\ rung' = NoTier /\ pc' = "rung"
      BY <2>1
    <3>2. \A t2 \in Tiers : ~ (t2 < NoTier \/ t2 = NoTier)
      BY DEF Tiers, NoTier, L4, FixAssumption
    <3> QED BY <3>1, <3>2 DEF Escalated
  <2> QED BY <2>1, <2>4, <2>5, <2>6, <2>7 DEF CertifiedByFamily, LoggedOnce
<1> QED BY <1>1, <1>2

-----------------------------------------------------------------------------
(* Opening a rung keeps the invariant.                                    *)
LEMMA OpenRungKeeps ==
  ASSUME IInv, OpenRung
  PROVE  IInv'
<1> USE FixAssumption DEF IInv, OpenRung, HigherRung
<1>0. rung' \in 0 .. Top /\ rung' \in Tiers /\ rung' <= call.ceiling
  BY DEF Position, TypeOK, Tiers, NoTier, L4, FixAssumption
<1>1. TypeOK'
  BY <1>0 DEF TypeOK
<1>2. Borrowed'
  BY DEF Borrowed, Position
<1>3. Position'
  BY <1>0 DEF Position, NoTier, TypeOK, FixAssumption
<1>4. BelowCeiling'
  BY DEF BelowCeiling
<1>5. Escalated'
  <2>1. call'.ladder => /\ \A i \in DOMAIN attempted : attempted[i].tier <= rung
                        /\ \A t \in Tiers : t <= rung => Failed(t)
    BY DEF Escalated, Tiers, Position, NoTier, FixAssumption, L4
  <2>2. \A i \in DOMAIN attempted : i <= Len(attempted) /\ attempted[i].tier \in Int
    BY TriedHasATier
  <2>3. \A i \in DOMAIN attempted : attempted[i].tier <= rung => attempted[i].tier < rung'
    BY <2>2 DEF Position, NoTier, FixAssumption
  <2>4. \A t \in Tiers : t < rung' => t <= rung
    BY DEF Tiers, Position, NoTier, FixAssumption, L4
  <2>5. \A t : Failed(t)' <=> Failed(t)
    BY DEF Failed, OfTier
  <2>6. \A i \in DOMAIN attempted : ~ (i > from') /\ i \in Int
    BY TriedHasATier, <2>2
  <2> QED BY <2>1, <2>2, <2>3, <2>4, <2>5, <2>6, <1>0 DEF Escalated
<1> QED BY <1>1, <1>2, <1>3, <1>4, <1>5 DEF CertifiedByFamily, LoggedOnce

(* Steps that leave call, rung and validations alone keep what was tried.  *)
LEMMA TriedKeeps ==
  ASSUME BelowCeiling, Escalated, UNCHANGED <<attempted, call, rung, from>>, pc' \notin {"round", "rung"}
  PROVE  BelowCeiling' /\ Escalated'
<1>1. \A t : Failed(t)' <=> Failed(t)
  BY DEF Failed, OfTier
<1> QED BY <1>1 DEF BelowCeiling, Escalated

(* Running out of rungs keeps the invariant.                              *)
LEMMA LadderEndsKeeps ==
  ASSUME IInv, LadderEnds
  PROVE  IInv'
<1> USE FixAssumption DEF IInv, LadderEnds
<1>0. minTier' = NoTier /\ logger' = saved.logger /\ maxTier' \in Tiers
  BY GivenBack
<1>1. pc' = IF held THEN "select" ELSE "merge"
  BY DEF AfterSearch, Position
<1>2. TypeOK'
  BY <1>0, <1>1 DEF TypeOK
<1>3. Borrowed' /\ Position'
  BY <1>0, <1>1 DEF Borrowed, Position, TypeOK
<1>4. BelowCeiling' /\ Escalated'
  BY <1>1, TriedKeeps
<1> QED BY <1>1, <1>2, <1>3, <1>4 DEF CertifiedByFamily, LoggedOnce

(* One more validation: below the ceiling, of the ladder's tier, and no    *)
(* change to the families already closed.                                  *)
LEMMA ValidateKeeps ==
  ASSUME IInv, Validate
  PROVE  IInv'
<1> USE FixAssumption DEF IInv
<1>1. PICK t \in Tiers, r \in Results :
        /\ pc = "round" /\ Allowed(t) /\ Len(attempted) < MaxAttempts
        /\ attempted' = Append(attempted, [tier |-> t, e |-> r.e, gain |-> r.gain,
                                           pairs |-> r.pairs])
        /\ fresh' = fresh + 1
        /\ UNCHANGED <<held, agent, pc, call, saved, rung, from, round, chosen,
                       confirmed, outcome, logged>>
  BY DEF Validate
<1> DEFINE n == Len(attempted)
           v == [tier |-> t, e |-> r.e, gain |-> r.gain, pairs |-> r.pairs]
<1>2. v \in Validation
  BY <1>1 DEF Validation, FixAssumption
<1>3. /\ n \in Nat /\ attempted' \in Seq(Validation) /\ Len(attempted') = n + 1
      /\ \A i \in 1 .. n : attempted'[i] = attempted[i]
      /\ attempted'[n + 1] = v /\ DOMAIN attempted' = 1 .. (n + 1) /\ DOMAIN attempted = 1 .. n
  BY <1>1, <1>2 DEF TypeOK
<1>4. t <= call.ceiling /\ (call.ladder => t = rung)
  BY <1>1 DEF Position, Allowed, TypeOK, Tiers, NoTier, L4, FixAssumption
<1>5. TypeOK'
  <2>1. fresh' \in Nat
    BY <1>1 DEF TypeOK
  <2>2. attempted' \in Seq(Validation)
    BY <1>3
  <2>3. UNCHANGED <<held, agent, pc, call, saved, rung, from, round, chosen, confirmed,
                    outcome, logged>>
    BY <1>1
  <2> HIDE DEF n, v
  <2> QED BY <2>1, <2>2, <2>3 DEF TypeOK, agent
<1>6. Borrowed' /\ Position'
  <2>1. Borrowed'
    BY <1>1 DEF Borrowed, agent
  <2>2. Position'
    BY <1>1, <1>3 DEF Position, agent, TypeOK
  <2> QED BY <2>1, <2>2
<1>7. BelowCeiling'
  <2>1. ASSUME NEW i \in 1 .. (n + 1) PROVE attempted'[i].tier <= call.ceiling
    <3>1. CASE i = n + 1
      BY <1>3, <1>4, <3>1
    <3>2. CASE i # n + 1
      <4>1. i \in 1 .. n
        BY <1>3, <3>2
      <4> QED BY <1>3, <4>1 DEF BelowCeiling
    <3> QED BY <3>1, <3>2
  <2> QED BY <1>1, <1>3, <2>1 DEF BelowCeiling
<1>8. Escalated'
  <2>1. SUFFICES ASSUME call.ladder PROVE Escalated'
    BY <1>1 DEF Escalated
  <2>2. from \in Nat /\ from <= n /\ rung \in Int /\ t = rung
    BY <1>1, <1>4, <2>1 DEF TypeOK, Position, NoTier, FixAssumption
  <2>3. ASSUME NEW i \in 1 .. (n + 1)
        PROVE  attempted'[i].tier <= rung /\ (attempted'[i].tier = rung <=> i > from)
    <3>1. CASE i = n + 1
      BY <1>3, <2>2, <3>1
    <3>2. CASE i # n + 1
      <4>1. i \in 1 .. n
        BY <1>3, <3>2
      <4> QED BY <1>1, <1>3, <2>1, <4>1 DEF Escalated
    <3> QED BY <3>1, <3>2
  <2>4. ASSUME NEW s \in Tiers, s < rung
        PROVE  Failed(s)'
    <3>1. Failed(s)
      BY <1>1, <2>1, <2>4 DEF Escalated
    <3>2. s # t
      BY <2>2, <2>4
    <3>3. OfTier(s)' = OfTier(s) /\ OfTier(s) \subseteq 1 .. n
      <4>1. OfTier(s) = {i \in 1 .. n : attempted[i].tier = s}
        BY <1>3 DEF OfTier
      <4>2. OfTier(s)' = {i \in 1 .. (n + 1) : attempted'[i].tier = s}
        BY <1>3 DEF OfTier
      <4>3. attempted'[n + 1].tier # s
        BY <1>3, <3>2
      <4>4. 1 .. (n + 1) = 1 .. n \cup {n + 1}
        BY <1>3
      <4> HIDE DEF n
      <4> QED BY <1>3, <4>1, <4>2, <4>3, <4>4
    <3>4. \A i \in OfTier(s) : attempted[i] = attempted'[i]
      BY <1>3, <3>3
    <3>5. Winners(attempted, OfTier(s)) = Winners(attempted', OfTier(s))
      BY <3>4, WinnersAgree
    <3> QED BY <3>1, <3>3, <3>5 DEF Failed
  <2> HIDE DEF n
  <2> QED BY <1>1, <1>3, <2>1, <2>3, <2>4 DEF Escalated
<1>9. CertifiedByFamily' /\ LoggedOnce'
  BY <1>1 DEF CertifiedByFamily, LoggedOnce
<1> QED BY <1>5, <1>6, <1>7, <1>8, <1>9

(* Another round keeps the invariant.                                     *)
LEMMA NextRoundKeeps ==
  ASSUME IInv, NextRound
  PROVE  IInv'
<1> USE FixAssumption DEF IInv, NextRound, agent
<1>1. TypeOK'
  BY DEF TypeOK
<1>2. Borrowed' /\ Position'
  BY DEF Borrowed, Position
<1>3. BelowCeiling' /\ Escalated'
  BY DEF BelowCeiling, Escalated, Failed, OfTier
<1> QED BY <1>1, <1>2, <1>3 DEF CertifiedByFamily, LoggedOnce
-----------------------------------------------------------------------------
(* A winner of everything the call tried is certified by it.               *)
LEMMA WinnerIsCertified ==
  ASSUME NEW i \in Winners(attempted, DOMAIN attempted)
  PROVE  i \in ebh(attempted, Tested(attempted, DOMAIN attempted)) /\ Fixed(attempted[i])
  BY DEF Winners

(* A ladder that found no winner in a family closes that tier.             *)
LEMMA FamilyFails ==
  ASSUME IInv, FixAssumption, pc = "round", call.ladder,
         Winners(attempted, Family) = {}, UNCHANGED <<call, rung, attempted>>, pc' = "rung"
  PROVE  Escalated'
<1> USE DEF IInv
<1>1. Family = OfTier(rung)
  <2>1. \A i \in DOMAIN attempted : attempted[i].tier = rung <=> i > from
    BY DEF Escalated
  <2>2. from \in Nat /\ Len(attempted) \in Nat /\ DOMAIN attempted = 1 .. Len(attempted)
    BY DEF TypeOK
  <2>3. Family = {i \in DOMAIN attempted : i > from}
    BY <2>2 DEF Family
  <2> QED BY <2>1, <2>3 DEF OfTier
<1>2. \A t \in Tiers : t < rung \/ t = rung => Failed(t)
  BY <1>1 DEF Escalated, Failed
<1>3. \A t : Failed(t)' <=> Failed(t)
  BY DEF Failed, OfTier
<1> QED BY <1>2, <1>3 DEF Escalated

(* The family is closed: the ladder goes on, or the search is over and the *)
(* settings are given back.                                                *)
LEMMA CloseFamilyKeeps ==
  ASSUME IInv, CloseFamily
  PROVE  IInv'
<1> USE FixAssumption DEF IInv
<1> DEFINE won == Winners(attempted, Family)
<1>1. /\ pc = "round" /\ logged' = Emitted
      /\ UNCHANGED <<held, cap, call, saved, rung, from, round, fresh, attempted, chosen,
                     confirmed>>
  BY DEF CloseFamily
<1>2. PICK rec \in BOOLEAN : Returned(won, won = {} /\ rec)
  <2>1. \E rec \in IF NothingAbove(attempted, Family) THEN BOOLEAN ELSE {TRUE} :
          Returned(won, won = {} /\ rec)
    BY DEF CloseFamily
  <2> QED BY <2>1, Zenon
<1>3. won \in SUBSET (DOMAIN attempted) /\ won \in SUBSET Nat
  BY FamilyIsTried, WinnersAreTried
<1>4. /\ outcome' \in OutcomeType /\ outcome'.status = "returned"
      /\ outcome'.best = 0 \/ outcome'.best \in won
  BY <1>2, <1>3, ReturnedIsAWinner, Zenon
<1>5. logged = 0 /\ confirmed = <<>> /\ logged' \in {0, 1}
  BY <1>1 DEF Position, Emitted
<1> HIDE DEF won
<1>6. CASE call.ladder /\ won = {}
  <2>1. pc' = "rung" /\ UNCHANGED <<maxTier, minTier, logger>>
    BY <1>6 DEF CloseFamily, won
  <2>2. logged' = 0
    BY <1>1, <1>5, <1>6 DEF Emitted, Borrowed
  <2>3. TypeOK'
    BY <1>1, <1>4, <2>1, <2>2 DEF TypeOK, OutcomeType
  <2>4. Borrowed'
    BY <1>1, <1>6, <2>1 DEF Borrowed, Position
  <2>5. Position'
    BY <1>1, <1>6, <2>1, <2>2 DEF Position
  <2>6. BelowCeiling' /\ Escalated'
    BY <1>1, <1>6, <2>1, FamilyFails DEF BelowCeiling, won
  <2> QED BY <2>1, <2>3, <2>4, <2>5, <2>6 DEF CertifiedByFamily, LoggedOnce
<1>7. CASE ~ (call.ladder /\ won = {})
  <2>1. pc' = AfterSearch /\ GiveBack
    BY <1>7 DEF CloseFamily, won
  <2>2. minTier' = NoTier /\ logger' = saved.logger /\ maxTier' \in Tiers
    BY <1>1, <2>1, GivenBack
  <2>3. pc' \in {"select", "merge", "idle"} /\ (pc' = "select" <=> held)
        /\ (pc' = "idle" => ~ held /\ ~ call.ladder)
    BY <2>1 DEF AfterSearch
  <2>4. pc' # "idle" => logged' = 0
    <3>1. pc' # "idle" => held \/ call.ladder
      BY <2>1 DEF AfterSearch
    <3> QED BY <1>1, <1>5, <3>1 DEF Emitted, Borrowed
  <2>5. TypeOK'
    <3>1. logger' \in BOOLEAN
      BY <2>2 DEF TypeOK
    <3> QED BY <1>1, <1>4, <1>5, <2>2, <2>3, <3>1 DEF TypeOK, OutcomeType
  <2>6. Borrowed'
    BY <1>1, <2>2, <2>3 DEF Borrowed
  <2>7. Position'
    BY <1>1, <1>5, <2>3, <2>4 DEF Position, TypeOK
  <2>8. BelowCeiling' /\ Escalated'
    BY <1>1, <2>3, TriedKeeps
  <2>9. CertifiedByFamily'
    <3>1. pc' = "idle" => Family = DOMAIN attempted
      BY <1>1, <2>3 DEF Family, Position, TypeOK
    <3>2. \A i \in Winners(attempted, DOMAIN attempted) :
            i \in ebh(attempted, Tested(attempted, DOMAIN attempted)) /\ Fixed(attempted[i])
      BY WinnerIsCertified
    <3>3. pc' = "idle" /\ outcome'.best # 0 =>
            /\ ~ held' /\ attempted' = attempted
            /\ outcome'.best \in ebh(attempted, Tested(attempted, DOMAIN attempted))
            /\ Fixed(attempted[outcome'.best])
      BY <1>1, <1>4, <2>3, <3>1, <3>2 DEF won
    <3> QED BY <3>3 DEF CertifiedByFamily
  <2>10. LoggedOnce'
    BY <1>1, <1>4, <1>5, <2>3 DEF LoggedOnce, Emitted, Borrowed
  <2> QED BY <2>5, <2>6, <2>7, <2>8, <2>9, <2>10
<1> QED BY <1>6, <1>7

(* The e-BH over the union keeps the invariant.                           *)
LEMMA MergeKeeps ==
  ASSUME IInv, Merge
  PROVE  IInv'
<1> USE FixAssumption DEF IInv, Merge, agent
<1> DEFINE won == Winners(attempted, DOMAIN attempted)
<1>1. won \in SUBSET Nat /\ outcome.rec \in BOOLEAN
  BY WinnersAreTried DEF TypeOK
<1>2. /\ outcome' \in OutcomeType /\ outcome'.status = "returned"
      /\ outcome'.best = 0 \/ outcome'.best \in won
  BY <1>1, ReturnedIsAWinner
<1>3. logged = 0 /\ ~ held /\ logged' = IF saved.logger THEN 1 ELSE 0
  BY DEF Position, Borrowed, Emitted
<1> HIDE DEF won
<1>4. TypeOK'
  BY <1>2, <1>3 DEF TypeOK, OutcomeType
<1>5. Borrowed' /\ Position'
  BY DEF Borrowed, Position
<1>6. BelowCeiling' /\ Escalated'
  BY TriedKeeps
<1>7. CertifiedByFamily'
  BY <1>2, <1>3, WinnerIsCertified DEF CertifiedByFamily, won
<1>8. LoggedOnce'
  BY <1>2, <1>3 DEF LoggedOnce
<1> QED BY <1>4, <1>5, <1>6, <1>7, <1>8

(* A candidate is selected only if it improves on development.             *)
LEMMA SelectKeeps ==
  ASSUME IInv, Select
  PROVE  IInv'
<1> USE FixAssumption DEF IInv
<1>1. PICK i \in Selected(attempted) :
        /\ chosen' = i /\ cap' = FALSE
        /\ pc' = "final"
  BY DEF Select
<1>2. /\ pc = "select"
      /\ UNCHANGED <<held, maxTier, minTier, logger, call, saved, rung, from, round, fresh,
                     attempted, confirmed, outcome, logged>>
  BY DEF Select
<1>3. i \in Improving(attempted) /\ i \in Nat
  BY DEF Selected, Supported, Improving, TypeOK
<1>4. TypeOK'
  <2>1. cap' \in BOOLEAN
    BY <1>1
  <2> QED BY <1>1, <1>2, <1>3, <2>1 DEF TypeOK
<1>5. Borrowed' /\ Position'
  BY <1>1, <1>2, <1>3 DEF Borrowed, Position
<1>6. BelowCeiling' /\ Escalated'
  BY <1>1, <1>2, TriedKeeps
<1> QED BY <1>1, <1>4, <1>5, <1>6 DEF CertifiedByFamily, LoggedOnce

(* Leaving the final partition untouched keeps the invariant.             *)
LEMMA NoneSelectedKeeps ==
  ASSUME IInv, NoneSelected
  PROVE  IInv'
<1> USE FixAssumption DEF IInv, NoneSelected, agent
<1>1. (maxTier # L4) \in BOOLEAN
  OBVIOUS
<1>2. outcome' \in OutcomeType /\ outcome'.status = "returned" /\ outcome'.best = 0
  BY <1>1, ReturnedIsAWinner
<1>3. logged = 0 /\ logged' = IF saved.logger THEN 1 ELSE 0
  BY DEF Position, Borrowed, Emitted
<1>4. TypeOK'
  BY <1>2, <1>3 DEF TypeOK, OutcomeType
<1>5. Borrowed' /\ Position'
  BY DEF Borrowed, Position
<1>6. BelowCeiling' /\ Escalated'
  BY TriedKeeps
<1> QED BY <1>2, <1>3, <1>4, <1>5, <1>6 DEF CertifiedByFamily, LoggedOnce

(* A single validation wins a family of one only if it is fixed.           *)
LEMMA OnlyTheFixedWins ==
  ASSUME NEW f, NEW i, Winners(f, {i}) # {}
  PROVE  Fixed(f[i])
  BY DEF Winners, ebh, Clear, Tested

(* The one final test keeps the invariant.                                *)
LEMMA ConfirmKeeps ==
  ASSUME IInv, Confirm
  PROVE  IInv'
<1> USE FixAssumption DEF IInv
<1>1. PICK r \in Results :
    /\ pc = "final"
    /\ confirmed' = Append(confirmed, [tier |-> attempted[chosen].tier, e |-> r.e,
                                       gain |-> r.gain, pairs |-> r.pairs])
    /\ cap' = TRUE
    /\ LET last == Len(confirmed')
           won  == Winners(confirmed', {last}) # {} IN
         \E rec \in IF NothingAbove(confirmed', {last}) THEN BOOLEAN ELSE {TRUE} :
           outcome' = [status |-> "returned", best |-> IF won THEN chosen ELSE 0,
                       rec |-> ~ won /\ rec]
    /\ logged' = Emitted
    /\ pc' = "idle"
    /\ UNCHANGED <<held, maxTier, minTier, logger, call, saved, rung, from, round,
                   fresh, attempted, chosen>>
  BY DEF Confirm
<1> DEFINE v == [tier |-> attempted[chosen].tier, e |-> r.e, gain |-> r.gain, pairs |-> r.pairs]
<1>2. confirmed = <<>> /\ logged = 0 /\ held /\ chosen \in Improving(attempted)
  BY <1>1 DEF Position
<1>3. v \in Validation
  <2>1. chosen \in DOMAIN attempted
    BY <1>2 DEF Improving
  <2>2. attempted[chosen].tier \in Tiers
    BY <2>1, TriedHasATier
  <2>3. r \in [e : Int, gain : Int, pairs : Nat]
    BY <1>1 DEF FixAssumption
  <2> QED BY <2>2, <2>3 DEF Validation
<1>4. confirmed' \in Seq(Validation) /\ Len(confirmed') = 1
  BY <1>1, <1>2, <1>3
<1>5. /\ outcome' \in OutcomeType /\ outcome'.status = "returned"
      /\ outcome'.best # 0 => outcome'.best = chosen /\ Fixed(confirmed'[1])
  <2> DEFINE won == Winners(confirmed', {1}) # {}
  <2>1. won => Fixed(confirmed'[1])
    BY OnlyTheFixedWins
  <2>2. \E rec \in IF NothingAbove(confirmed', {1}) THEN BOOLEAN ELSE {TRUE} :
          outcome' = [status |-> "returned", best |-> IF won THEN chosen ELSE 0,
                      rec |-> ~ won /\ rec]
    BY <1>1, <1>4
  <2> HIDE DEF won
  <2>3. PICK rec \in BOOLEAN :
          outcome' = [status |-> "returned", best |-> IF won THEN chosen ELSE 0,
                      rec |-> ~ won /\ rec]
    BY <2>2, Zenon
  <2>4. chosen \in Nat /\ (IF won THEN chosen ELSE 0) \in Nat
    BY DEF TypeOK
  <2>5. outcome' \in OutcomeType
    BY <2>3, <2>4 DEF OutcomeType
  <2> QED BY <2>1, <2>3, <2>5
<1>6. logged' = IF saved.logger THEN 1 ELSE 0
  BY <1>1, <1>2 DEF Borrowed, Emitted
<1> HIDE DEF v
<1>a. /\ pc = "final" /\ cap' = TRUE /\ pc' = "idle"
      /\ UNCHANGED <<held, maxTier, minTier, logger, call, saved, rung, from, round,
                     fresh, attempted, chosen>>
  BY <1>1
<1>7. TypeOK'
  <2>1. cap' \in BOOLEAN
    BY <1>a
  <2> QED BY <1>a, <1>4, <1>5, <1>6, <2>1 DEF TypeOK, OutcomeType
<1>8. Borrowed' /\ Position'
  BY <1>a DEF Borrowed, Position
<1>9. BelowCeiling' /\ Escalated'
  BY <1>a, TriedKeeps
<1>10. CertifiedByFamily'
  BY <1>a, <1>2, <1>4, <1>5 DEF CertifiedByFamily, Improving
<1>11. LoggedOnce'
  BY <1>a, <1>5, <1>6 DEF LoggedOnce
<1> QED BY <1>7, <1>8, <1>9, <1>10, <1>11

(* An exception: only the finally clauses run.                             *)
LEMMA AbandonKeeps ==
  ASSUME IInv, Abandon
  PROVE  IInv'
<1> USE FixAssumption DEF IInv
<1>1. /\ pc \in {"round", "final"} /\ pc' = "idle"
      /\ outcome' = [Nothing EXCEPT !.status = "abandoned"]
      /\ UNCHANGED <<held, call, saved, rung, from, round, fresh, attempted, chosen,
                     confirmed, logged>>
  BY DEF Abandon
<1>2. /\ outcome' \in OutcomeType /\ outcome'.status = "abandoned" /\ outcome'.best = 0
  BY <1>1 DEF Nothing, OutcomeType
<1>3. minTier' = NoTier /\ logger' = saved.logger /\ maxTier' \in Tiers
  <2>1. CASE pc = "round"
    BY <2>1, GivenBack DEF Abandon
  <2>2. CASE pc = "final"
    BY <2>2 DEF Abandon, Borrowed, TypeOK
  <2> QED BY <1>1, <2>1, <2>2
<1>4. cap'
  BY <1>1 DEF Abandon, Borrowed
<1>5. TypeOK'
  <2>1. logger' \in BOOLEAN
    BY <1>3 DEF TypeOK
  <2>2. cap' \in BOOLEAN
    BY <1>1, Zenon DEF Abandon, TypeOK
  <2> QED BY <1>1, <1>2, <1>3, <2>1, <2>2 DEF TypeOK, OutcomeType
<1>6. Borrowed' /\ Position'
  BY <1>1, <1>3, <1>4 DEF Borrowed, Position
<1>7. BelowCeiling' /\ Escalated'
  BY <1>1, TriedKeeps
<1>8. logged' = 0
  BY <1>1 DEF Position
<1> QED BY <1>1, <1>2, <1>5, <1>6, <1>7, <1>8 DEF CertifiedByFamily, LoggedOnce

(* A stutter keeps the invariant.                                         *)
LEMMA StutterKeeps ==
  ASSUME IInv, UNCHANGED vars
  PROVE  IInv'
<1> USE DEF IInv, vars, agent
<1>1. TypeOK' /\ Borrowed' /\ Position'
  <2>1. TypeOK'
    BY DEF TypeOK
  <2>2. Borrowed' /\ Position'
    BY DEF Borrowed, Position
  <2> QED BY <2>1, <2>2
<1>2. BelowCeiling' /\ Escalated'
  BY DEF BelowCeiling, Escalated, Failed, OfTier
<1> QED BY <1>1, <1>2 DEF CertifiedByFamily, LoggedOnce
-----------------------------------------------------------------------------
(* Every step keeps the invariant.                                         *)
THEOREM NextIInv == IInv /\ [Next]_vars => IInv'
<1> SUFFICES ASSUME IInv, [Next]_vars PROVE IInv'
  OBVIOUS
<1>1. CASE Skip \/ SingleCall \/ LadderCall
  BY <1>1, SkipKeeps, CallKeeps
<1>2. CASE Search
  BY <1>2, OpenRungKeeps, LadderEndsKeeps, ValidateKeeps, NextRoundKeeps, CloseFamilyKeeps
  DEF Search
<1>3. CASE Close
  BY <1>3, MergeKeeps, SelectKeeps, NoneSelectedKeeps, ConfirmKeeps DEF Close
<1>4. CASE Abandon \/ UNCHANGED vars
  BY <1>4, AbandonKeeps, StutterKeeps
<1> QED BY <1>1, <1>2, <1>3, <1>4 DEF Next

(* The invariant holds in every reachable state.                           *)
THEOREM Invariance == Spec => []IInv
  BY InitIInv, NextIInv, PTL DEF Spec

(* Every variable keeps its type.                                          *)
THEOREM Typing == Spec => []TypeOK
<1>1. IInv => TypeOK
  BY DEF IInv
<1> QED BY <1>1, Invariance, PTL

(* However a call ends, the agent has its tier limit, its logger and its   *)
(* case cap back.                                                          *)
THEOREM SettingsComeBack == Spec => []Restored
<1>1. IInv => Restored
  BY DEF IInv, Restored, Borrowed
<1> QED BY <1>1, Invariance, PTL

(* What is reported as fixed survived e-BH over everything the call tried, *)
(* or passed the one test on the final partition.                          *)
THEOREM FixesAreCertified == Spec => []CertifiedByFamily
<1>1. IInv => CertifiedByFamily
  BY DEF IInv
<1> QED BY <1>1, Invariance, PTL

(* No candidate above the ceiling is run.                                  *)
THEOREM CeilingHolds == Spec => []WithinCeiling
<1>1. IInv => WithinCeiling
  BY DEF IInv, BelowCeiling, WithinCeiling
<1> QED BY <1>1, Invariance, PTL

(* A tier is opened only after the ones below it failed.                   *)
THEOREM EscalationIsEarned == Spec => []EscalatesOnFailure
<1>1. IInv => EscalatesOnFailure
  <2>1. SUFFICES ASSUME IInv, call.ladder, NEW i \in DOMAIN attempted,
                        NEW j \in DOMAIN attempted, attempted[i].tier < attempted[j].tier
                 PROVE  Winners(attempted, {k \in DOMAIN attempted :
                                              attempted[k].tier = attempted[i].tier}) = {}
    BY DEF EscalatesOnFailure
  <2>2. /\ attempted[i].tier \in Tiers /\ attempted[i].tier \in Int
        /\ attempted[j].tier \in Int /\ attempted[j].tier <= rung
    BY <2>1, TriedHasATier, FixAssumption DEF IInv, Escalated
  <2>3. rung \in Int
    BY <2>1, FixAssumption DEF IInv, Position, NoTier, FixAssumption
  <2>4. Failed(attempted[i].tier)
    BY <2>1, <2>2, <2>3 DEF IInv, Escalated
  <2> QED BY <2>4 DEF Failed, OfTier
<1> QED BY <1>1, Invariance, PTL

(* A call that returns an outcome logs it once, whichever way it went.     *)
THEOREM OutcomesAreLoggedOnce == Spec => []LoggedOnce
<1>1. IInv => LoggedOnce
  BY DEF IInv
<1> QED BY <1>1, Invariance, PTL
-----------------------------------------------------------------------------
(* RecommendsUnlessFixed, which fix_recommends refutes, is lost only where *)
(* a ladder without a final partition re-applies e-BH: every other call    *)
(* that returns gives a fix or a recommendation, and never both.           *)
RecommendsElsewhere ==
  pc = "idle" /\ outcome.status = "returned" /\ maxTier # L4 /\ (held \/ ~ call.ladder) =>
    (outcome.rec <=> outcome.best = 0)

MergeIsTheLadders == pc = "merge" => call.ladder

(* The family of a single call: a winner, or a recommendation.             *)
LEMMA CloseFamilyRecommends ==
  ASSUME IInv, CloseFamily
  PROVE  RecommendsElsewhere' /\ MergeIsTheLadders'
<1> USE FixAssumption DEF IInv
<1> DEFINE won == Winners(attempted, Family)
<1>1. pc = "round" /\ UNCHANGED <<held, call>>
  BY DEF CloseFamily
<1>2. pc' = "idle" => ~ held /\ ~ call.ladder /\ UNCHANGED maxTier
  BY DEF CloseFamily, AfterSearch, GiveBack
<1>3. MergeIsTheLadders'
  BY DEF CloseFamily, AfterSearch, MergeIsTheLadders
<1>4. ASSUME maxTier # L4 PROVE outcome'.rec <=> outcome'.best = 0
  <2>1. Returned(won, won = {} /\ TRUE)
    BY <1>4 DEF CloseFamily, NothingAbove
  <2>2. PICK b \in IF won = {} THEN {0} ELSE Best(attempted, won) :
          outcome' = [status |-> "returned", best |-> b, rec |-> won = {} /\ TRUE]
    BY <2>1 DEF Returned
  <2>3. won \in SUBSET (DOMAIN attempted) /\ 0 \notin DOMAIN attempted
    BY FamilyIsTried, WinnersAreTried DEF TypeOK
  <2> HIDE DEF won
  <2>4. CASE won = {}
    BY <2>2, <2>4
  <2>5. CASE won # {}
    <3>1. b \in won /\ b # 0
      BY <2>2, <2>3, <2>5 DEF Best
    <3> QED BY <2>2, <2>5, <3>1
  <2> QED BY <2>4, <2>5
<1> QED BY <1>1, <1>2, <1>3, <1>4 DEF RecommendsElsewhere

(* The one test on the final partition: a fix, or a recommendation.        *)
LEMMA ConfirmRecommends ==
  ASSUME IInv, Confirm
  PROVE  RecommendsElsewhere' /\ MergeIsTheLadders'
<1> USE FixAssumption DEF IInv
<1>1. pc' = "idle" /\ UNCHANGED maxTier
  BY DEF Confirm
<1>2. chosen # 0
  BY DEF Confirm, Position, Improving, TypeOK
<1>3. ASSUME maxTier # L4 PROVE outcome'.rec <=> outcome'.best = 0
  <2> DEFINE won == Winners(confirmed', {Len(confirmed')}) # {}
  <2>1. outcome' = [status |-> "returned", best |-> IF won THEN chosen ELSE 0,
                    rec |-> ~ won /\ TRUE]
    BY <1>3 DEF Confirm, NothingAbove
  <2> HIDE DEF won
  <2> QED BY <1>2, <2>1
<1> QED BY <1>1, <1>3 DEF RecommendsElsewhere, MergeIsTheLadders

(* Everywhere but in the ladder's merge the docstring of FixOutcome is     *)
(* right: RecommendsElsewhere, for any ladder, gate and results.           *)
THEOREM OnlyTheMergeForgets == Spec => []RecommendsElsewhere
<1> DEFINE Inv == RecommendsElsewhere /\ MergeIsTheLadders
<1>1. Init => Inv
  BY DEF Init, Nothing, RecommendsElsewhere, MergeIsTheLadders
<1>2. IInv /\ Inv /\ [Next]_vars => Inv'
  <2> SUFFICES ASSUME IInv, Inv, [Next]_vars PROVE Inv'
    OBVIOUS
  <2> USE DEF RecommendsElsewhere, MergeIsTheLadders, agent
  <2>1. CASE Skip
    BY <2>1 DEF Skip
  <2>2. CASE SingleCall \/ LadderCall
    BY <2>2 DEF SingleCall, LadderCall
  <2>3. CASE OpenRung \/ Validate \/ NextRound \/ Select
    BY <2>3 DEF OpenRung, Validate, NextRound, Select
  <2>4. CASE LadderEnds
    BY <2>4 DEF LadderEnds, AfterSearch, IInv, Position
  <2>5. CASE CloseFamily
    BY <2>5, CloseFamilyRecommends
  <2>6. CASE Merge
    BY <2>6 DEF Merge, IInv, Position
  <2>7. CASE NoneSelected
    <3>1. PICK b \in {0} : outcome' = [status |-> "returned", best |-> b, rec |-> maxTier # L4]
      BY <2>7 DEF NoneSelected, Returned
    <3>2. pc' = "idle" /\ UNCHANGED maxTier
      BY <2>7 DEF NoneSelected
    <3> QED BY <3>1, <3>2
  <2>8. CASE Confirm
    BY <2>8, ConfirmRecommends
  <2>9. CASE Abandon
    BY <2>9 DEF Abandon, Nothing
  <2>10. CASE UNCHANGED vars
    BY <2>10 DEF vars
  <2> QED BY <2>1, <2>2, <2>3, <2>4, <2>5, <2>6, <2>7, <2>8, <2>9, <2>10 DEF Next, Search, Close
<1>3. Inv => RecommendsElsewhere
  OBVIOUS
<1> QED BY <1>1, <1>2, <1>3, Invariance, PTL DEF Spec
-----------------------------------------------------------------------------
(* How many steps, besides validations, a call may still take: the rungs   *)
(* above, the rounds left in the family at hand, and the closing steps.    *)
Rungs == (Top - rung) * (MaxRounds + 1)

Rank ==
  CASE pc = "idle"               -> 0
    [] pc \in {"final", "merge"} -> 1
    [] pc = "select"             -> 2
    [] pc = "rung"               -> 3 + Rungs
    [] pc = "round"              -> 3 + Rungs + MaxRounds + 1 - round

CallBound == 3 + (Top + 1) * (MaxRounds + 1) + MaxRounds

(* Validations aside, every step of a call brings its end nearer.          *)
StepsRunOut == [][pc # "idle" => Rank' < Rank \/ (Validate /\ Rank' = Rank)]_vars

RoundsCounted == pc = "round" => round \in 1 .. MaxRounds

(* No rung left costs nothing, and one rung less a family's worth.         *)
LEMMA RungsCount ==
  ASSUME IInv, FixAssumption
  PROVE  /\ Rungs \in Nat /\ Rungs <= (Top + 1) * (MaxRounds + 1)
         /\ (Top + 1) * (MaxRounds + 1) \in Nat
<1>1. rung \in -1 .. Top /\ Top \in Nat /\ MaxRounds + 1 \in Nat
  BY DEF IInv, Position, FixAssumption, NoTier
<1>2. Top - rung \in Nat /\ Top - rung <= Top + 1 /\ Top + 1 \in Nat
  BY <1>1
<1>3. 0 * (MaxRounds + 1) <= (Top - rung) * (MaxRounds + 1)
      /\ (Top - rung) * (MaxRounds + 1) <= (Top + 1) * (MaxRounds + 1)
  BY <1>1, <1>2, Scale
<1>4. 0 * (MaxRounds + 1) = 0 /\ (Top - rung) * (MaxRounds + 1) \in Int
      /\ (Top + 1) * (MaxRounds + 1) \in Int
  BY <1>1, <1>2
<1> QED BY <1>3, <1>4 DEF Rungs

(* A rung opened takes its family's steps from what is left.               *)
LEMMA RungOpened ==
  ASSUME IInv, FixAssumption, OpenRung
  PROVE  Rungs' = Rungs - (MaxRounds + 1)
<1>1. rung' = rung + 1 /\ rung \in Int /\ Top \in Int /\ MaxRounds + 1 \in Nat
  BY DEF IInv, Position, FixAssumption, NoTier, OpenRung
<1>2. (Top - (rung + 1)) * (MaxRounds + 1)
        = (Top - rung) * (MaxRounds + 1) - (MaxRounds + 1)
  <2>1. \A x \in Int, k \in Nat : (x - 1) * k = x * k - k
    OBVIOUS
  <2>2. Top - (rung + 1) = (Top - rung) - 1 /\ Top - rung \in Int
    BY <1>1
  <2> QED BY <1>1, <2>1, <2>2
<1> QED BY <1>1, <1>2 DEF Rungs

(* A call ends after at most CallBound steps and its validations: the rank *)
(* is a number below the bound, and StepsRunOut.  It is the safety half of *)
(* CallEnds, for any ladder and any number of rounds.                      *)
THEOREM CallsAreFinite == Spec => [](Rank \in 0 .. CallBound) /\ StepsRunOut
<1> USE FixAssumption
<1>1. Init => RoundsCounted
  BY DEF Init, RoundsCounted
<1>2. IInv /\ RoundsCounted /\ [Next]_vars => RoundsCounted'
  <2> SUFFICES ASSUME IInv, RoundsCounted, [Next]_vars PROVE RoundsCounted'
    OBVIOUS
  <2> USE DEF RoundsCounted
  <2>0. MaxRounds \in Nat \ {0} /\ round \in Nat
    BY DEF FixAssumption, IInv, TypeOK
  <2>1. CASE SingleCall \/ LadderCall
    BY <2>0, <2>1 DEF SingleCall, LadderCall, Begin
  <2>2. CASE OpenRung \/ NextRound \/ Validate
    <3>1. CASE OpenRung
      BY <2>0, <3>1 DEF OpenRung
    <3>2. CASE NextRound
      BY <2>0, <3>2 DEF NextRound
    <3>3. CASE Validate
      <4>1. UNCHANGED <<pc, round>>
        BY <3>3 DEF Validate
      <4> QED BY <4>1
    <3> QED BY <2>2, <3>1, <3>2, <3>3
  <2>3. CASE LadderEnds \/ CloseFamily
    BY <2>3 DEF LadderEnds, CloseFamily, AfterSearch
  <2>4. CASE Skip \/ Close \/ Abandon
    BY <2>4 DEF Skip, Close, Merge, Select, NoneSelected, Confirm, Abandon
  <2>5. CASE UNCHANGED vars
    BY <2>5 DEF vars
  <2> QED BY <2>1, <2>2, <2>3, <2>4, <2>5 DEF Next, Search
<1>3. IInv /\ RoundsCounted => Rank \in 0 .. CallBound
  <2> SUFFICES ASSUME IInv, RoundsCounted PROVE Rank \in 0 .. CallBound
    OBVIOUS
  <2>1. MaxRounds \in Nat \ {0} /\ (pc = "round" => round \in 1 .. MaxRounds)
    BY DEF FixAssumption, RoundsCounted
  <2>2. pc \in {"idle", "rung", "round", "merge", "select", "final"}
    BY DEF IInv, TypeOK
  <2> QED BY <2>1, <2>2, RungsCount DEF Rank, CallBound
<1>4. IInv /\ RoundsCounted /\ [Next]_vars
        => [pc # "idle" => Rank' < Rank \/ (Validate /\ Rank' = Rank)]_vars
  <2> SUFFICES ASSUME IInv, RoundsCounted, Next, pc # "idle"
               PROVE  Rank' < Rank \/ (Validate /\ Rank' = Rank)
    OBVIOUS
  <2>0. /\ MaxRounds \in Nat \ {0} /\ Rungs \in Nat
        /\ (pc = "round" => round \in 1 .. MaxRounds)
    BY RungsCount DEF FixAssumption, RoundsCounted
  <2>1. CASE OpenRung
    <3>1. Rungs' = Rungs - (MaxRounds + 1) /\ pc = "rung" /\ pc' = "round" /\ round' = 1
      BY <2>1, RungOpened DEF OpenRung
    <3> QED BY <2>0, <3>1 DEF Rank
  <2>2. CASE Validate
    <3>1. Rungs' = Rungs /\ pc = "round" /\ pc' = "round" /\ round' = round
      BY <2>2 DEF Validate, Rungs
    <3> QED BY <2>2, <3>1 DEF Rank
  <2>3. CASE NextRound
    <3>1. Rungs' = Rungs /\ pc = "round" /\ pc' = "round" /\ round' = round + 1
      BY <2>3 DEF NextRound, Rungs
    <3> QED BY <2>0, <3>1 DEF Rank
  <2>4. CASE LadderEnds \/ CloseFamily
    <3>1. /\ Rungs' = Rungs /\ pc \in {"rung", "round"}
          /\ pc' \in {"select", "merge", "idle"} \/ (pc = "round" /\ pc' = "rung")
      BY <2>4 DEF LadderEnds, CloseFamily, AfterSearch, Rungs
    <3> QED BY <2>0, <3>1 DEF Rank
  <2>5. CASE Close \/ Abandon
    <3>1. \/ pc = "select" /\ pc' = "final"
          \/ pc \in {"merge", "select", "final", "round"} /\ pc' = "idle"
      BY <2>5 DEF Close, Merge, Select, NoneSelected, Confirm, Abandon
    <3> QED BY <2>0, <3>1 DEF Rank
  <2>6. CASE Skip \/ SingleCall \/ LadderCall
    BY <2>6 DEF Skip, SingleCall, LadderCall, Begin
  <2> QED BY <2>1, <2>2, <2>3, <2>4, <2>5, <2>6 DEF Next, Search
<1> QED BY <1>1, <1>2, <1>3, <1>4, Invariance, PTL DEF Spec, StepsRunOut
=============================================================================
