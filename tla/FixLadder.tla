------------------------------ MODULE FixLadder ------------------------------
(***************************************************************************)
(* VLDiagnoseLoop.run_fix and the FixAgent it drives: one repair search    *)
(* after another with the same agent.  A call validates candidates tier by *)
(* tier, certifies a best one with e-BH over everything it tried, or, with *)
(* a held-out split, freezes one candidate and tests it once on the final  *)
(* partition.  The call borrows the agent's tier limits, logger and case   *)
(* cap, and an exception may end it anywhere.                              *)
(*                                                                         *)
(* A validation is its tier and its statistics: e in units in which the    *)
(* gate 1/alpha is Gate (-1: no e-value), gain the net repaired pairs,     *)
(* pairs their number (mcnemar mode: effect = gain / pairs).               *)
(***************************************************************************)
EXTENDS Integers, Sequences, FiniteSets

CONSTANTS
  Top,          \* the last rung of the ladder, L3B_INTERNALS_WRITE
  Configured,   \* the tier the agent was built with
  Ceilings,     \* the max_tier arguments callers pass, NoTier when none
  Results,      \* the statistics a validation can come back with
  Gate,         \* 1/alpha
  SupportFloor, \* eight development pairs
  MaxRounds,    \* max_repair_rounds
  MaxAttempts   \* bound: validations of one call

NoTier == -1
L4     == Top + 1
Tiers  == 0 .. L4

ASSUME FixAssumption ==
  /\ Top \in Nat /\ Configured \in Tiers
  /\ Ceilings \subseteq Tiers \cup {NoTier}
  /\ Results \subseteq [e : Int, gain : Int, pairs : Nat]
  /\ Gate \in Nat \ {0} /\ SupportFloor \in Nat
  /\ MaxRounds \in Nat \ {0} /\ MaxAttempts \in Nat

VARIABLES
  held,        \* the loop keeps a final partition (confirm is not None)
  maxTier, minTier, logger, cap,   \* the agent's settings, as it stands
  pc, call, saved,                 \* the call under way and what it borrowed
  rung, from, round, fresh,        \* its ladder station, family and round
  attempted, chosen, confirmed,    \* its validations, on both partitions
  outcome, logged                  \* what it returned, and how often it logged

agent == <<maxTier, minTier, logger, cap>>
vars  == <<held, agent, pc, call, saved, rung, from, round, fresh, attempted,
           chosen, confirmed, outcome, logged>>

-----------------------------------------------------------------------------
(* e-BH over a family S of indices of the validations f.                    *)

(* Mutant: a tie with the bar does not count. *)
ClearMutant(f, S, k) == {i \in S : f[i].e * k > Gate * Cardinality(S)}

Clear(f, S, k) == {i \in S : f[i].e * k >= Gate * Cardinality(S)}

Rejects(f, S, k) == Cardinality(Clear(f, S, k)) >= k

ebh(f, S) ==
  {i \in S : \E k \in 1 .. Cardinality(S) : Rejects(f, S, k) /\ i \in Clear(f, S, k)}

(* The same as the code computes it: order the family by falling e-value,   *)
(* let k_star be the last k whose k-th e-value clears its bar, keep the     *)
(* first k_star.                                                            *)
ebhLoop(f, S) ==
  LET m       == Cardinality(S)
      orders  == {o \in [1 .. m -> S] : /\ \A a, b \in 1 .. m : o[a] = o[b] => a = b
                                        /\ \A a \in 1 .. m - 1 : f[o[a]].e >= f[o[a + 1]].e}
      order   == CHOOSE o \in orders : TRUE
      clears  == {k \in 1 .. m : f[order[k]].e * k >= Gate * m}
      k_star  == CHOOSE k \in clears \cup {0} : \A j \in clears : j <= k
  IN {order[k] : k \in 1 .. k_star}

Tested(f, S) == {i \in S : f[i].e >= 0}

(* reject and a positive effect: the candidate's own gate *)
Fixed(v) == v.e >= Gate /\ v.gain > 0

(* Mutant: the best of the family, uncorrected. *)
WinnersMutant(f, S) == {i \in S : Fixed(f[i])}

Winners(f, S) == {i \in ebh(f, Tested(f, S)) : Fixed(f[i])}

(* effect = gain / pairs, compared without dividing *)
Best(f, W) == {i \in W : \A j \in W : f[i].gain * f[j].pairs >= f[j].gain * f[i].pairs}

(* Mutant: a family loses its first validation. *)
FamilyMutant == from + 2 .. Len(attempted)

Family == from + 1 .. Len(attempted)

Improving(f) == {i \in DOMAIN f : f[i].pairs > 0 /\ f[i].e >= 0 /\ f[i].gain > 0}

Supported(f) ==
  {i \in Improving(f) :
     \/ f[i].pairs >= SupportFloor
     \/ \A j \in Improving(f) : f[j].pairs < SupportFloor /\ f[i].pairs >= f[j].pairs}

Above(v, w) == \/ v.e > w.e
               \/ v.e = w.e /\ v.gain > w.gain
               \/ v.e = w.e /\ v.gain = w.gain /\ v.pairs > w.pairs
               \/ v.e = w.e /\ v.gain = w.gain /\ v.pairs = w.pairs /\ v.tier < w.tier

Selected(f) == {i \in Supported(f) : ~ \E j \in Supported(f) : Above(f[j], f[i])}

-----------------------------------------------------------------------------
Nothing == [status |-> "none", best |-> 0, rec |-> FALSE]

Init ==
  /\ held \in BOOLEAN
  /\ maxTier = Configured /\ minTier = NoTier /\ logger \in BOOLEAN /\ cap = TRUE
  /\ pc = "idle"
  /\ call = [ladder |-> FALSE, asked |-> NoTier, ceiling |-> Configured]
  /\ saved = [logger |-> logger, minTier |-> NoTier]
  /\ rung = NoTier /\ from = 0 /\ round = 0 /\ fresh = 0
  /\ attempted = <<>> /\ chosen = 0 /\ confirmed = <<>>
  /\ outcome = Nothing /\ logged = 0

Begin ==
  /\ pc = "idle"
  /\ attempted' = <<>> /\ chosen' = 0 /\ confirmed' = <<>>
  /\ outcome' = Nothing /\ logged' = 0
  /\ from' = 0 /\ round' = 1 /\ fresh' = 0 /\ rung' = NoTier
  /\ saved' = [logger |-> logger, minTier |-> minTier]

(* No hypothesis passed the evidence gate: a skipped stage, nothing tried.  *)
Skip ==
  /\ pc = "idle"
  /\ attempted' = <<>> /\ chosen' = 0 /\ confirmed' = <<>> /\ logged' = 0
  /\ outcome' = [status |-> "skipped", best |-> 0, rec |-> TRUE]
  /\ UNCHANGED <<held, agent, pc, call, saved, rung, from, round, fresh>>

(* run_fix without auto_escalate: one family at the agent's tier, which an  *)
(* explicit max_tier replaces for good.                                     *)
SingleCall ==
  \E t \in Ceilings :
    /\ Begin
    /\ maxTier' = IF t = NoTier THEN maxTier ELSE t
    /\ logger' = (logger /\ ~ held)
    /\ call' = [ladder |-> FALSE, asked |-> t, ceiling |-> maxTier']
    /\ pc' = "round"
    /\ UNCHANGED <<held, minTier, cap>>

(* Mutant: the ladder leaves the agent its logger. *)
LadderCallMutant ==
  \E t \in Ceilings :
    /\ Begin
    /\ call' = [ladder |-> TRUE, asked |-> t, ceiling |-> IF t = NoTier THEN Top ELSE t]
    /\ pc' = "rung"
    /\ UNCHANGED <<held, agent>>

(* run_fix with auto_escalate: the ladder, the agent's own log suppressed.  *)
LadderCall ==
  \E t \in Ceilings :
    /\ Begin
    /\ logger' = FALSE
    /\ call' = [ladder |-> TRUE, asked |-> t, ceiling |-> IF t = NoTier THEN Top ELSE t]
    /\ pc' = "rung"
    /\ UNCHANGED <<held, maxTier, minTier, cap>>

-----------------------------------------------------------------------------
(* Mutant: one rung past the ceiling. *)
HigherRungMutant == rung <= call.ceiling

HigherRung == rung < Top /\ rung < call.ceiling

(* Mutant: the next rung is read off the limit the last one set. *)
OpenRungMutant ==
  /\ pc = "rung" /\ HigherRung
  /\ rung' = IF minTier = NoTier THEN rung + 1 ELSE minTier
  /\ maxTier' = rung' /\ minTier' = rung'
  /\ from' = Len(attempted) /\ round' = 1 /\ fresh' = 0
  /\ pc' = "round"
  /\ UNCHANGED <<held, logger, cap, call, saved, attempted, chosen, confirmed,
                 outcome, logged>>

OpenRung ==
  /\ pc = "rung" /\ HigherRung
  /\ rung' = rung + 1
  /\ maxTier' = rung' /\ minTier' = rung'
  /\ from' = Len(attempted) /\ round' = 1 /\ fresh' = 0
  /\ pc' = "round"
  /\ UNCHANGED <<held, logger, cap, call, saved, attempted, chosen, confirmed,
                 outcome, logged>>

(* Mutant: the lower tier limit stays set. *)
GiveBackMutant ==
  /\ logger' = IF call.ladder \/ held THEN saved.logger ELSE logger
  /\ maxTier' = IF call.ladder /\ held THEN call.ceiling ELSE maxTier
  /\ UNCHANGED minTier

(* The finally clauses of the two ladders and of the held-out single call.  *)
GiveBack ==
  /\ logger' = IF call.ladder \/ held THEN saved.logger ELSE logger
  /\ minTier' = IF call.ladder THEN saved.minTier ELSE minTier
  /\ maxTier' = IF call.ladder /\ held THEN call.ceiling ELSE maxTier

AfterSearch == IF held THEN "select" ELSE IF call.ladder THEN "merge" ELSE "idle"

LadderEnds ==
  /\ pc = "rung" /\ ~ HigherRung
  /\ GiveBack
  /\ pc' = AfterSearch
  /\ UNCHANGED <<held, cap, call, saved, rung, from, round, fresh, attempted,
                 chosen, confirmed, outcome, logged>>

Allowed(t) == t <= maxTier /\ (minTier # NoTier => t >= minTier)

(* One candidate of the round, new since the family began, is validated.    *)
Validate ==
  \E t \in Tiers, r \in Results :
    /\ pc = "round" /\ Allowed(t) /\ Len(attempted) < MaxAttempts
    /\ attempted' = Append(attempted, [tier |-> t, e |-> r.e, gain |-> r.gain,
                                       pairs |-> r.pairs])
    /\ fresh' = fresh + 1
    /\ UNCHANGED <<held, agent, pc, call, saved, rung, from, round, chosen,
                   confirmed, outcome, logged>>

RoundFixed ==
  \E i \in Len(attempted) - fresh + 1 .. Len(attempted) : Fixed(attempted[i])

(* The round is over: another one with the failures fed back, or the family *)
(* is closed: no new candidate, a validated one, or no round left.          *)
NextRound ==
  /\ pc = "round" /\ fresh > 0 /\ ~ RoundFixed /\ round < MaxRounds
  /\ round' = round + 1 /\ fresh' = 0
  /\ UNCHANGED <<held, agent, pc, call, saved, rung, from, attempted, chosen,
                 confirmed, outcome, logged>>

Emitted == IF logger THEN logged + 1 ELSE logged

(* At L4, with no candidate culled by e-BH, there may be nothing to         *)
(* recommend.                                                               *)
NothingAbove(f, S) == maxTier = L4 /\ ~ \E i \in S : Fixed(f[i])

Returned(W, rec) ==
  \E b \in IF W = {} THEN {0} ELSE Best(attempted, W) :
    outcome' = [status |-> "returned", best |-> b, rec |-> rec]

(* e-BH over the family; without a winner a recommendation, unless nothing  *)
(* lies above the agent's tier.  Also where nothing was scorable or there   *)
(* was nothing to repair: an empty family.                                  *)
CloseFamily ==
  /\ pc = "round"
  /\ fresh = 0 \/ RoundFixed \/ round = MaxRounds
  /\ LET won == Winners(attempted, Family) IN
       /\ \E rec \in IF NothingAbove(attempted, Family) THEN BOOLEAN ELSE {TRUE} :
            Returned(won, won = {} /\ rec)
       /\ IF call.ladder /\ won = {}
            THEN pc' = "rung" /\ UNCHANGED <<maxTier, minTier, logger>>
            ELSE pc' = AfterSearch /\ GiveBack
  /\ logged' = Emitted
  /\ UNCHANGED <<held, cap, call, saved, rung, from, round, fresh, attempted,
                 chosen, confirmed>>

-----------------------------------------------------------------------------
(* Without a final partition: e-BH again over every tier the ladder tried.  *)
(* The recommendation stays the last family's.                              *)
Merge ==
  /\ pc = "merge"
  /\ Returned(Winners(attempted, DOMAIN attempted), outcome.rec)
  /\ logged' = Emitted
  /\ pc' = "idle"
  /\ UNCHANGED <<held, agent, call, saved, rung, from, round, fresh, attempted,
                 chosen, confirmed>>

(* With one: freeze the strongest development improvement, lift the cap for *)
(* its test, or leave the final partition untouched.                        *)
Select ==
  /\ pc = "select"
  /\ \E i \in Selected(attempted) :
       /\ chosen' = i /\ cap' = FALSE
       /\ pc' = "final"
  /\ UNCHANGED <<held, maxTier, minTier, logger, call, saved, rung, from, round,
                 fresh, attempted, confirmed, outcome, logged>>

NoneSelected ==
  /\ pc = "select" /\ Selected(attempted) = {}
  /\ Returned({}, maxTier # L4)
  /\ logged' = Emitted
  /\ pc' = "idle"
  /\ UNCHANGED <<held, agent, call, saved, rung, from, round, fresh, attempted,
                 chosen, confirmed>>

(* validate_candidate on the whole final partition: a family of one.        *)
Confirm ==
  \E r \in Results :
    /\ pc = "final"
    /\ confirmed' = Append(confirmed, [tier |-> attempted[chosen].tier, e |-> r.e,
                                       gain |-> r.gain, pairs |-> r.pairs])
    /\ cap' = TRUE
    /\ LET last == Len(confirmed')
           won  == Winners(confirmed', {last}) # {} IN
         \E rec \in IF NothingAbove(confirmed', {last}) THEN BOOLEAN ELSE {TRUE} :
           outcome' = [status |-> "returned", best |-> IF won THEN chosen ELSE 0,
                       rec |-> ~ won /\ rec]
    /\ logged' = Emitted
    /\ pc' = "idle"
    /\ UNCHANGED <<held, maxTier, minTier, logger, call, saved, rung, from, round,
                   fresh, attempted, chosen>>

(* The judge, the model or a scorer raises, or a custom agent returns an    *)
(* opaque result: only the finally clauses run.                             *)
Abandon ==
  /\ pc \in {"round", "final"}
  /\ IF pc = "final" THEN cap' = TRUE /\ UNCHANGED <<maxTier, minTier, logger>>
                     ELSE GiveBack /\ UNCHANGED cap
  /\ outcome' = [Nothing EXCEPT !.status = "abandoned"]
  /\ pc' = "idle"
  /\ UNCHANGED <<held, call, saved, rung, from, round, fresh, attempted, chosen,
                 confirmed, logged>>

-----------------------------------------------------------------------------
Search == OpenRung \/ LadderEnds \/ Validate \/ NextRound \/ CloseFamily
Close  == Merge \/ Select \/ NoneSelected \/ Confirm

Next == Skip \/ SingleCall \/ LadderCall \/ Search \/ Close \/ Abandon

Spec == Init /\ [][Next]_vars

(* A call runs to its end: the candidates of a round are finitely many, so  *)
(* its closing steps come, and no other step waits for anybody.             *)
FairSpec ==
  /\ Spec
  /\ WF_vars(OpenRung \/ LadderEnds)
  /\ WF_vars(NextRound \/ CloseFamily)
  /\ WF_vars(Close)

-----------------------------------------------------------------------------
(* Properties.                                                              *)

Validation == [tier : Tiers, e : Int, gain : Int, pairs : Nat]

(* Every variable holds a value of its kind.                                *)
TypeOK ==
  /\ held \in BOOLEAN
  /\ maxTier \in Tiers /\ minTier \in Tiers \cup {NoTier}
  /\ logger \in BOOLEAN /\ cap \in BOOLEAN
  /\ pc \in {"idle", "rung", "round", "merge", "select", "final"}
  /\ call \in [ladder : BOOLEAN, asked : Tiers \cup {NoTier}, ceiling : Tiers]
  /\ saved \in [logger : BOOLEAN, minTier : Tiers \cup {NoTier}]
  /\ rung \in Tiers \cup {NoTier} /\ from \in Nat /\ round \in Nat /\ fresh \in Nat
  /\ attempted \in Seq(Validation) /\ confirmed \in Seq(Validation)
  /\ chosen \in Nat /\ logged \in Nat
  /\ outcome \in [status : {"none", "skipped", "returned", "abandoned"},
                  best : Nat, rec : BOOLEAN]

(* What a call borrows it gives back, however it ends: between two calls    *)
(* the agent has no lower tier limit, the logger the caller gave it and its *)
(* case cap, and an exception in any candidate changes nothing of that      *)
(* (the finally clauses of run_fix and _confirm_from_explore).              *)
Restored == pc = "idle" => minTier = NoTier /\ logger = saved.logger /\ cap

(* A repair reported as fixed survived e-BH over every validation its call  *)
(* made, of all the tiers it went through, and not only over its own tier:  *)
(* the union is a larger best-of-N family.  With a final partition it is    *)
(* the candidate frozen on development, improving there, and the one test   *)
(* of it passed.                                                            *)
CertifiedByFamily ==
  pc = "idle" /\ outcome.best # 0 =>
    IF held
      THEN /\ outcome.best = chosen /\ chosen \in Improving(attempted)
           /\ Len(confirmed) = 1 /\ Fixed(confirmed[1])
      ELSE /\ outcome.best \in ebh(attempted, Tested(attempted, DOMAIN attempted))
           /\ Fixed(attempted[outcome.best])

(* No candidate above the tier the caller allowed is ever run, whatever     *)
(* earlier calls, broken off or not, left in the agent.                     *)
WithinCeiling ==
  \A i \in DOMAIN attempted :
    call.asked # NoTier \/ call.ladder => attempted[i].tier <= call.ceiling

(* The more invasive tier is opened only after the cheaper ones failed: of  *)
(* every tier below the last one tried, the family had no winner.           *)
EscalatesOnFailure ==
  call.ladder =>
    \A i, j \in DOMAIN attempted :
      attempted[i].tier < attempted[j].tier =>
        Winners(attempted, {k \in DOMAIN attempted : attempted[k].tier = attempted[i].tier}) = {}

(* A call that returns an outcome logs it exactly once, the ladder's        *)
(* families and the development search not at all; one that was broken off  *)
(* or skipped logs none.                                                    *)
LoggedOnce ==
  pc = "idle" =>
    logged = IF outcome.status = "returned" /\ saved.logger THEN 1 ELSE 0

(* e-BH as stats/ebh.py computes it, by sorting, is the set of validations  *)
(* that clear the bar of some k which k of them clear, ties included, on    *)
(* every family a call forms.                                               *)
EbhIsTheLoop ==
  \A S \in {Tested(attempted, Family), Tested(attempted, DOMAIN attempted)} :
    ebh(attempted, S) = ebhLoop(attempted, S)

(* Every call ends: rungs and rounds run out.                               *)
CallEnds == pc # "idle" ~> pc = "idle"

(* FixOutcome: recommendation is None when a candidate validated, otherwise *)
(* a recommendation (below L4, above which nothing can be recommended).     *)
RecommendsUnlessFixed ==
  pc = "idle" /\ outcome.status = "returned" /\ maxTier # L4 =>
    (outcome.rec <=> outcome.best = 0)
=============================================================================
