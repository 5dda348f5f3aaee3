---------------------------- MODULE MCAgenticLoop ----------------------------
(* AgenticLoop with two hypothesis objects and small call limits.          *)
EXTENDS AgenticLoop

SmallQuota ==
  [t \in Tool |-> IF t \in {"run_stats", "propose_hypotheses", "test_hypothesis"} THEN 2 ELSE 1]
=============================================================================
