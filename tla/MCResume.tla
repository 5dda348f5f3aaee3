------------------------------ MODULE MCResume ------------------------------
(* Three cycles of two results and up to two hypotheses, and a clock of two *)
(* seconds: a run can be resumed twice and another run started over its     *)
(* checkpoint.  One append fails or is cut short; crashes are not counted.  *)
EXTENDS Resume
=============================================================================
