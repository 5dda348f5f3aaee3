--------------------------- MODULE MCDiagnoseLoop ---------------------------
(* DiagnoseLoop on a batch of four cases -- the smallest that              *)
(* _split_partitions divides -- and two hypotheses.                        *)
EXTENDS DiagnoseLoop, TLC

Symmetry == Permutations(Case) \cup Permutations(Hyp)
=============================================================================
