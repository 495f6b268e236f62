----------------------------- MODULE MCDrillLoop -----------------------------
(* TLC instances of DrillLoop: symmetry of the threads and of the items. *)
EXTENDS DrillLoop, TLC

Symmetry == Permutations(Workers)
=============================================================================
