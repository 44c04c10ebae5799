--------------------------- MODULE MCJobProcessor ---------------------------
(* Small instances of JobProcessor for TLC.                                *)
EXTENDS JobProcessor, TLC

Symmetry == Permutations(Runners)
=============================================================================
