------------------------------- MODULE MCSaga -------------------------------
(* A small instance of Saga for TLC.  Symmetry is not used: it is unsound    *)
(* for the liveness property of the run.                                   *)
EXTENDS Saga, TLC
=============================================================================
