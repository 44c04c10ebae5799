------------------------------ MODULE MCOutbox ------------------------------
(* A small instance of Outbox for TLC.  Symmetry is not used: it is unsound  *)
(* for the liveness property of the run.                                   *)
EXTENDS Outbox, TLC
=============================================================================
