----------------------------- MODULE MCService -----------------------------
(* Instances of Service for TLC: one or two requests to submit, one to     *)
(* cancel, and the reconcile loop.                                         *)
EXTENDS Service, TLC
=============================================================================
