--------------------------- MODULE MCRunController ---------------------------
(* Instances of RunController for TLC: one submitter, one reconcile loop, *)
(* one caller of cancel.                                                  *)
EXTENDS RunController, TLC
=============================================================================
