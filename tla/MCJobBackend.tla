---------------------------- MODULE MCJobBackend ----------------------------
(* An instance of JobBackend for TLC: ordinary files, of which one is too *)
(* many, a link and a file over the limit.  Ordinary files are alike.     *)
EXTENDS JobBackend, TLC

Symmetry == Permutations(Files \ (Links \cup Huge))
=============================================================================
