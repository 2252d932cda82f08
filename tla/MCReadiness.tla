----------------------------- MODULE MCReadiness -----------------------------
(* An instance of Readiness for TLC.  *)
EXTENDS Readiness
MCQueues == {"cpu", "spare"}
MCRuns == <<"newest", "oldest">>
=============================================================================
