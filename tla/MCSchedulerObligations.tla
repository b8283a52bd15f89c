----------------------- MODULE MCSchedulerObligations -----------------------
(* SchedulerObligations with the constants of its runs: one obligation, the  *)
(* passes of the scheduler and of an API process.                            *)
EXTENDS SchedulerObligations
=============================================================================
