---------------------------- MODULE MCFormalRuns ----------------------------
(* The formal runs of one X partition on small instances. *)
EXTENDS FormalRuns, TLC

=============================================================================
