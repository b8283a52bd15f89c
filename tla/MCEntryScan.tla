----------------------------- MODULE MCEntryScan -----------------------------
(* EntryScan with the constants of its runs. *)
EXTENDS EntryScan
==============================================================================
