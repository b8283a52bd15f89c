-------------------------- MODULE MCDataPublication --------------------------
(* DataPublication with the constants of its runs. *)
EXTENDS DataPublication, TLC

PubSymmetry == Permutations(Pub)
==============================================================================
