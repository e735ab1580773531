---------------------------- MODULE MCDebouncer ----------------------------
(* Three addresses compete for two entries, under every hash function. *)
EXTENDS Debouncer, TLC

Symmetry == Permutations(Keys)
=============================================================================
