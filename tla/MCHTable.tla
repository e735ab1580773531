------------------------------ MODULE MCHTable ------------------------------
(* A table of four slots that its keys can fill, under every hash function. *)
EXTENDS HTable, TLC

Symmetry == Permutations(Ids)
=============================================================================
