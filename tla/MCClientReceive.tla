-------------------------- MODULE MCClientReceive --------------------------
(* One page, with one call of the decryption at a time, or two. *)
EXTENDS ClientReceive, TLC

Symmetry == Permutations(Calls)
=============================================================================
