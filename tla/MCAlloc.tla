------------------------------ MODULE MCAlloc -------------------------------
(***************************************************************************)
(* The two allocators in one run.  They share no state, so that the        *)
(* product of their states would show nothing more: a behaviour exercises  *)
(* one of them, and the other stays as it was initialised.                 *)
(***************************************************************************)
EXTENDS BAlloc, CtxAlloc

(* Bucket 1 can be emptied, and asked once more. *)
MCHeldMax == [i \in 0..1 |-> IF i = 0 THEN 2 ELSE 5]

MCInit == Init /\ CtxInit

MCNext ==
  \/ CtxInit /\ Next /\ UNCHANGED ctxVars
  \/ Init /\ CtxNext /\ UNCHANGED vars

MCSpec == MCInit /\ [][MCNext]_<<vars, ctxVars>>
=============================================================================
