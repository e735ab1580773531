------------------------------- MODULE KeyMap -------------------------------
(***************************************************************************)
(* What the hash table is for: a finite map from identifiers to rows, in   *)
(* which an operation on one identifier leaves every other row alone.      *)
(***************************************************************************)
CONSTANTS Ids, Absent, Unpublished, Untils

VARIABLE map  \* id -> [data, until], or Absent

Init == map = [id \in Ids |-> Absent]

Insert(id, data) ==
  /\ map[id] = Absent
  /\ map' = [map EXCEPT ![id] = [data |-> data, until |-> Unpublished]]

Publish(id, until) ==
  /\ map[id] # Absent
  /\ map' = [map EXCEPT ![id].until = until]

Delete(id) ==
  /\ map[id] # Absent
  /\ map' = [map EXCEPT ![id] = Absent]

(* The block of an identifier is named by the identifier. *)
Next ==
  \E id \in Ids : \/ Insert(id, id)
                  \/ \E u \in Untils : Publish(id, u)
                  \/ Delete(id)

Spec == Init /\ [][Next]_map
=============================================================================
