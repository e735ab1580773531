------------------------------ MODULE MCAssets ------------------------------
(* Two languages, two keys, and a page of up to four pieces. *)
EXTENDS Assets

KeyA == <<"@", "a", "@">>
KeyB == <<"@", "b", "@">>

(* Values that are shorter and longer than their keys. *)
MCTranslations ==
  << <<[key |-> KeyA, value |-> <<"p">>],
       [key |-> KeyB, value |-> <<"p", "q", "p", "q">>]>>,
     <<[key |-> KeyA, value |-> <<"r", "r">>],
       [key |-> KeyB, value |-> <<"r", "s", "r">>]>> >>

(* Text that may be taken for part of a key, or of a mark. *)
Pieces == {<<"a">>, <<"u">>, <<"@", "u">>, KeyA, KeyB}

MCPages == UNION {[1..n -> Pieces] : n \in 0..4}
MCOthers == UNION {[1..n -> Pieces] : n \in 0..1}

(* Every file ends with a newline; the page with the version's mark before. *)
MCTail == <<"v", "v", "nl">>
=============================================================================
