-------------------------------- MODULE Pool --------------------------------
(***************************************************************************)
(* What the two allocators promise: items of several classes, of which     *)
(* each is either available or handed out.  A request is denied only when  *)
(* no item of its class is available.  Storage and Server use the          *)
(* allocators in this form; BAlloc and CtxAlloc implement it.              *)
(***************************************************************************)
CONSTANTS
  Items,    \* what is handed out
  ClassOf   \* the class of each item

VARIABLES
  available,  \* the items nobody has
  last        \* the class the latest call asked for, and its success

None == [asked |-> 0, ok |-> TRUE]

Init ==
  /\ available = Items
  /\ last = None

OfClass(c) == {x \in available : ClassOf[x] = c}

Take(c) ==
  \E x \in OfClass(c) :
    /\ available' = available \ {x}
    /\ last' = [asked |-> c, ok |-> TRUE]

Deny(c) ==
  /\ OfClass(c) = {}
  /\ last' = [asked |-> c, ok |-> FALSE]
  /\ UNCHANGED available

Give(x) ==
  /\ x \notin available
  /\ available' = available \cup {x}
  /\ last' = None

Next ==
  \/ \E c \in {ClassOf[x] : x \in Items} : Take(c) \/ Deny(c)
  \/ \E x \in Items : Give(x)

Spec == Init /\ [][Next]_<<available, last>>
=============================================================================
