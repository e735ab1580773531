---------------------------- MODULE OneTimeStore ----------------------------
(***************************************************************************)
(* What the service promises about a secret, whatever the daemon does to   *)
(* keep the promise: it becomes readable at most once in its life, under   *)
(* an identifier nobody else is using, and it stops being readable the     *)
(* moment it is handed to the one reader, or when it is discarded.         *)
(***************************************************************************)
CONSTANTS Secrets, IdOf

VARIABLES
  held,   \* secrets a GET would return
  lent,   \* secrets handed to a reader, still in memory
  spent   \* secrets that were ever readable

vars == <<held, lent, spent>>

Init == held = {} /\ lent = {} /\ spent = {}

Publish(s) ==
  /\ s \notin spent
  /\ \A t \in held : IdOf[t] # IdOf[s]
  /\ held' = held \cup {s}
  /\ spent' = spent \cup {s}
  /\ UNCHANGED lent

Read(s) ==
  /\ s \in held
  /\ held' = held \ {s}
  /\ lent' = lent \cup {s}
  /\ UNCHANGED spent

Release(s) ==
  /\ s \in lent
  /\ lent' = lent \ {s}
  /\ UNCHANGED <<held, spent>>

(* Expiry takes any number of secrets at once; so does the end. *)
Discard(S) ==
  /\ held' = held \ S
  /\ UNCHANGED <<lent, spent>>

Next ==
  \/ \E s \in Secrets : Publish(s) \/ Read(s) \/ Release(s)
  \/ \E S \in SUBSET held : Discard(S)

Spec == Init /\ [][Next]_vars
=============================================================================
