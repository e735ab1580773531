----------------------------- MODULE Debouncer -----------------------------
(***************************************************************************)
(* The rate limiter of debouncer.h: a small open-addressing table from     *)
(* address keys to the millisecond at which the next request is allowed,   *)
(* on a clock of 32 bits that wraps (here modulo CLOCK).                   *)
(***************************************************************************)
EXTENDS Integers, FiniteSets

CONSTANTS
  Keys,           \* non-zero address keys
  NoKey,          \* key 0: an empty entry, or an unknown address
  DEB_CAP,
  DEB_WINDOW_MS,
  CLOCK,          \* 2^32
  MAX_TIME        \* bound: milliseconds since boot

ASSUME DebouncerConstants ==
  /\ NoKey \notin Keys
  /\ DEB_CAP \in Nat \ {0}
  /\ DEB_WINDOW_MS \in Nat \ {0}
  /\ CLOCK \in Nat
  /\ 2 * DEB_WINDOW_MS < CLOCK
  /\ MAX_TIME \in Nat

VARIABLES
  home,      \* (key ^ (key >> 32)) & deb_mask; any function will do
  deb_tbl,   \* slot -> [key, until_ms]
  deb_sweep, \* the next slot to evict
  time,      \* milliseconds since boot, unwrapped
  granted,   \* history: when a key was last allowed
  decision   \* history: the last answer, and the state of the key before it

vars == <<home, deb_tbl, deb_sweep, time, granted, decision>>

Slots == 0..(DEB_CAP - 1)
deb_now_ms == time % CLOCK
Until == (deb_now_ms + DEB_WINDOW_MS) % CLOCK

Never == -1
Init ==
  /\ home \in [Keys -> Slots]
  /\ deb_tbl = [i \in Slots |-> [key |-> NoKey, until_ms |-> 0]]
  /\ deb_sweep = 0
  /\ time = 0
  /\ granted = [k \in Keys |-> Never]
  /\ decision = [key |-> NoKey, allowed |-> TRUE, tracked |-> FALSE,
                 since |-> 0]

(* Variant: a request in the last millisecond of the window is let through. *)
InWindow_Short(until_ms) ==
  LET d == (until_ms - deb_now_ms) % CLOCK IN 1 < d /\ 2 * d < CLOCK

(* (int32_t)(until_ms - now) > 0 *)
InWindow(until_ms) ==
  LET d == (until_ms - deb_now_ms) % CLOCK IN 0 < d /\ 2 * d < CLOCK

(* Variant: only the home slot is looked at before evicting. *)
Probes_HomeOnly(key) == {0}

(* The distances a probe may look at. *)
Probes(key) == Slots

(* The slot of the first entry that is key's or empty; DEB_CAP if none is. *)
Hits(key) ==
  {p \in Probes(key) :
     deb_tbl[(home[key] + p) % DEB_CAP].key \in {key, NoKey}}
Probe(key) ==
  IF Hits(key) = {} THEN DEB_CAP
  ELSE (home[key] + (CHOOSE p \in Hits(key) :
                       \A q \in Hits(key) : p <= q)) % DEB_CAP

Tracked(key) == \E i \in Slots : deb_tbl[i].key = key
Decide(key, allowed) ==
  decision' = [key |-> key, allowed |-> allowed, tracked |-> Tracked(key),
               since |-> IF granted[key] = Never THEN MAX_TIME + DEB_WINDOW_MS
                         ELSE time - granted[key]]

Put(i, key) ==
  /\ deb_tbl' = [deb_tbl EXCEPT ![i] = [key |-> key, until_ms |-> Until]]
  /\ granted' = [granted EXCEPT ![key] = time]
  /\ Decide(key, TRUE)
  /\ UNCHANGED <<home, time>>

(* debouncer_allow_key: the entry is found and its window still open, ... *)
Reject(key) ==
  /\ Probe(key) # DEB_CAP
  /\ deb_tbl[Probe(key)].key = key
  /\ InWindow(deb_tbl[Probe(key)].until_ms)
  /\ Decide(key, FALSE)
  /\ UNCHANGED <<home, deb_tbl, deb_sweep, time, granted>>

(* ... or it is renewed, or an empty one is taken, ... *)
Allow(key) ==
  /\ Probe(key) # DEB_CAP
  /\ ~(/\ deb_tbl[Probe(key)].key = key
       /\ InWindow(deb_tbl[Probe(key)].until_ms))
  /\ Put(Probe(key), key)
  /\ UNCHANGED deb_sweep

(* ... or the table is full, and the sweep evicts whatever is next. *)
Evict(key) ==
  /\ Probe(key) = DEB_CAP
  /\ Put(deb_sweep, key)
  /\ deb_sweep' = (deb_sweep + 1) % DEB_CAP

(* An unknown address has key 0: always allowed, nothing recorded. *)
AllowUnknown == UNCHANGED vars

debouncer_allow_key(key) == Reject(key) \/ Allow(key) \/ Evict(key)

Tick ==
  /\ time < MAX_TIME
  /\ time' = time + 1
  /\ UNCHANGED <<home, deb_tbl, deb_sweep, granted, decision>>

Next == Tick \/ AllowUnknown \/ \E key \in Keys : debouncer_allow_key(key)

Spec == Init /\ [][Next]_vars

-----------------------------------------------------------------------------
TypeOK ==
  /\ home \in [Keys -> Slots]
  /\ deb_tbl \in [Slots -> [key : Keys \cup {NoKey}, until_ms : 0..(CLOCK - 1)]]
  /\ deb_sweep \in Slots
  /\ time \in 0..MAX_TIME
  /\ granted \in [Keys -> (0..MAX_TIME) \cup {Never}]
  /\ decision.allowed \in BOOLEAN

(* A key whose entry was not evicted is never allowed twice within one      *)
(* window, wherever the 32-bit clock stands.                                *)
OncePerWindow ==
  decision.allowed /\ decision.tracked => decision.since >= DEB_WINDOW_MS

(* debouncer.h: "one request per IP every 150 ms"; so a request is refused  *)
(* only if one was allowed less than a window ago.                          *)
RefusedOnlyInWindow == ~decision.allowed => decision.since < DEB_WINDOW_MS

(* Eviction and probing never leave two entries for one key, of which the   *)
(* probe would then see the wrong one.                                      *)
OneEntryPerKey ==
  \A i, j \in Slots :
    deb_tbl[i].key = deb_tbl[j].key /\ deb_tbl[i].key # NoKey => i = j
=============================================================================
