-------------------------- MODULE DebouncerProofs --------------------------
(***************************************************************************)
(* Proofs about the rate limiter, for every size of the table, every       *)
(* window and clock that it fits into twice, and every hash function.      *)
(***************************************************************************)
EXTENDS Debouncer, WellFoundedInduction, TLAPS

At(key, p) == (home[key] + p) % DEB_CAP

Types ==
  /\ home \in [Keys -> Slots]
  /\ deb_tbl \in [Slots -> [key : Keys \cup {NoKey}, until_ms : 0..(CLOCK - 1)]]
  /\ deb_sweep \in Slots
  /\ time \in 0..MAX_TIME
  /\ granted \in [Keys -> (0..MAX_TIME) \cup {Never}]

(* Entries are overwritten but never emptied, so a probe path has no gap;   *)
(* an evicting key takes any slot, but then no slot is empty.               *)
NoGap(i, key) ==
  \A p, q \in Slots :
    At(key, q) = i /\ p < q => deb_tbl[At(key, p)].key # NoKey
Paths ==
  \A i \in Slots : deb_tbl[i].key # NoKey => NoGap(i, deb_tbl[i].key)

(* An entry says when its key was last allowed, as the clock shows it. *)
EndOf(t) == ((t % CLOCK) + DEB_WINDOW_MS) % CLOCK
Entries ==
  \A i \in Slots : deb_tbl[i].key # NoKey =>
    /\ granted[deb_tbl[i].key] \in 0..time
    /\ deb_tbl[i].until_ms = EndOf(granted[deb_tbl[i].key])

TableInv == Types /\ Paths /\ Entries /\ OneEntryPerKey

-----------------------------------------------------------------------------
(* The constants are numbers, and a window is less than half the clock. *)
LEMMA Numbers ==
  /\ DEB_CAP \in Nat /\ DEB_CAP > 0 /\ CLOCK \in Nat /\ CLOCK > 0
  /\ DEB_WINDOW_MS \in Nat /\ DEB_WINDOW_MS > 0
  /\ 2 * DEB_WINDOW_MS < CLOCK /\ MAX_TIME \in Nat
  /\ Slots \subseteq Nat /\ DEB_CAP \notin Slots
BY DebouncerConstants DEF Slots

(* Every set of numbers that is not empty has a least one. *)
LEMMA Least ==
  ASSUME NEW S, S \subseteq Nat, S # {}
  PROVE  \E n \in S : \A m \in S : n <= m
<1> DEFINE R == OpToRel(<, Nat)
<1>1. IsWellFoundedOn(R, Nat)
  BY NatLessThanWellFounded
<1>2. PICK x \in S : \A y \in S : ~(<<y, x>> \in R)
  <2> HIDE DEF R
  <2> QED
    BY <1>1, WFMin
<1>3. \A y \in S : ~(y < x)
  BY <1>2 DEF OpToRel
<1> QED
  BY <1>3

(* (h + p) & deb_mask. *)
LEMMA RoundSum ==
  ASSUME NEW h \in Slots, NEW p \in Slots
  PROVE  (h + p) % DEB_CAP = IF h + p < DEB_CAP THEN h + p
                             ELSE h + p - DEB_CAP
<1>1. h + p \in Int /\ 0 <= h + p /\ h + p < 2 * DEB_CAP
  BY Numbers DEF Slots
<1>2. DEB_CAP \in Nat /\ DEB_CAP > 0
  BY Numbers
<1> QED
  BY <1>1, <1>2 DEF Slots

(* Going round: every slot is at one distance from a home. *)
LEMMA Round ==
  ASSUME Types, NEW key \in Keys
  PROVE  /\ \A p \in Slots : At(key, p) \in Slots
         /\ \A i \in Slots : \E p \in Slots : At(key, p) = i
         /\ \A p, q \in Slots : At(key, p) = At(key, q) => p = q
<1>1. home[key] \in 0..(DEB_CAP - 1)
  BY DEF Types, Slots
<1>2. ASSUME NEW p \in Slots
      PROVE  At(key, p) = IF home[key] + p < DEB_CAP THEN home[key] + p
                          ELSE home[key] + p - DEB_CAP
  BY <1>2, RoundSum DEF At, Types
<1> HIDE DEF At
<1>3. \A p \in Slots : At(key, p) \in Slots
  BY <1>1, <1>2, Numbers DEF Slots
<1>4. \A p, q \in Slots : At(key, p) = At(key, q) => p = q
  BY <1>1, <1>2, Numbers DEF Slots
<1>5. ASSUME NEW i \in Slots
      PROVE  \E p \in Slots : At(key, p) = i
  <2> DEFINE d == IF home[key] <= i THEN i - home[key]
                  ELSE i - home[key] + DEB_CAP
  <2>1. d \in Slots
    BY <1>1, <1>5, Numbers DEF Slots
  <2>2. At(key, d) = IF home[key] + d < DEB_CAP THEN home[key] + d
                     ELSE home[key] + d - DEB_CAP
    BY <1>2, <2>1
  <2>3. At(key, d) = i
    BY <1>1, <1>5, <2>2, Numbers DEF Slots
  <2> QED
    BY <2>1, <2>3
<1> QED
  BY <1>3, <1>4, <1>5

(* The probe ends at the key's entry if it has one, else at the first empty *)
(* one on its path, else nowhere.                                           *)
LEMMA ProbeEnds ==
  ASSUME TableInv, NEW key \in Keys
  PROVE  /\ Probe(key) = DEB_CAP =>
              /\ ~Tracked(key)
              /\ \A i \in Slots : deb_tbl[i].key # NoKey
         /\ Probe(key) # DEB_CAP =>
              /\ Probe(key) \in Slots
              /\ \/ deb_tbl[Probe(key)].key = key
                 \/ ~Tracked(key) /\ deb_tbl[Probe(key)].key = NoKey
              /\ NoGap(Probe(key), key)
<1> USE DEF TableInv
<1>1. /\ \A p \in Slots : At(key, p) \in Slots
      /\ \A i \in Slots : \E p \in Slots : At(key, p) = i
      /\ \A p, q \in Slots : At(key, p) = At(key, q) => p = q
  BY Round
<1>2. Hits(key) = {p \in Slots : deb_tbl[At(key, p)].key \in {key, NoKey}}
  BY DEF Hits, Probes, At
<1>3. key # NoKey
  BY DebouncerConstants
<1>4. CASE Hits(key) = {}
  <2>1. Probe(key) = DEB_CAP
    BY <1>4 DEF Probe
  <2>2. \A i \in Slots : deb_tbl[i].key \notin {key, NoKey}
    BY <1>1, <1>2, <1>4
  <2> QED
    BY <2>1, <2>2 DEF Tracked
<1>5. CASE Hits(key) # {}
  <2> DEFINE p == CHOOSE p \in Hits(key) : \A q \in Hits(key) : p <= q
  <2>1. p \in Hits(key) /\ \A q \in Hits(key) : p <= q
    <3>1. Hits(key) \subseteq Nat
      BY <1>2, Numbers
    <3>2. \E n \in Hits(key) : \A m \in Hits(key) : n <= m
      BY <1>5, <3>1, Least
    <3> QED
      BY <3>2, Zenon
  <2>2. Probe(key) = At(key, p)
    BY <1>5, Zenon DEF Probe, At
  <2> HIDE DEF p
  <2>3. /\ p \in Slots /\ Probe(key) \in Slots /\ Probe(key) # DEB_CAP
        /\ deb_tbl[Probe(key)].key \in {key, NoKey}
    <3>1. p \in Slots /\ deb_tbl[At(key, p)].key \in {key, NoKey}
      BY <1>2, <2>1, Zenon
    <3>2. At(key, p) \in Slots
      BY <1>1, <3>1
    <3> QED
      BY <2>2, <3>1, <3>2, Numbers
  <2>4. ASSUME NEW q \in Slots, q < p
        PROVE  deb_tbl[At(key, q)].key \notin {key, NoKey}
    <3>1. q \notin Hits(key)
      BY <2>1, <2>3, <2>4, Numbers
    <3> QED
      BY <1>2, <3>1
  <2>5. NoGap(Probe(key), key)
    BY <1>1, <2>2, <2>3, <2>4 DEF NoGap
  <2>6. ASSUME Tracked(key)
        PROVE  deb_tbl[Probe(key)].key = key
    <3>1. PICK i \in Slots : deb_tbl[i].key = key
      BY <2>6 DEF Tracked
    <3>2. PICK q \in Slots : At(key, q) = i
      BY <1>1
    <3>3. q \in Hits(key)
      BY <1>2, <3>1, <3>2
    <3>4. p = q \/ p < q
      BY <2>1, <2>3, <3>3, Numbers
    <3>5. NoGap(i, key)
      BY <1>3, <3>1 DEF Paths
    <3>6. p < q => deb_tbl[Probe(key)].key # NoKey
      BY <2>2, <2>3, <3>2, <3>5 DEF NoGap
    <3> QED
      BY <2>2, <2>3, <3>1, <3>2, <3>4, <3>6
  <2> QED
    BY <2>3, <2>5, <2>6
<1> QED
  BY <1>4, <1>5

(* The 32-bit difference of two points less than a window apart is their    *)
(* true difference, wherever the clock C has wrapped in between.            *)
LEMMA Wraps ==
  ASSUME NEW C \in Nat, NEW W \in Nat, W > 0, 2 * W < C,
         NEW g \in Nat, NEW t \in Nat, g <= t, t < g + W
  PROVE  ((((g % C) + W) % C) - (t % C)) % C = g + W - t
<1>1. PICK p \in Int, a \in 0..(C - 1) : g = C * p + a /\ a = g % C
  <2> WITNESS g \div C \in Int, g % C \in 0..(C - 1)
  <2> QED
    OBVIOUS
<1>2. PICK q \in Int, s \in 0..(C - 1) : t = C * q + s /\ s = t % C
  <2> WITNESS t \div C \in Int, t % C \in 0..(C - 1)
  <2> QED
    OBVIOUS
<1>3. PICK u \in 0..(C - 1) : /\ u = (a + W) % C
                              /\ u = a + W \/ u = a + W - C
  OBVIOUS
<1>4. PICK y \in Int : y = g + W - t /\ 0 < y /\ y < C
  OBVIOUS
<1>5. \E m \in Int : u - s = y + C * m
  <2>0. g = C * p + a /\ t = C * q + s /\ y = g + W - t
    BY <1>1, <1>2, <1>4
  <2>1. CASE u = a + W
    <3>1. u - s = y + C * (q - p)
      BY <2>0, <2>1
    <3> QED
      BY <3>1
  <2>2. CASE u = a + W - C
    <3>1. u - s = y + C * (q - p - 1)
      BY <2>0, <2>2
    <3> QED
      BY <3>1
  <2> QED
    BY <1>3, <2>1, <2>2
<1>6. \A m \in Int : u - s = y + C * m => m = 0 \/ m = -1
  <2> SUFFICES ASSUME NEW m \in Int, u - s = y + C * m
               PROVE  m = 0 \/ m = -1
    OBVIOUS
  <2>1. -C < u - s /\ u - s < C
    OBVIOUS
  <2> QED
    BY <1>4, <2>1
<1>7. u - s = y \/ u - s = y - C
  <2>1. PICK m \in Int : u - s = y + C * m
    BY <1>5
  <2>2. m = 0 \/ m = -1
    BY <1>6, <2>1
  <2> QED
    BY <2>1, <2>2
<1>8. (u - s) % C = y
  BY <1>4, <1>7
<1> QED
  BY <1>1, <1>2, <1>3, <1>4, <1>8

(* So a window that is open by the true time is open by the clock. *)
LEMMA SeenOpen ==
  ASSUME NEW g \in 0..time, time \in Nat, time < g + DEB_WINDOW_MS
  PROVE  InWindow(EndOf(g))
<1>1. (EndOf(g) - deb_now_ms) % CLOCK = g + DEB_WINDOW_MS - time
  <2>1. g \in Nat /\ g <= time
    OBVIOUS
  <2>2. /\ CLOCK \in Nat /\ DEB_WINDOW_MS \in Nat /\ DEB_WINDOW_MS > 0
        /\ 2 * DEB_WINDOW_MS < CLOCK
    BY Numbers
  <2>3. ((((g % CLOCK) + DEB_WINDOW_MS) % CLOCK) - (time % CLOCK)) % CLOCK
          = g + DEB_WINDOW_MS - time
    BY <2>1, <2>2, Wraps
  <2> QED
    BY <2>3, Zenon DEF EndOf, deb_now_ms
<1>2. /\ 0 < g + DEB_WINDOW_MS - time
      /\ 2 * (g + DEB_WINDOW_MS - time) < CLOCK
  BY Numbers
<1> QED
  BY <1>1, <1>2 DEF InWindow

-----------------------------------------------------------------------------
(* An entry is written where the key's own is, or at the first empty one,   *)
(* or anywhere in a full table that has none for it.                        *)
LEMMA PutStep ==
  ASSUME TableInv, NEW key \in Keys, NEW i \in Slots, Put(i, key),
         deb_tbl[i].key = key \/ ~Tracked(key), NoGap(i, key),
         deb_sweep' \in Slots
  PROVE  TableInv'
<1> USE DEF TableInv
<1>1. /\ deb_tbl' = [deb_tbl EXCEPT ![i] = [key |-> key, until_ms |-> Until]]
      /\ granted' = [granted EXCEPT ![key] = time]
      /\ home' = home /\ time' = time
  BY DEF Put
<1>2. key # NoKey /\ Until = EndOf(time) /\ Until \in 0..(CLOCK - 1)
  <2>1. time \in Int
    BY DEF Types
  <2>2. deb_now_ms \in 0..(CLOCK - 1)
    BY <2>1, Numbers DEF deb_now_ms
  <2>3. deb_now_ms + DEB_WINDOW_MS \in Int
    BY <2>2, Numbers
  <2>4. Until \in 0..(CLOCK - 1)
    BY <2>3, Numbers DEF Until
  <2> QED
    BY <2>4, DebouncerConstants DEF Until, EndOf, deb_now_ms
<1>3. /\ deb_tbl'[i].key = key /\ deb_tbl'[i].until_ms = EndOf(time)
      /\ \A j \in Slots \ {i} : deb_tbl'[j] = deb_tbl[j]
      /\ deb_tbl' \in [Slots -> [key : Keys \cup {NoKey},
                                 until_ms : 0..(CLOCK - 1)]]
  <2> DEFINE x == [key |-> key, until_ms |-> Until]
  <2>1. /\ x \in [key : Keys \cup {NoKey}, until_ms : 0..(CLOCK - 1)]
        /\ x.key = key /\ x.until_ms = EndOf(time)
    BY <1>2
  <2>2. deb_tbl' = [deb_tbl EXCEPT ![i] = x]
    BY <1>1
  <2> HIDE DEF x
  <2> QED
    BY <2>1, <2>2 DEF Types
<1>4. /\ granted'[key] = time
      /\ \A k \in Keys \ {key} : granted'[k] = granted[k]
      /\ granted' \in [Keys -> (0..MAX_TIME) \cup {Never}]
  BY <1>1 DEF Types
<1>5. Types'
  BY <1>1, <1>3, <1>4 DEF Types, Slots
<1>6. \A j \in Slots \ {i} : deb_tbl[j].key # key
  BY <1>2 DEF Tracked, OneEntryPerKey
<1>7. OneEntryPerKey'
  BY <1>3, <1>6 DEF OneEntryPerKey, Slots
<1>8. \A j \in Slots : deb_tbl[j].key # NoKey => deb_tbl'[j].key # NoKey
  BY <1>2, <1>3
<1>9. ASSUME NEW j \in Slots, NEW k \in Keys, NoGap(j, k)
      PROVE  NoGap(j, k)'
  <2>1. \A p \in Slots : At(k, p)' = At(k, p) /\ At(k, p) \in Slots
    BY <1>1, Round DEF At
  <2> QED
    BY <1>8, <1>9, <2>1 DEF NoGap, Slots
<1>10. Paths'
  <2>1. ASSUME NEW j \in Slots, deb_tbl'[j].key # NoKey
        PROVE  deb_tbl'[j].key \in Keys /\ NoGap(j, deb_tbl'[j].key)
    <3>1. CASE j = i
      BY <1>3, <3>1
    <3>2. CASE j # i
      BY <1>3, <2>1, <3>2 DEF Paths, Types
    <3> QED
      BY <3>1, <3>2
  <2>2. ASSUME NEW j \in Slots, deb_tbl'[j].key # NoKey
        PROVE  NoGap(j, deb_tbl[j].key)'
    <3>1. PICK k \in Keys : k = deb_tbl'[j].key /\ NoGap(j, k)
      BY <2>1, <2>2
    <3>2. NoGap(j, k)'
      BY <1>9, <3>1
    <3> QED
      BY <3>1, <3>2 DEF NoGap, At
  <2> QED
    BY <2>2 DEF Paths, Slots
<1>11. Entries'
  <2>1. ASSUME NEW j \in Slots, deb_tbl'[j].key # NoKey
        PROVE  /\ granted'[deb_tbl'[j].key] \in 0..time
               /\ deb_tbl'[j].until_ms = EndOf(granted'[deb_tbl'[j].key])
    <3>1. CASE j = i
      BY <1>3, <1>4, <3>1 DEF Types
    <3>2. CASE j # i
      <4>1. /\ deb_tbl'[j] = deb_tbl[j] /\ deb_tbl[j].key \in Keys \ {key}
            /\ deb_tbl[j].key # NoKey
        BY <1>3, <1>6, <2>1, <3>2 DEF Types
      <4> QED
        BY <1>4, <4>1 DEF Entries
    <3> QED
      BY <3>1, <3>2
  <2> QED
    BY <1>1, <2>1 DEF Entries, Slots, EndOf
<1> QED
  BY <1>5, <1>7, <1>10, <1>11

(* What the decision records of a key that is allowed. *)
LEMMA AllowedInTime ==
  ASSUME TableInv, NEW key \in Keys, Decide(key, TRUE), NEW i \in Slots,
         Tracked(key) => /\ deb_tbl[i].key = key
                         /\ ~InWindow(deb_tbl[i].until_ms)
  PROVE  OncePerWindow'
<1>1. /\ decision'.tracked = Tracked(key)
      /\ decision'.since = IF granted[key] = Never
                           THEN MAX_TIME + DEB_WINDOW_MS
                           ELSE time - granted[key]
  BY DEF Decide
<1>2. ASSUME Tracked(key)
      PROVE  decision'.since >= DEB_WINDOW_MS
  <2>1. /\ granted[key] \in 0..time /\ time \in Nat
        /\ ~InWindow(EndOf(granted[key]))
    BY <1>2, DebouncerConstants DEF TableInv, Entries, Types
  <2>2. ~(time < granted[key] + DEB_WINDOW_MS)
    BY <2>1, SeenOpen
  <2>3. decision'.since = time - granted[key]
    BY <1>1, <2>1 DEF Never
  <2> QED
    BY <2>1, <2>2, <2>3, Numbers
<1> QED
  BY <1>1, <1>2 DEF OncePerWindow

(* One request keeps the table in order, and is allowed in time. *)
LEMMA KeyStep ==
  ASSUME TableInv, NEW key \in Keys, debouncer_allow_key(key)
  PROVE  TableInv' /\ OncePerWindow'
<1>1. CASE Reject(key)
  <2>1. UNCHANGED <<home, deb_tbl, deb_sweep, time, granted>>
        /\ decision'.allowed = FALSE
    BY <1>1 DEF Reject, Decide
  <2>2. OncePerWindow'
    BY <2>1 DEF OncePerWindow
  <2>3. TableInv'
    BY <2>1 DEF TableInv, Types, Paths, NoGap, At, Entries, EndOf,
                OneEntryPerKey, Slots
  <2> QED
    BY <2>2, <2>3
<1>2. CASE Allow(key)
  <2>1. PICK i : i = Probe(key)
    OBVIOUS
  <2>2. /\ i \in Slots /\ NoGap(i, key)
        /\ \/ deb_tbl[i].key = key
           \/ ~Tracked(key)
    BY <1>2, <2>1, ProbeEnds DEF Allow
  <2>3. /\ Put(i, key) /\ deb_sweep' = deb_sweep
        /\ ~(deb_tbl[i].key = key /\ InWindow(deb_tbl[i].until_ms))
    BY <1>2, <2>1 DEF Allow
  <2>4. TableInv'
    BY <2>2, <2>3, PutStep DEF TableInv, Types
  <2>5. OncePerWindow'
    BY <2>2, <2>3, AllowedInTime DEF Put
  <2> QED
    BY <2>4, <2>5
<1>3. CASE Evict(key)
  <2>1. PICK i \in Slots : i = deb_sweep
    BY DEF TableInv, Types
  <2>2. ~Tracked(key) /\ \A j \in Slots : deb_tbl[j].key # NoKey
    BY <1>3, ProbeEnds DEF Evict
  <2>3. NoGap(i, key)
    BY <2>2, Round DEF NoGap, TableInv
  <2>4. Put(i, key) /\ deb_sweep' = (i + 1) % DEB_CAP
    BY <1>3, <2>1 DEF Evict
  <2>5. deb_sweep' \in Slots
    BY <2>4, Numbers DEF Slots
  <2>6. TableInv'
    BY <2>2, <2>3, <2>4, <2>5, PutStep
  <2>7. OncePerWindow'
    BY <2>2, <2>4, AllowedInTime DEF Put
  <2> QED
    BY <2>6, <2>7
<1> QED
  BY <1>1, <1>2, <1>3 DEF debouncer_allow_key

(* Time goes on, and an unknown address leaves nothing behind. *)
LEMMA TimeStep ==
  ASSUME TableInv, OncePerWindow, Tick \/ UNCHANGED vars
  PROVE  TableInv' /\ OncePerWindow'
<1>1. /\ UNCHANGED <<home, deb_tbl, deb_sweep, granted, decision>>
      /\ time' \in 0..MAX_TIME /\ time <= time' /\ time \in Nat
  BY Numbers DEF Tick, vars, TableInv, Types
<1>2. Entries'
  <2>1. ASSUME NEW i \in Slots, deb_tbl[i].key # NoKey
        PROVE  granted[deb_tbl[i].key] \in 0..time'
    <3>1. granted[deb_tbl[i].key] \in 0..time
      BY <2>1 DEF TableInv, Entries
    <3> QED
      BY <1>1, <3>1
  <2> QED
    BY <1>1, <2>1 DEF TableInv, Entries, EndOf, Slots
<1>3. Types' /\ Paths' /\ OneEntryPerKey'
  BY <1>1 DEF TableInv, Types, Paths, NoGap, At, OneEntryPerKey, Slots
<1>4. OncePerWindow'
  BY <1>1 DEF OncePerWindow
<1> QED
  BY <1>2, <1>3, <1>4 DEF TableInv

(* The table stays in order and every decision is in time. *)
THEOREM LimiterInv == Spec => [](TableInv /\ OncePerWindow)
<1>1. Init => TableInv /\ OncePerWindow
  <2> SUFFICES ASSUME Init PROVE TableInv /\ OncePerWindow
    OBVIOUS
  <2>1. 0 \in Slots /\ 0 \in 0..(CLOCK - 1) /\ 0 \in 0..MAX_TIME
    BY Numbers DEF Slots
  <2>2. Types
    BY <2>1 DEF Init, Types
  <2>3. \A i \in Slots : deb_tbl[i].key = NoKey
    BY DEF Init
  <2>4. Paths /\ Entries /\ OneEntryPerKey
    BY <2>3 DEF Paths, Entries, OneEntryPerKey
  <2>5. OncePerWindow
    BY DEF Init, OncePerWindow
  <2> QED
    BY <2>2, <2>4, <2>5 DEF TableInv
<1>2. TableInv /\ OncePerWindow /\ [Next]_vars => (TableInv /\ OncePerWindow)'
  BY KeyStep, TimeStep DEF Next, AllowUnknown
<1> QED
  BY <1>1, <1>2, PTL DEF Spec

(* A key whose entry was not evicted is never allowed twice in one window,  *)
(* wherever the clock stands or has wrapped.                                *)
THEOREM WindowCorrect == Spec => []OncePerWindow
BY LimiterInv, PTL

(* No address has two entries, whatever collides and is evicted.            *)
THEOREM OneEntryCorrect == Spec => []OneEntryPerKey
<1>1. TableInv => OneEntryPerKey
  BY DEF TableInv
<1> QED
  BY <1>1, LimiterInv, PTL
=============================================================================
