---------------------------- MODULE HTableProofs ----------------------------
(***************************************************************************)
(* Proofs about the hash table, for every size of the table, every set of  *)
(* keys and every hash function.                                           *)
(***************************************************************************)
EXTENDS HTable, FiniteSetTheorems, WellFoundedInduction, TLAPS

Erasing == call.op # "none"

(* A key is in one slot, and its block is with it. *)
Distinct ==
  \A i, j \in Slots : blob_ids[i] = blob_ids[j] /\ blob_ids[i] # NullKey
                        => i = j
RowsWhole ==
  \A i \in Slots :
    /\ blob_ids[i] # NullKey => blob_data[i] = blob_ids[i]
    /\ blob_ids[i] = NullKey <=> blob_valid_until[i] = VALID_UNTIL_EMPTY

(* No probe path has a gap. *)
Paths ==
  \A i \in Held, j \in Slots : OnPath(j, i) => blob_ids[j] # NullKey

(***************************************************************************)
(* Somewhere the table is cut: one slot is on no probe path, even when the *)
(* table is full, for the key that filled it found its slot empty.  The    *)
(* loop of lp_erase, which does not pass its start a second time, relies   *)
(* on it: without the cut a row moved early could have a slot on its path  *)
(* that becomes the hole later.  It is never behind the hole.              *)
(***************************************************************************)
Cut(c) ==
  /\ \A i \in Held : ~OnPath(c, i)
  /\ Erasing => Dist(call.start, c) >= Dist(call.start, call.hole)

(* Where the loop is. *)
Loop ==
  Erasing =>
    /\ call.id \in Ids /\ blob_ids[call.hole] = call.id /\ call.ret = call.id
    /\ Dist(call.start, call.hole) <= Dist(call.start, call.next)
    /\ \A i \in Held :
         OnPath(call.hole, i) =>
           Dist(call.start, i) > Dist(call.start, call.next)

(* What the reaper has gathered is there until its turn comes. *)
Gathered ==
  /\ \A n \in 1..Len(blob_ids_invalid) : \E i \in Slots :
       blob_ids[i] = blob_ids_invalid[n] /\ Published(i)
  /\ \A m, n \in 1..Len(blob_ids_invalid) :
       blob_ids_invalid[m] = blob_ids_invalid[n] => m = n
  /\ Erasing => \/ blob_ids_invalid = <<>> /\ call.op # "reap"
                \/ /\ blob_ids_invalid # <<>> /\ call.op = "reap"
                   /\ call.id = Head(blob_ids_invalid)

Counted == htable_free = Cardinality({i \in Slots : blob_ids[i] = NullKey})

TableInv ==
  /\ TypeOK /\ Distinct /\ RowsWhole /\ Paths /\ Loop /\ Gathered /\ Counted
  /\ \E c \in Slots : Cut(c)

-----------------------------------------------------------------------------
(***************************************************************************)
(* Probing                                                                 *)
(***************************************************************************)
(* Every set of numbers that is not empty has a least one. *)
LEMMA Least ==
  ASSUME NEW S, S \subseteq Nat, S # {}
  PROVE  \E n \in S : \A m \in S : n <= m
<1> DEFINE R == OpToRel(<, Nat)
<1>1. IsWellFoundedOn(R, Nat)
  BY NatLessThanWellFounded
<1>2. PICK x \in S : \A y \in S : ~(<<y, x>> \in R)
  <2> HIDE DEF R
  <2> QED
    BY <1>1, WFMin
<1>3. \A y \in S : ~(y < x)
  BY <1>2 DEF OpToRel
<1> QED
  BY <1>3

(* The size of the table is a number; its slots are below it. *)
LEMMA SizeNat ==
  /\ htable_size \in Nat /\ htable_size > 0
  /\ Slots \subseteq Nat /\ htable_size \notin Slots
BY HTableConstants DEF Slots

(* First is the least of a set of distances. *)
LEMMA FirstOf ==
  ASSUME NEW S, S \subseteq Slots
  PROVE  /\ S # {} => First(S) \in S /\ \A m \in S : First(S) <= m
         /\ \A n \in S : (\A m \in S : n <= m) => First(S) = n
<1>1. S \subseteq Nat
  BY SizeNat DEF Slots
<1>2. S # {} => First(S) \in S /\ \A m \in S : First(S) <= m
  BY <1>1, Least DEF First
<1>3. ASSUME NEW n \in S, \A m \in S : n <= m
      PROVE  First(S) = n
  <2>1. First(S) <= n /\ n <= First(S) /\ First(S) \in Nat
    BY <1>1, <1>2, <1>3
  <2> QED
    BY <1>1, <2>1
<1> QED
  BY <1>2, <1>3

(* Going round: a slot and its distance from a home determine each other. *)
LEMMA Round ==
  ASSUME NEW h \in Slots, NEW i \in Slots
  PROVE  /\ Step(h, i) \in Slots /\ Dist(h, i) \in Slots
         /\ Step(h, Dist(h, i)) = i /\ Dist(h, Step(h, i)) = i
BY SizeNat DEF Slots, Step, Dist

(* Between calls a key is looked up where it is, and a key that is not      *)
(* there is not found.                                                      *)
LEMMA Lookup ==
  ASSUME TypeOK, Distinct, Paths, ~Erasing, NEW id \in Ids
  PROVE  /\ \A i \in Slots : blob_ids[i] = id => lp_lookup(id) = i
         /\ Found(id) => /\ lp_lookup(id) \in Slots
                         /\ blob_ids[lp_lookup(id)] = id
<1> DEFINE stops == Stops(id, {NullKey, id})
<1>1. /\ home[id] \in Slots /\ id # NullKey
      /\ stops \subseteq Slots
      /\ htable_size \notin Slots
  <2>1. id # NullKey
    BY HTableConstants
  <2> QED
    BY <2>1, SizeNat DEF TypeOK, Stops
<1>2. ASSUME NEW i \in Slots, blob_ids[i] = id
      PROVE  lp_lookup(id) = i
  <2>1. i \in Held
    BY <1>1, <1>2 DEF Held, Erasing
  <2>2. Dist(home[id], i) \in stops
    BY <1>1, <1>2, Round DEF Stops
  <2>3. ASSUME NEW m \in stops
        PROVE  Dist(home[id], i) <= m
    <3>1. m \in Slots /\ Step(home[id], m) \in Slots
          /\ Dist(home[id], Step(home[id], m)) = m
      BY <1>1, Round
    <3>2. CASE blob_ids[Step(home[id], m)] = NullKey
      <4>1. ~OnPath(Step(home[id], m), i)
        BY <2>1, <3>1, <3>2 DEF Paths
      <4>2. ~(m < Dist(home[id], i))
        BY <1>2, <3>1, <4>1 DEF OnPath
      <4>3. Dist(home[id], i) \in Nat /\ m \in Nat
        BY <1>1, <3>1, Round, SizeNat
      <4> QED
        BY <4>2, <4>3
    <3>3. CASE blob_ids[Step(home[id], m)] = id
      <4>1. Step(home[id], m) = i
        BY <1>1, <1>2, <3>1, <3>3 DEF Distinct
      <4> QED
        BY <3>1, <4>1, SizeNat DEF Slots
    <3> QED
      BY <2>3, <3>2, <3>3 DEF Stops
  <2>4. First(stops) = Dist(home[id], i)
    BY <1>1, <2>2, <2>3, FirstOf
  <2> HIDE DEF stops
  <2>5. Step(home[id], First(stops)) = i /\ stops # {}
    BY <1>1, <2>2, <2>4, Round
  <2> QED
    BY <1>1, <1>2, <2>5 DEF lp_lookup, stops
<1>3. ASSUME Found(id)
      PROVE  lp_lookup(id) \in Slots /\ blob_ids[lp_lookup(id)] = id
  <2> DEFINE i == Step(home[id], First(stops))
  <2>1. stops # {} /\ blob_ids[i] # NullKey /\ lp_lookup(id) = i
    BY <1>3 DEF Found, lp_lookup
  <2>2. First(stops) \in stops
    BY <1>1, <2>1, FirstOf
  <2>3. i \in Slots
    BY <1>1, <2>2, Round
  <2>4. blob_ids[i] \in {NullKey, id}
    BY <2>2 DEF Stops
  <2> QED
    BY <2>1, <2>3, <2>4
<1> QED
  BY <1>2, <1>3

(* A slot for a new key is empty, and the slots probed before it are not. *)
LEMMA FreeSlot ==
  ASSUME TypeOK, NEW id \in Ids, NEW e \in Slots, blob_ids[e] = NullKey
  PROVE  LET i == lp_find_free_slot(id)
         IN  /\ i \in Slots /\ blob_ids[i] = NullKey
             /\ \A j \in Slots :
                  Dist(home[id], j) < Dist(home[id], i)
                    => blob_ids[j] # NullKey
<1> DEFINE stops == Stops(id, {NullKey})
           i == lp_find_free_slot(id)
<1>1. home[id] \in Slots /\ stops \subseteq Slots
  BY DEF TypeOK, Stops
<1>2. \A j \in Slots : blob_ids[j] = NullKey => Dist(home[id], j) \in stops
  BY <1>1, Round DEF Stops
<1>3. First(stops) \in stops /\ \A m \in stops : First(stops) <= m
  BY <1>1, <1>2, FirstOf
<1>4. /\ i \in Slots /\ blob_ids[i] = NullKey
      /\ Dist(home[id], i) = First(stops)
  BY <1>1, <1>3, Round DEF Stops, lp_find_free_slot
<1>5. ASSUME NEW j \in Slots, Dist(home[id], j) < Dist(home[id], i)
      PROVE  blob_ids[j] # NullKey
  <2>1. Dist(home[id], j) \in Nat /\ First(stops) \in Nat
    BY <1>1, <1>3, Round, SizeNat
  <2>2. Dist(home[id], j) \notin stops
    <3> HIDE DEF stops, i
    <3> QED
      BY <1>3, <1>4, <1>5, <2>1
  <2> QED
    BY <1>2, <2>2
<1> QED
  BY <1>4, <1>5

(***************************************************************************)
(* Four facts about going round, for the loop of lp_erase that began at s, *)
(* has its hole at h, has come to n and looks at x.                        *)
(***************************************************************************)
LEMMA LoopAdvances ==
  ASSUME NEW s \in Slots, NEW n \in Slots, NEW x, x = Step(n, 1)
  PROVE  /\ x \in Slots
         /\ x # s => Dist(s, x) = Dist(s, n) + 1
         /\ x = s => \A i \in Slots : Dist(s, i) <= Dist(s, n)
BY SizeNat DEF Slots, Step, Dist

(* A probe from d that goes through the hole to a row beyond goes through   *)
(* x, or ends there.                                                        *)
LEMMA ThroughNext ==
  ASSUME NEW s \in Slots, NEW h \in Slots, NEW n \in Slots, NEW x \in Slots,
         NEW d \in Slots, NEW i \in Slots, x = Step(n, 1),
         Dist(s, h) <= Dist(s, n), Dist(s, n) < Dist(s, i),
         Dist(d, h) < Dist(d, i)
  PROVE  i = x \/ Dist(d, x) < Dist(d, i)
BY SizeNat DEF Slots, Step, Dist

(* When the row in x, whose home is k, moves back, the cut c is not between *)
(* the hole and x ...                                                       *)
LEMMA CutBeyond ==
  ASSUME NEW s \in Slots, NEW h \in Slots, NEW n \in Slots, NEW x \in Slots,
         NEW k \in Slots, NEW c \in Slots, x = Step(n, 1), x # s,
         Dist(s, h) <= Dist(s, n), Dist(s, c) >= Dist(s, h),
         Dist(k, h) < Dist(k, x), ~(Dist(k, c) < Dist(k, x))
  PROVE  Dist(s, c) >= Dist(s, x)
BY SizeNat DEF Slots, Step, Dist

(* ... so that no row passed before, with home d, has x on its path. *)
LEMMA NotStranded ==
  ASSUME NEW s \in Slots, NEW h \in Slots, NEW n \in Slots, NEW x \in Slots,
         NEW k \in Slots, NEW c \in Slots, x = Step(n, 1), x # s,
         Dist(s, h) <= Dist(s, n), Dist(s, c) >= Dist(s, h),
         Dist(k, h) < Dist(k, x), ~(Dist(k, c) < Dist(k, x)),
         NEW d \in Slots, NEW i \in Slots, i # h,
         Dist(s, i) <= Dist(s, n),
         ~(Dist(d, h) < Dist(d, i)), ~(Dist(d, c) < Dist(d, i))
  PROVE  ~(Dist(d, x) < Dist(d, i))
BY SizeNat DEF Slots, Step, Dist

-----------------------------------------------------------------------------
(***************************************************************************)
(* One iteration of the loop of lp_erase                                   *)
(***************************************************************************)
(* Where it is: the slot looked at holds a row, is not where the loop       *)
(* began and lies beyond the hole.                                          *)
LEMMA LooksAt ==
  ASSUME TableInv, lp_erase_step
  PROVE  /\ call.start \in Slots /\ call.hole \in Slots /\ call.next \in Slots
         /\ NextSlot \in Slots /\ NextSlot # call.start
         /\ NextSlot # call.hole
         /\ blob_ids[NextSlot] \in Ids /\ blob_ids[call.hole] \in Ids
         /\ NullKey \notin Ids
         /\ NextSlot \in Held
<1>1. /\ call.start \in Slots /\ call.hole \in Slots /\ call.next \in Slots
      /\ NextSlot \in Slots
  BY LoopAdvances DEF TableInv, TypeOK, NextSlot
<1>2. /\ NextSlot # call.start /\ blob_ids[NextSlot] # NullKey
      /\ Dist(call.start, call.hole) <= Dist(call.start, call.next)
      /\ blob_ids[call.hole] \in Ids
  BY DEF TableInv, Loop, Erasing, lp_erase_step, EraseEnds
<1>3. NextSlot # call.hole
  <2>1. Dist(call.start, NextSlot) = Dist(call.start, call.next) + 1
    BY <1>1, <1>2, LoopAdvances DEF NextSlot
  <2>2. Dist(call.start, call.next) \in Nat
    BY <1>1, Round, SizeNat
  <2> QED
    BY <1>2, <2>1, <2>2
<1>4. blob_ids[NextSlot] \in Ids
  BY <1>1, <1>2 DEF TableInv, TypeOK
<1>5. NextSlot \in Held
  BY <1>1, <1>2, <1>3 DEF Held
<1> QED
  BY <1>1, <1>2, <1>3, <1>4, <1>5, HTableConstants

(* What it does to the call. *)
LEMMA LoopCall ==
  ASSUME TableInv, lp_erase_step
  PROVE  /\ call' \in [op : {"none", "get", "abort", "reap"},
                       id : Ids \cup {NullKey}, ret : Ids \cup {NullBlk},
                       start : Slots, hole : Slots, next : Slots]
         /\ call'.op = call.op /\ call'.id = call.id /\ call'.ret = call.ret
         /\ call'.start = call.start /\ call'.next = NextSlot
         /\ MovesBack(NextSlot) => call'.hole = NextSlot
         /\ ~MovesBack(NextSlot) => call'.hole = call.hole
         /\ Erasing /\ Erasing'
<1>1. NextSlot \in Slots
  BY LooksAt
<1> QED
  BY <1>1 DEF lp_erase_step, TableInv, TypeOK, Erasing

(* A row that may not move: the loop goes on. *)
LEMMA SkipStep ==
  ASSUME TableInv, lp_erase_step, ~MovesBack(NextSlot)
  PROVE  TableInv'
<1> USE DEF TableInv
<1>1. /\ UNCHANGED <<home, blob_ids, blob_data, blob_valid_until>>
      /\ UNCHANGED <<htable_free, blob_ids_invalid, now>>
  BY DEF lp_erase_step, rowVars
<1>2. /\ call'.op = call.op /\ call'.id = call.id /\ call'.ret = call.ret
      /\ call'.start = call.start /\ call'.next = NextSlot
      /\ call'.hole = call.hole
      /\ Erasing /\ Erasing'
  BY LoopCall
<1>3. Held' = Held /\ \A i, j \in Slots : OnPath(i, j)' = OnPath(i, j)
  BY <1>1, <1>2 DEF Held, OnPath, Dist, Slots
<1>4. TypeOK'
  BY <1>1, LoopCall DEF TypeOK
<1>5. Distinct' /\ RowsWhole' /\ Counted'
  BY <1>1 DEF Distinct, RowsWhole, Counted, VALID_UNTIL_EMPTY
<1>6. Held \subseteq Slots
  BY DEF Held
<1>7. Paths'
  BY <1>1, <1>3, <1>6 DEF Paths
<1>8. Gathered'
  BY <1>1, <1>2 DEF Gathered, Published, VALID_UNTIL_NOT_PUBLISHED,
                    VALID_UNTIL_EMPTY, Erasing
<1>9. Loop'
  <2>1. Dist(call.start, NextSlot) = Dist(call.start, call.next) + 1
    BY LooksAt, LoopAdvances DEF NextSlot
  <2>2. /\ Dist(call.start, call.next) \in Nat
        /\ Dist(call.start, call.hole) \in Nat
        /\ \A i \in Slots : Dist(call.start, i) \in Nat
    BY LooksAt, Round, SizeNat
  <2>3. ASSUME NEW i \in Held, OnPath(call.hole, i)
        PROVE  Dist(call.start, i) > Dist(call.start, NextSlot)
    <3>1. Dist(call.start, i) > Dist(call.start, call.next)
      BY <1>2, <2>3 DEF Loop
    <3>2. i # NextSlot
      BY <2>3 DEF MovesBack, OnPath
    <3>3. Dist(call.start, i) # Dist(call.start, NextSlot)
      BY <1>6, <3>2, LooksAt, Round
    <3> QED
      BY <1>6, <2>1, <2>2, <3>1, <3>3
  <2>4. Dist(call.start, call.hole) <= Dist(call.start, NextSlot)
    BY <1>2, <2>1, <2>2 DEF Loop
  <2>5. \A i \in Held : OnPath(call.hole, i)' = OnPath(call.hole, i)
    BY <1>1, <1>2 DEF OnPath, Dist
  <2>6. \A i \in Slots : Dist(call.start, i)' = Dist(call.start, i)
    BY <1>2 DEF Dist
  <2>7. Dist(call.start, call.hole)' = Dist(call.start, call.hole)
    BY <1>2 DEF Dist
  <2>8. Dist(call.start, call.next)' = Dist(call.start, NextSlot)
    BY <1>2 DEF Dist
  <2> QED
    BY <1>1, <1>2, <1>3, <1>6, <2>3, <2>4, <2>5, <2>6, <2>7, <2>8 DEF Loop
<1>10. ASSUME NEW c \in Slots, Cut(c)
       PROVE  Cut(c)'
  <2>1. Dist(call'.start, c) >= Dist(call'.start, call'.hole)
    BY <1>2, <1>10 DEF Cut
  <2> QED
    BY <1>3, <1>6, <1>10, <2>1 DEF Cut, Dist
<1>11. \E c \in Slots : Cut(c)'
  BY <1>10
<1>12. (\E c \in Slots : Cut(c))'
  BY <1>11 DEF Slots
<1> QED
  BY <1>4, <1>5, <1>7, <1>8, <1>9, <1>12

(* A row that moves back changes places with the one under removal. *)
LEMMA Swapped ==
  ASSUME TableInv, lp_erase_step, MovesBack(NextSlot)
  PROVE  LET h == call.hole
             x == NextSlot
         IN  /\ \A i \in Slots \ {h, x} :
                  /\ blob_ids'[i] = blob_ids[i]
                  /\ blob_data'[i] = blob_data[i]
                  /\ blob_valid_until'[i] = blob_valid_until[i]
             /\ blob_ids'[h] = blob_ids[x] /\ blob_ids'[x] = blob_ids[h]
             /\ blob_data'[h] = blob_data[x] /\ blob_data'[x] = blob_data[h]
             /\ blob_valid_until'[h] = blob_valid_until[x]
             /\ blob_valid_until'[x] = blob_valid_until[h]
             /\ blob_ids' \in [Slots -> Ids \cup {NullKey}]
             /\ blob_data' \in [Slots -> Ids \cup {NullBlk}]
             /\ blob_valid_until' \in [Slots -> 0..UINT32_MAX]
             /\ UNCHANGED <<home, htable_free, blob_ids_invalid, now>>
<1>1. htable_swap(call.hole, NextSlot)
  BY DEF lp_erase_step
<1>2. UNCHANGED <<home, htable_free, blob_ids_invalid, now>>
  BY DEF lp_erase_step
<1>3. call.hole \in Slots /\ NextSlot \in Slots /\ NextSlot # call.hole
  BY LooksAt
<1> HIDE DEF NextSlot
<1> QED
  BY <1>1, <1>2, <1>3 DEF htable_swap, TableInv, TypeOK

(* The loop of lp_erase moves a key into the hole, and the hole on. *)
LEMMA MoveStep ==
  ASSUME TableInv, lp_erase_step, MovesBack(NextSlot)
  PROVE  TableInv'
<1> USE DEF TableInv
<1>0. PICK s, h, n, x, k : /\ s = call.start /\ h = call.hole
                           /\ n = call.next /\ x = NextSlot
                           /\ k = home[blob_ids[x]]
  OBVIOUS
<1>1. /\ s \in Slots /\ h \in Slots /\ n \in Slots /\ x \in Slots
      /\ x # s /\ x # h /\ x \in Held
      /\ blob_ids[x] \in Ids /\ blob_ids[h] \in Ids /\ NullKey \notin Ids
      /\ k \in Slots
  BY <1>0, LooksAt DEF TypeOK
<1>2. /\ call'.op = call.op /\ call'.id = call.id /\ call'.ret = call.ret
      /\ call'.start = s /\ call'.next = x /\ call'.hole = x
      /\ Erasing /\ Erasing'
  BY <1>0, LoopCall
<1>3. /\ \A i \in Slots \ {h, x} :
           /\ blob_ids'[i] = blob_ids[i]
           /\ blob_data'[i] = blob_data[i]
           /\ blob_valid_until'[i] = blob_valid_until[i]
      /\ blob_ids'[h] = blob_ids[x] /\ blob_ids'[x] = blob_ids[h]
      /\ blob_data'[h] = blob_data[x] /\ blob_data'[x] = blob_data[h]
      /\ blob_valid_until'[h] = blob_valid_until[x]
      /\ blob_valid_until'[x] = blob_valid_until[h]
      /\ UNCHANGED <<home, htable_free, blob_ids_invalid, now>>
  BY <1>0, Swapped
<1>4. TypeOK'
  BY LoopCall, Swapped DEF TypeOK
<1>5. Distinct'
  BY <1>1, <1>3 DEF Distinct
<1>6. RowsWhole'
  BY <1>1, <1>3 DEF RowsWhole, VALID_UNTIL_EMPTY
<1>7. \A j \in Slots : blob_ids'[j] = NullKey <=> blob_ids[j] = NullKey
  BY <1>1, <1>3
<1>8. Counted'
  <2>1. {i \in Slots : blob_ids'[i] = NullKey}
          = {i \in Slots : blob_ids[i] = NullKey}
    BY <1>7
  <2> QED
    BY <1>3, <2>1 DEF Counted, Slots
<1>9. Gathered'
  <2>1. ASSUME NEW m \in 1..Len(blob_ids_invalid)
        PROVE  \E i \in Slots : /\ blob_ids'[i] = blob_ids_invalid[m]
                                /\ Published(i)'
    <3>1. PICK i \in Slots : blob_ids[i] = blob_ids_invalid[m] /\ Published(i)
      BY <2>1 DEF Gathered
    <3> QED
      BY <1>1, <1>3, <3>1 DEF Published, VALID_UNTIL_NOT_PUBLISHED,
                              VALID_UNTIL_EMPTY
  <2> QED
    BY <1>2, <1>3, <2>1 DEF Gathered, Erasing
<1>10. /\ Dist(k, h) < Dist(k, x)
       /\ Dist(s, h) <= Dist(s, n)
       /\ Dist(s, x) = Dist(s, n) + 1
       /\ \A i, j \in Slots : Dist(i, j) \in Nat
  <2>1. Dist(k, h) < Dist(k, x) /\ Dist(s, h) <= Dist(s, n)
    BY <1>0, <1>2 DEF MovesBack, Loop
  <2>2. Dist(s, x) = Dist(s, n) + 1
    BY <1>0, <1>1, LoopAdvances DEF NextSlot
  <2> QED
    BY <2>1, <2>2, Round, SizeNat
<1>11. \A i \in Held' : \/ i = h
                        \/ /\ i \in Held /\ i # h /\ i # x
                           /\ blob_ids'[i] = blob_ids[i]
                           /\ home[blob_ids[i]] \in Slots
  BY <1>0, <1>1, <1>2, <1>3 DEF Held, Erasing, TypeOK
<1>12. PICK c \in Slots : Cut(c)
  OBVIOUS
<1>13. /\ Dist(s, c) >= Dist(s, h) /\ ~(Dist(k, c) < Dist(k, x))
       /\ x = Step(n, 1)
  BY <1>0, <1>1, <1>2, <1>12 DEF Cut, OnPath, NextSlot
<1>14. \A i \in Slots, j \in Slots : OnPath(j, i)' <=>
         Dist(home[blob_ids'[i]], j) < Dist(home[blob_ids'[i]], i)
  BY <1>3 DEF OnPath, Dist
<1>15. Held' \subseteq Slots /\ Held \subseteq Slots
  BY DEF Held, Slots
<1>16. Paths'
  <2>1. ASSUME NEW i \in Held', NEW j \in Slots, OnPath(j, i)'
        PROVE  blob_ids'[j] # NullKey
    <3>1. CASE i = h
      <4>1. Dist(k, j) < Dist(k, h)
        BY <1>0, <1>1, <1>3, <1>14, <2>1, <3>1
      <4>2. Dist(k, j) < Dist(k, x)
        BY <1>1, <1>10, <4>1
      <4>3. blob_ids[j] # NullKey
        BY <1>0, <1>1, <4>2 DEF Paths, OnPath
      <4> QED
        BY <1>7, <4>3
    <3>2. CASE i # h
      <4>1. OnPath(j, i) /\ i \in Held
        BY <1>11, <1>14, <1>15, <2>1, <3>2 DEF OnPath
      <4> QED
        BY <1>7, <4>1 DEF Paths
    <3> QED
      BY <3>1, <3>2
  <2> QED
    BY <2>1 DEF Paths, Slots
<1>17. Loop'
  <2>1. ASSUME NEW i \in Held', OnPath(x, i)'
        PROVE  Dist(s, i) > Dist(s, x)
    <3>1. i # h
      BY <1>0, <1>1, <1>3, <1>10, <1>14, <2>1
    <3>2. /\ i \in Held /\ i \in Slots /\ i # x /\ home[blob_ids[i]] \in Slots
          /\ Dist(home[blob_ids[i]], x) < Dist(home[blob_ids[i]], i)
      BY <1>1, <1>11, <1>14, <1>15, <2>1, <3>1
    <3>3. ~(Dist(home[blob_ids[i]], c) < Dist(home[blob_ids[i]], i))
      BY <1>12, <3>2 DEF Cut, OnPath
    <3>4. CASE ~(Dist(s, i) <= Dist(s, n))
      <4>1. Step(s, Dist(s, i)) = i /\ Step(s, Dist(s, x)) = x
        BY <1>1, <3>2, Round
      <4> QED
        BY <1>1, <1>10, <3>2, <3>4, <4>1
    <3>5. CASE Dist(s, i) <= Dist(s, n)
      <4>1. ~(Dist(s, i) > Dist(s, n))
        BY <1>1, <1>10, <3>2, <3>5
      <4>2. ~(Dist(home[blob_ids[i]], h) < Dist(home[blob_ids[i]], i))
        BY <1>0, <1>2, <3>2, <4>1 DEF Loop, OnPath
      <4>3. PICK d \in Slots : d = home[blob_ids[i]]
        BY <3>2
      <4>4. ~(Dist(d, h) < Dist(d, i)) /\ ~(Dist(d, c) < Dist(d, i))
        BY <3>3, <4>2, <4>3
      <4>5. ~(Dist(d, x) < Dist(d, i))
        BY <1>1, <1>10, <1>12, <1>13, <3>1, <3>2, <3>5, <4>4, NotStranded
      <4> QED
        BY <3>2, <4>3, <4>5
    <3> QED
      BY <3>4, <3>5
  <2>2. blob_ids'[x] = call.id /\ call.id \in Ids /\ call.ret = call.id
    BY <1>0, <1>2, <1>3 DEF Loop
  <2>3. \A i \in Slots : Dist(call.start, i)' = Dist(s, i)
    BY <1>2 DEF Dist
  <2>4. \A i \in Held' : OnPath(call.hole, i)' = OnPath(x, i)'
    BY <1>2 DEF OnPath
  <2>5. /\ Dist(call.start, call.hole)' = Dist(s, x)
        /\ Dist(call.start, call.next)' = Dist(s, x)
        /\ Dist(s, x) \in Nat
    BY <1>1, <1>2, <1>10 DEF Dist
  <2>6. Dist(s, x) <= Dist(s, x)
    BY <2>5
  <2> QED
    BY <1>2, <1>15, <2>1, <2>2, <2>3, <2>4, <2>5, <2>6 DEF Loop
<1>18. Cut(c)'
  <2>1. Dist(s, c) >= Dist(s, x)
    BY <1>1, <1>10, <1>13, CutBeyond
  <2>2. ASSUME NEW i \in Held'
        PROVE  ~OnPath(c, i)'
    <3>1. CASE i = h
      BY <1>0, <1>1, <1>3, <1>10, <1>13, <1>14, <3>1
    <3>2. CASE i # h
      BY <1>11, <1>12, <1>14, <1>15, <2>2, <3>2 DEF Cut, OnPath
    <3> QED
      BY <3>1, <3>2
  <2>3. Dist(call.start, c)' = Dist(s, c)
    BY <1>2 DEF Dist
  <2>4. Dist(call.start, call.hole)' = Dist(s, x)
    BY <1>2 DEF Dist
  <2> QED
    BY <2>1, <2>2, <2>3, <2>4 DEF Cut
<1>19. (\E e \in Slots : Cut(e))'
  BY <1>18 DEF Slots
<1> QED
  BY <1>4, <1>5, <1>6, <1>8, <1>9, <1>16, <1>17, <1>19

-----------------------------------------------------------------------------
(***************************************************************************)
(* The other steps                                                         *)
(***************************************************************************)
(* Times and the two sentinels, VALID_UNTIL_EMPTY and _NOT_PUBLISHED. *)
LEMMA Sentinels ==
  /\ VALID_UNTIL_EMPTY \in 0..UINT32_MAX
  /\ VALID_UNTIL_NOT_PUBLISHED \in 0..UINT32_MAX
  /\ VALID_UNTIL_NOT_PUBLISHED # VALID_UNTIL_EMPTY
  /\ \A t \in 0..MAX_NOW :
       /\ t + BLOB_TTL_S \in 0..UINT32_MAX
       /\ t + BLOB_TTL_S # VALID_UNTIL_EMPTY
       /\ t + BLOB_TTL_S # VALID_UNTIL_NOT_PUBLISHED
       /\ t < VALID_UNTIL_NOT_PUBLISHED /\ t < VALID_UNTIL_EMPTY
<1>1. /\ UINT32_MAX \in Nat /\ MAX_NOW \in Nat /\ BLOB_TTL_S \in Nat
      /\ MAX_NOW + BLOB_TTL_S < UINT32_MAX - 1
  BY HTableConstants
<1> QED
  BY <1>1 DEF VALID_UNTIL_EMPTY, VALID_UNTIL_NOT_PUBLISHED

(* The counter of free slots, when one slot is filled or emptied. *)
LEMMA CountStep ==
  ASSUME TypeOK, Counted, NEW e \in Slots,
         blob_ids' \in [Slots -> Ids \cup {NullKey}],
         \A i \in Slots \ {e} : blob_ids'[i] = blob_ids[i]
  PROVE  /\ blob_ids[e] # NullKey /\ blob_ids'[e] = NullKey
              /\ htable_free' = htable_free + 1
            => Counted' /\ htable_free' \in 0..htable_size
         /\ blob_ids[e] = NullKey /\ blob_ids'[e] # NullKey
              /\ htable_free' = htable_free - 1
            => Counted' /\ htable_free' \in 0..htable_size
<1> DEFINE Empty == {i \in Slots : blob_ids[i] = NullKey}
           After == {i \in Slots : blob_ids'[i] = NullKey}
<1>1. IsFiniteSet(Slots) /\ Cardinality(Slots) = htable_size
  BY SizeNat, FS_Interval DEF Slots
<1>2. /\ IsFiniteSet(Empty) /\ Cardinality(Empty) \in Nat
      /\ IsFiniteSet(After) /\ Cardinality(After) \in Nat
      /\ Cardinality(After) <= htable_size
  <2>1. Empty \subseteq Slots /\ After \subseteq Slots
    OBVIOUS
  <2> HIDE DEF Empty, After
  <2> QED
    BY <1>1, <2>1, FS_Subset, FS_CardinalityType
<1>3. ASSUME blob_ids[e] # NullKey, blob_ids'[e] = NullKey
      PROVE  Cardinality(After) = Cardinality(Empty) + 1
  <2>1. After = Empty \cup {e} /\ e \notin Empty
    BY <1>3
  <2> HIDE DEF Empty, After
  <2> QED
    BY <1>2, <2>1, FS_AddElement
<1>4. ASSUME blob_ids[e] = NullKey, blob_ids'[e] # NullKey
      PROVE  Cardinality(After) = Cardinality(Empty) - 1
  <2>1. After = Empty \ {e} /\ e \in Empty
    BY <1>4
  <2> HIDE DEF Empty, After
  <2> QED
    BY <1>2, <2>1, FS_RemoveElement
<1>5. htable_free = Cardinality(Empty)
  BY DEF Counted
<1>6. htable_free' = Cardinality(After) => Counted'
  BY DEF Counted, Slots
<1> HIDE DEF Empty, After
<1> QED
  BY <1>2, <1>3, <1>4, <1>5, <1>6, SizeNat

(* The end of a removal: the hole is on nobody's path. *)
LEMMA HoleFree ==
  ASSUME TableInv, lp_erase_end
  PROVE  \A i \in Held : ~OnPath(call.hole, i)
<1> USE DEF TableInv
<1> SUFFICES ASSUME NEW i \in Held, OnPath(call.hole, i)
             PROVE  FALSE
  OBVIOUS
<1>1. Erasing /\ EraseEnds
  BY DEF lp_erase_end, Erasing
<1>2. PICK s, h, n, x, d : /\ s = call.start /\ h = call.hole
                           /\ n = call.next /\ x = NextSlot
                           /\ d = home[blob_ids[i]]
  OBVIOUS
<1>3. /\ s \in Slots /\ h \in Slots /\ n \in Slots
      /\ x \in Slots /\ i \in Slots /\ d \in Slots /\ x = Step(n, 1)
      /\ blob_ids[i] # NullKey
  BY <1>2, LoopAdvances DEF TypeOK, NextSlot, Held
<1>4. /\ Dist(s, h) <= Dist(s, n) /\ Dist(s, i) > Dist(s, n)
      /\ Dist(d, h) < Dist(d, i)
      /\ \A j \in Slots : Dist(s, j) \in Nat
  BY <1>1, <1>2, <1>3, Round, SizeNat DEF Loop, OnPath
<1>5. x # s
  BY <1>3, <1>4, LoopAdvances
<1>6. i = x \/ Dist(d, x) < Dist(d, i)
  <2>1. Dist(s, n) < Dist(s, i)
    BY <1>3, <1>4
  <2> QED
    BY <1>3, <1>4, <2>1, ThroughNext
<1>7. blob_ids[x] = NullKey
  BY <1>1, <1>2, <1>5 DEF EraseEnds
<1>8. i # x
  BY <1>3, <1>7
<1>9. OnPath(x, i)
  BY <1>2, <1>6, <1>8 DEF OnPath
<1> QED
  BY <1>3, <1>7, <1>9 DEF Paths

(* The hole is emptied; it may be the cut of the table from then on. *)
LEMMA EndStep ==
  ASSUME TableInv, lp_erase_end
  PROVE  TableInv'
<1> USE DEF TableInv
<1>0. PICK h : h = call.hole
  OBVIOUS
<1>1. /\ Erasing /\ h \in Slots /\ blob_ids[h] = call.id /\ call.id \in Ids
      /\ call.id # NullKey
  BY <1>0, HTableConstants DEF TypeOK, Loop, lp_erase_end, Erasing
<1>2. /\ blob_ids' = [blob_ids EXCEPT ![h] = NullKey]
      /\ blob_valid_until' =
           [blob_valid_until EXCEPT ![h] = VALID_UNTIL_EMPTY]
      /\ blob_data' \in {blob_data, [blob_data EXCEPT ![h] = NullBlk]}
      /\ UNCHANGED <<home, now>> /\ htable_free' = htable_free + 1
      /\ call' = NoCall
  BY <1>0 DEF lp_erase_end, ClearedSlot
<1>3. /\ blob_ids' \in [Slots -> Ids \cup {NullKey}]
      /\ blob_data' \in [Slots -> Ids \cup {NullBlk}]
      /\ blob_valid_until' \in [Slots -> 0..UINT32_MAX]
      /\ blob_ids'[h] = NullKey /\ blob_valid_until'[h] = VALID_UNTIL_EMPTY
      /\ \A i \in Slots \ {h} : /\ blob_ids'[i] = blob_ids[i]
                                /\ blob_data'[i] = blob_data[i]
                                /\ blob_valid_until'[i] = blob_valid_until[i]
  <2> HIDE DEF VALID_UNTIL_EMPTY
  <2> QED
    BY <1>1, <1>2, Sentinels DEF TypeOK
<1>4. ~Erasing' /\ call' \in [op : {"none", "get", "abort", "reap"},
                              id : Ids \cup {NullKey},
                              ret : Ids \cup {NullBlk},
                              start : Slots, hole : Slots, next : Slots]
  BY <1>2, SizeNat DEF NoCall, Erasing, Slots
<1>5. Held' = Held /\ Held \subseteq Slots /\ h \notin Held
  BY <1>0, <1>1, <1>3, <1>4 DEF Held, Erasing, Slots
<1>6. \A i \in Held, j \in Slots : OnPath(j, i)' <=> OnPath(j, i)
  BY <1>2, <1>3, <1>5 DEF OnPath, Dist
<1>7. Counted' /\ htable_free' \in 0..htable_size
  BY <1>1, <1>2, <1>3, CountStep
<1>8. Distinct' /\ RowsWhole'
  BY <1>1, <1>3 DEF Distinct, RowsWhole, VALID_UNTIL_EMPTY
<1>9. Paths'
  <2>1. ASSUME NEW i \in Held, NEW j \in Slots, OnPath(j, i)
        PROVE  blob_ids'[j] # NullKey
    <3>1. j # h /\ blob_ids[j] # NullKey
      BY <1>0, <2>1, HoleFree DEF Paths
    <3> QED
      BY <1>3, <3>1
  <2> QED
    BY <1>5, <1>6, <2>1 DEF Paths, Slots
<1>10. Loop'
  BY <1>4 DEF Loop
<1>11. (\E c \in Slots : Cut(c))'
  <2>1. PICK c \in Slots : Cut(c)
    OBVIOUS
  <2>2. Cut(c)'
    BY <1>4, <1>5, <1>6, <2>1 DEF Cut
  <2> QED
    BY <2>2 DEF Slots
<1>12. /\ blob_ids_invalid' \in Seq(Ids)
       /\ Gathered'
  <2>1. CASE call.op # "reap"
    <3>1. blob_ids_invalid = <<>> /\ blob_ids_invalid' = <<>>
      BY <1>1, <2>1 DEF Gathered, lp_erase_end
    <3> QED
      BY <1>4, <3>1 DEF Gathered
  <2>2. CASE call.op = "reap"
    <3>1. /\ blob_ids_invalid # <<>> /\ call.id = Head(blob_ids_invalid)
          /\ blob_ids_invalid' = Tail(blob_ids_invalid)
          /\ blob_ids_invalid \in Seq(Ids)
      BY <1>1, <2>2 DEF Gathered, lp_erase_end, TypeOK
    <3>2. /\ blob_ids_invalid' \in Seq(Ids)
          /\ Len(blob_ids_invalid') = Len(blob_ids_invalid) - 1
          /\ Len(blob_ids_invalid) \in Nat
          /\ \A m \in 1..Len(blob_ids_invalid') :
               /\ m + 1 \in 1..Len(blob_ids_invalid)
               /\ blob_ids_invalid'[m] = blob_ids_invalid[m + 1]
      BY <3>1
    <3>3. ASSUME NEW m \in 1..Len(blob_ids_invalid')
          PROVE  \E i \in Slots : /\ blob_ids'[i] = blob_ids_invalid'[m]
                                  /\ Published(i)'
      <4>1. PICK i \in Slots : /\ blob_ids[i] = blob_ids_invalid[m + 1]
                               /\ Published(i)
        BY <3>2, <3>3 DEF Gathered
      <4>2. blob_ids_invalid[m + 1] # blob_ids_invalid[1]
        <5>1. m + 1 # 1 /\ 1 \in 1..Len(blob_ids_invalid)
          BY <3>2, <3>3
        <5> QED
          BY <3>2, <3>3, <5>1 DEF Gathered
      <4>3. i # h
        BY <1>1, <3>1, <4>1, <4>2
      <4> QED
        BY <1>3, <3>2, <3>3, <4>1, <4>3
           DEF Published, VALID_UNTIL_NOT_PUBLISHED, VALID_UNTIL_EMPTY
    <3>4. ASSUME NEW m \in 1..Len(blob_ids_invalid'),
                 NEW k \in 1..Len(blob_ids_invalid'),
                 blob_ids_invalid'[m] = blob_ids_invalid'[k]
          PROVE  m = k
      <4>1. m + 1 = k + 1
        BY <3>2, <3>4 DEF Gathered
      <4> QED
        BY <3>2, <4>1
    <3> QED
      BY <1>4, <3>2, <3>3, <3>4 DEF Gathered, Slots
  <2> QED
    BY <2>1, <2>2
<1>13. TypeOK'
  BY <1>2, <1>3, <1>4, <1>7, <1>12 DEF TypeOK
<1> QED
  BY <1>7, <1>8, <1>9, <1>10, <1>11, <1>12, <1>13

(* A new row closes the table at its slot: nothing else is on a path there. *)
LEMMA CreateStep ==
  ASSUME TableInv, NEW id \in Ids, storage_blob_create(id)
  PROVE  TableInv'
<1> USE DEF TableInv
<1>1. /\ ~Erasing /\ blob_ids_invalid = <<>> /\ ~Found(id)
      /\ id # NullKey /\ home[id] \in Slots
  BY HTableConstants DEF storage_blob_create, Idle, Erasing, TypeOK
<1>2. \A i \in Slots : blob_ids[i] # id
  BY <1>1, Lookup, SizeNat DEF Found
<1>3. PICK e \in Slots : blob_ids[e] = NullKey
  <2>1. {i \in Slots : blob_ids[i] = NullKey} # {}
    BY FS_EmptySet DEF Counted, storage_blob_create
  <2> QED
    BY <2>1
<1>4. PICK f : f = lp_find_free_slot(id)
  OBVIOUS
<1>5. /\ f \in Slots /\ blob_ids[f] = NullKey
      /\ \A j \in Slots : Dist(home[id], j) < Dist(home[id], f)
                            => blob_ids[j] # NullKey
  BY <1>3, <1>4, FreeSlot
<1>6. /\ blob_ids' = [blob_ids EXCEPT ![f] = id]
      /\ blob_data' = [blob_data EXCEPT ![f] = id]
      /\ blob_valid_until' =
           [blob_valid_until EXCEPT ![f] = VALID_UNTIL_NOT_PUBLISHED]
      /\ htable_free' = htable_free - 1
      /\ UNCHANGED <<home, blob_ids_invalid, call, now>>
  BY <1>4 DEF storage_blob_create
<1>7. /\ blob_ids' \in [Slots -> Ids \cup {NullKey}]
      /\ blob_data' \in [Slots -> Ids \cup {NullBlk}]
      /\ blob_valid_until' \in [Slots -> 0..UINT32_MAX]
      /\ blob_ids'[f] = id /\ blob_data'[f] = id
      /\ blob_valid_until'[f] = VALID_UNTIL_NOT_PUBLISHED
      /\ \A i \in Slots \ {f} : /\ blob_ids'[i] = blob_ids[i]
                                /\ blob_data'[i] = blob_data[i]
                                /\ blob_valid_until'[i] = blob_valid_until[i]
  <2> HIDE DEF VALID_UNTIL_NOT_PUBLISHED
  <2> QED
    BY <1>5, <1>6, Sentinels DEF TypeOK
<1>8. ~Erasing'
  BY <1>1, <1>6 DEF Erasing
<1>9. /\ \A i \in Held' : i \in Slots /\ (i = f \/ (i \in Held /\ i # f))
      /\ Held \subseteq Slots
  BY <1>1, <1>7, <1>8 DEF Held, Erasing, Slots
<1>10. \A i \in Held', j \in Slots :
         OnPath(j, i)' <=> Dist(home[blob_ids'[i]], j)
                             < Dist(home[blob_ids'[i]], i)
  BY <1>6 DEF OnPath, Dist
<1>11. Counted' /\ htable_free' \in 0..htable_size
  BY <1>1, <1>5, <1>6, <1>7, CountStep
<1>12. Distinct'
  BY <1>2, <1>5, <1>7 DEF Distinct
<1>13. RowsWhole'
  <2>1. VALID_UNTIL_EMPTY' = VALID_UNTIL_EMPTY
    BY DEF VALID_UNTIL_EMPTY
  <2> HIDE DEF VALID_UNTIL_EMPTY, VALID_UNTIL_NOT_PUBLISHED
  <2> QED
    BY <1>1, <1>5, <1>7, <2>1, Sentinels DEF RowsWhole
<1>14. Paths'
  <2>1. ASSUME NEW i \in Held', NEW j \in Slots, OnPath(j, i)'
        PROVE  blob_ids'[j] # NullKey
    <3>1. j = f => blob_ids'[j] # NullKey
      BY <1>1, <1>7
    <3>2. blob_ids[j] # NullKey
      <4>1. CASE i = f
        BY <1>5, <1>7, <1>10, <2>1, <4>1
      <4>2. CASE i # f
        BY <1>7, <1>9, <1>10, <2>1, <4>2 DEF Paths, OnPath
      <4> QED
        BY <4>1, <4>2
    <3> QED
      BY <1>7, <3>1, <3>2
  <2> QED
    BY <2>1 DEF Paths, Slots
<1>15. Loop'
  BY <1>8 DEF Loop
<1>16. Cut(f)'
  <2>1. ASSUME NEW i \in Held', OnPath(f, i)'
        PROVE  FALSE
    <3>1. CASE i = f
      BY <1>1, <1>5, <1>7, <1>10, <2>1, <3>1, Round, SizeNat
    <3>2. CASE i # f
      BY <1>5, <1>7, <1>9, <1>10, <2>1, <3>2 DEF Paths, OnPath
    <3> QED
      BY <3>1, <3>2
  <2> QED
    BY <1>8, <2>1 DEF Cut
<1>17. (\E c \in Slots : Cut(c))'
  BY <1>5, <1>16 DEF Slots
<1>18. Gathered'
  BY <1>1, <1>6, <1>8 DEF Gathered
<1>19. TypeOK'
  BY <1>6, <1>7, <1>11 DEF TypeOK
<1> QED
  BY <1>11, <1>12, <1>13, <1>14, <1>15, <1>17, <1>18, <1>19

(* Where nothing but the times, the clock and the list may change. *)
LEMMA SameKeys ==
  ASSUME TableInv, TypeOK', RowsWhole', Gathered',
         UNCHANGED <<home, blob_ids, htable_free, call>>
  PROVE  TableInv'
<1>1. Held' = Held /\ Held \subseteq Slots
  BY DEF Held, Slots
<1>2. \A i, j \in Slots : OnPath(j, i)' <=> OnPath(j, i)
  BY DEF OnPath, Dist
<1>3. Distinct' /\ Counted'
  BY DEF TableInv, Distinct, Counted, Slots
<1>4. Paths'
  BY <1>1, <1>2 DEF TableInv, Paths, Slots
<1>5. Loop'
  <2>1. \A i \in Held : OnPath(call.hole, i)' <=> OnPath(call.hole, i)
    BY DEF OnPath, Dist
  <2>2. \A i \in Slots : Dist(call.start, i)' = Dist(call.start, i)
    BY DEF Dist
  <2>3. /\ Dist(call.start, call.hole)' = Dist(call.start, call.hole)
        /\ Dist(call.start, call.next)' = Dist(call.start, call.next)
    BY DEF Dist
  <2> QED
    BY <1>1, <2>1, <2>2, <2>3 DEF TableInv, Loop, Erasing
<1>6. ASSUME NEW c \in Slots, Cut(c)
      PROVE  Cut(c)'
  <2>1. Dist(call.start, c)' = Dist(call.start, c)
    BY DEF Dist
  <2>2. Dist(call.start, call.hole)' = Dist(call.start, call.hole)
    BY DEF Dist
  <2> QED
    BY <1>1, <1>2, <1>6, <2>1, <2>2 DEF Cut, Erasing
<1>7. (\E c \in Slots : Cut(c))'
  BY <1>6 DEF TableInv, Slots
<1> QED
  BY <1>3, <1>4, <1>5, <1>7 DEF TableInv

(* storage_blob_publish changes one row and no key. *)
LEMMA PublishStep ==
  ASSUME TableInv, NEW id \in Ids, storage_blob_publish(id)
  PROVE  TableInv'
<1> USE DEF TableInv
<1>1. /\ ~Erasing /\ blob_ids_invalid = <<>> /\ Found(id)
      /\ now \in 0..MAX_NOW /\ id # NullKey
  BY HTableConstants DEF storage_blob_publish, Idle, Erasing, TypeOK
<1>2. PICK i \in Slots : i = lp_lookup(id) /\ blob_ids[i] = id
  BY <1>1, Lookup
<1>3. /\ UNCHANGED <<home, blob_ids, blob_data, htable_free>>
      /\ UNCHANGED <<blob_ids_invalid, call, now>>
      /\ blob_valid_until' = [blob_valid_until EXCEPT ![i] = now + BLOB_TTL_S]
  BY <1>2 DEF storage_blob_publish
<1>4. /\ now + BLOB_TTL_S \in 0..UINT32_MAX
      /\ now + BLOB_TTL_S # VALID_UNTIL_EMPTY
  BY <1>1, Sentinels
<1>5. TypeOK'
  BY <1>3, <1>4 DEF TypeOK
<1>6. RowsWhole'
  BY <1>1, <1>2, <1>3, <1>4 DEF RowsWhole, TypeOK, VALID_UNTIL_EMPTY
<1>7. Gathered'
  BY <1>1, <1>3 DEF Gathered, Erasing
<1> QED
  BY <1>3, <1>5, <1>6, <1>7, SameKeys

(* The reaper gathers keys that are in the table. *)
LEMMA GatherStep ==
  ASSUME TableInv, reaper_gather
  PROVE  TableInv'
<1> USE DEF TableInv
<1> DEFINE expired == {i \in Slots : Expired(i)}
<1>1. PICK n : n = Cardinality(expired)
  OBVIOUS
<1>2. PICK slot \in [1..n -> expired] :
        /\ \A a, b \in 1..n : a < b => slot[a] < slot[b]
        /\ blob_ids_invalid' = [k \in 1..n |-> blob_ids[slot[k]]]
  BY <1>1 DEF reaper_gather
<1>3. n \in Nat
  <2>1. IsFiniteSet(Slots) /\ expired \subseteq Slots
    BY SizeNat, FS_Interval DEF Slots
  <2> HIDE DEF expired
  <2> QED
    BY <1>1, <2>1, FS_Subset, FS_CardinalityType
<1>4. /\ UNCHANGED <<home, blob_ids, blob_data, blob_valid_until>>
      /\ UNCHANGED <<htable_free, call, now>>
      /\ ~Erasing /\ ~Erasing'
  BY DEF reaper_gather, rowVars, Idle, Erasing
<1>5. ASSUME NEW i \in expired
      PROVE  i \in Slots /\ blob_ids[i] \in Ids /\ Published(i)
  <2>1. i \in Slots /\ blob_valid_until[i] < now /\ now \in 0..MAX_NOW
        /\ blob_valid_until[i] \in 0..UINT32_MAX
    BY DEF Expired, TypeOK
  <2>2. /\ blob_valid_until[i] # VALID_UNTIL_NOT_PUBLISHED
        /\ blob_valid_until[i] # VALID_UNTIL_EMPTY
    <3>1. now < VALID_UNTIL_NOT_PUBLISHED /\ now < VALID_UNTIL_EMPTY
      BY <2>1, Sentinels
    <3>2. VALID_UNTIL_NOT_PUBLISHED \in Int /\ VALID_UNTIL_EMPTY \in Int
      BY Sentinels
    <3> HIDE DEF VALID_UNTIL_NOT_PUBLISHED, VALID_UNTIL_EMPTY
    <3> QED
      BY <2>1, <3>1, <3>2
  <2> QED
    BY <2>1, <2>2 DEF RowsWhole, TypeOK, Published
<1>6. /\ blob_ids_invalid' \in Seq(Ids) /\ Len(blob_ids_invalid') = n
      /\ \A k \in 1..n : /\ blob_ids_invalid'[k] = blob_ids[slot[k]]
                         /\ slot[k] \in Slots /\ Published(slot[k])
  <2>1. \A k \in 1..n : slot[k] \in Slots /\ blob_ids[slot[k]] \in Ids
                          /\ Published(slot[k])
    BY <1>2, <1>5
  <2> QED
    BY <1>2, <1>3, <2>1
<1>7. ASSUME NEW a \in 1..n, NEW b \in 1..n,
             blob_ids_invalid'[a] = blob_ids_invalid'[b]
      PROVE  a = b
  <2>1. slot[a] = slot[b]
    <3>1. blob_ids[slot[a]] \in Ids
      BY <1>2, <1>5
    <3> QED
      BY <1>6, <1>7, <3>1, HTableConstants DEF Distinct
  <2>2. slot[a] \in Nat
    BY <1>6, SizeNat
  <2>3. ~(slot[a] < slot[b]) /\ ~(slot[b] < slot[a])
    BY <2>1, <2>2
  <2> QED
    BY <1>2, <1>3, <2>3
<1>8. Gathered'
  <2>1. \A k \in 1..n : Published(slot[k])'
    BY <1>4, <1>6 DEF Published, VALID_UNTIL_NOT_PUBLISHED, VALID_UNTIL_EMPTY
  <2> QED
    BY <1>4, <1>6, <1>7, <2>1 DEF Gathered, Slots
<1>9. TypeOK'
  BY <1>4, <1>6 DEF TypeOK
<1>10. RowsWhole'
  BY <1>4 DEF RowsWhole, VALID_UNTIL_EMPTY
<1> QED
  BY <1>4, <1>8, <1>9, <1>10, SameKeys

(* A removal begins where the key is, with the whole table ahead of it. *)
LEMMA BeginStep ==
  ASSUME TableInv, NEW id \in Ids, ~Erasing, Found(id),
         NEW op \in {"get", "abort", "reap"}, BeginErase(op, id),
         UNCHANGED <<home, rowVars, htable_free, blob_ids_invalid, now>>,
         \/ blob_ids_invalid = <<>> /\ op # "reap"
         \/ blob_ids_invalid # <<>> /\ op = "reap"
              /\ id = Head(blob_ids_invalid)
  PROVE  TableInv'
<1> USE DEF TableInv
<1>1. UNCHANGED <<home, blob_ids, blob_data, blob_valid_until>>
  BY DEF rowVars
<1>2. PICK i \in Slots : i = lp_lookup(id) /\ blob_ids[i] = id
  BY Lookup
<1>3. blob_data[i] = id /\ id # NullKey
  BY <1>2, HTableConstants DEF RowsWhole
<1>4. call' = [op |-> op, id |-> id, ret |-> id,
               start |-> i, hole |-> i, next |-> i]
  BY <1>2, <1>3 DEF BeginErase
<1>5. /\ call'.op = op /\ call'.id = id /\ call'.ret = id
      /\ call'.start = i /\ call'.hole = i /\ call'.next = i
      /\ Erasing'
  BY <1>4 DEF Erasing
<1>6. TypeOK'
  BY <1>1, <1>4 DEF TypeOK
<1>7. Distinct' /\ RowsWhole' /\ Counted'
  BY <1>1 DEF Distinct, RowsWhole, Counted, VALID_UNTIL_EMPTY, Slots
<1>8. /\ \A r \in Held' : r \in Held /\ r # i
      /\ Held \subseteq Slots
  BY <1>1, <1>5 DEF Held, Erasing, Slots
<1>9. \A r, j \in Slots : OnPath(j, r)' <=> OnPath(j, r)
  BY <1>1 DEF OnPath, Dist
<1>10. Paths'
  BY <1>1, <1>8, <1>9 DEF Paths, Slots
<1>11. /\ Dist(i, i) = 0
       /\ \A r \in Slots : /\ Dist(i, r) \in Nat
                           /\ r # i => Dist(i, r) > 0
  BY <1>2, SizeNat DEF Dist, Slots
<1>12. /\ \A r \in Slots : Dist(call.start, r)' = Dist(i, r)
       /\ Dist(call.start, call.hole)' = Dist(i, i)
       /\ Dist(call.start, call.next)' = Dist(i, i)
  BY <1>5 DEF Dist
<1>13. Loop'
  BY <1>1, <1>2, <1>5, <1>8, <1>11, <1>12 DEF Loop
<1>14. ASSUME NEW c \in Slots, Cut(c)
       PROVE  Cut(c)'
  <2>1. Dist(call.start, c)' = Dist(i, c)
    BY <1>5 DEF Dist
  <2>2. \A r \in Held' : ~OnPath(c, r)'
    BY <1>8, <1>9, <1>14 DEF Cut
  <2>3. Dist(i, c) >= Dist(i, i)
    BY <1>11
  <2> QED
    BY <1>12, <2>1, <2>2, <2>3 DEF Cut
<1>15. (\E c \in Slots : Cut(c))'
  BY <1>14 DEF Slots
<1>16. Gathered'
  BY <1>1, <1>5 DEF Gathered, Published, VALID_UNTIL_NOT_PUBLISHED,
                    VALID_UNTIL_EMPTY, Slots
<1> QED
  BY <1>6, <1>7, <1>10, <1>13, <1>15, <1>16

(* The reaper's list holds keys. *)
LEMMA HeadIsKey ==
  ASSUME TableInv, blob_ids_invalid # <<>>
  PROVE  Head(blob_ids_invalid) \in Ids
BY DEF TableInv, TypeOK

(* Every step of the table keeps the invariant. *)
LEMMA TableStep == TableInv /\ [Next]_vars => TableInv'
<1> SUFFICES ASSUME TableInv, [Next]_vars
             PROVE  TableInv'
  OBVIOUS
<1>1. ASSUME NEW id \in Ids, storage_blob_get(id) \/ storage_blob_abort(id)
      PROVE  TableInv'
  <2>1. /\ Idle /\ Found(id)
        /\ BeginErase("get", id) \/ BeginErase("abort", id)
        /\ UNCHANGED <<home, rowVars, htable_free, blob_ids_invalid, now>>
    BY <1>1 DEF storage_blob_get, storage_blob_abort
  <2> QED
    BY <2>1, BeginStep DEF Idle, Erasing
<1>2. CASE reaper_rip
  <2>1. /\ blob_ids_invalid # <<>> /\ ~Erasing
        /\ Found(Head(blob_ids_invalid))
        /\ BeginErase("reap", Head(blob_ids_invalid))
        /\ UNCHANGED <<home, rowVars, htable_free, blob_ids_invalid, now>>
    BY <1>2 DEF reaper_rip, Erasing
  <2>2. Head(blob_ids_invalid) \in Ids
    BY <2>1, HeadIsKey
  <2> QED
    BY <2>1, <2>2, BeginStep
<1>3. CASE Tick \/ UNCHANGED vars
  <2>1. /\ UNCHANGED <<home, blob_ids, blob_data, blob_valid_until>>
        /\ UNCHANGED <<htable_free, call, blob_ids_invalid>>
        /\ now' \in 0..MAX_NOW
    BY <1>3, HTableConstants DEF Tick, vars, rowVars, TableInv, TypeOK
  <2>2. TypeOK' /\ RowsWhole' /\ Gathered'
    BY <2>1 DEF TableInv, TypeOK, RowsWhole, Gathered, Published, Erasing,
                VALID_UNTIL_NOT_PUBLISHED, VALID_UNTIL_EMPTY, Slots
  <2> QED
    BY <2>1, <2>2, SameKeys
<1> QED
  BY <1>1, <1>2, <1>3, SkipStep, MoveStep, EndStep, CreateStep, PublishStep,
     GatherStep DEF Next

(* The invariant holds in every reachable state. *)
THEOREM TableInvHolds == Spec => []TableInv
<1>1. Init => TableInv
  <2> SUFFICES ASSUME Init PROVE TableInv
    OBVIOUS
  <2>1. IsFiniteSet(Slots) /\ Cardinality(Slots) = htable_size /\ 0 \in Slots
    BY SizeNat, FS_Interval DEF Slots
  <2>2. ~Erasing /\ blob_ids_invalid = <<>> /\ Held = {}
    BY DEF Init, NoCall, Erasing, Held
  <2>3. TypeOK
    <3>1. 0 \in 0..MAX_NOW /\ htable_size \in 0..htable_size
      BY HTableConstants
    <3> HIDE DEF VALID_UNTIL_EMPTY
    <3> QED
      BY <2>1, <3>1, Sentinels DEF Init, TypeOK, NoCall
  <2>4. Counted
    <3>1. {i \in Slots : blob_ids[i] = NullKey} = Slots
      BY DEF Init
    <3> QED
      BY <2>1, <3>1 DEF Counted, Init
  <2>5. Distinct /\ RowsWhole
    BY DEF Init, Distinct, RowsWhole
  <2>6. Paths /\ Loop /\ Gathered /\ \A c \in Slots : Cut(c)
    BY <2>2 DEF Paths, Loop, Gathered, Cut
  <2> QED
    BY <2>1, <2>3, <2>4, <2>5, <2>6 DEF TableInv
<1> QED
  BY <1>1, TableStep, PTL DEF Spec

-----------------------------------------------------------------------------
(* Between calls every key is found where it is, under every hash function. *)
THEOREM ReachableCorrect == Spec => []AllReachable
<1>1. TableInv => AllReachable
  <2> SUFFICES ASSUME TableInv, call.op = "none", NEW i \in Held
               PROVE  lp_lookup(blob_ids[i]) = i
    BY DEF AllReachable
  <2>1. i \in Slots /\ blob_ids[i] \in Ids
    BY DEF Held, TableInv, TypeOK
  <2> QED
    BY <2>1, Lookup DEF TableInv, Erasing
<1> QED
  BY <1>1, TableInvHolds, PTL

(* While lp_erase closes the gap, no row that it has passed is stranded.    *)
THEOREM PathsCorrect == Spec => []LoopKeepsPaths
<1>1. TableInv => LoopKeepsPaths
  BY DEF TableInv, Loop, Paths, LoopKeepsPaths, Erasing
<1> QED
  BY <1>1, TableInvHolds, PTL

(* An empty slot never looks expired, and the counter of free ones is exact. *)
THEOREM EmptyCorrect == Spec => []EmptySlots
<1>1. TableInv => EmptySlots
  BY DEF TableInv, RowsWhole, Counted, EmptySlots
<1> QED
  BY <1>1, TableInvHolds, PTL

(* Each identifier on the reaper's list is found and published when its     *)
(* turn comes, and gives back its own block.                                *)
THEOREM ReaperFindsCorrect == Spec => []ReaperFinds
<1>1. TableInv => ReaperFinds
  <2> SUFFICES ASSUME TableInv PROVE ReaperFinds
    OBVIOUS
  <2>1. ASSUME NEW n \in 1..Len(blob_ids_invalid), call.op = "none"
        PROVE  /\ Found(blob_ids_invalid[n])
               /\ Published(lp_lookup(blob_ids_invalid[n]))
    <3>1. PICK i \in Slots : blob_ids[i] = blob_ids_invalid[n] /\ Published(i)
      BY <2>1 DEF TableInv, Gathered
    <3>2. blob_ids_invalid[n] \in Ids
      BY <2>1 DEF TableInv, TypeOK
    <3>3. lp_lookup(blob_ids_invalid[n]) = i
      BY <2>1, <3>1, <3>2, Lookup DEF TableInv, Erasing
    <3> QED
      BY <3>1, <3>3, SizeNat DEF Found
  <2>2. call.op # "none" => call.ret = call.id
    BY DEF TableInv, Loop, Erasing
  <2> QED
    BY <2>1, <2>2 DEF ReaperFinds
<1> QED
  BY <1>1, TableInvHolds, PTL

(* Every removal ends and so does the reaper: the loop only moves away from *)
(* where it began, and the list only gets shorter.                          *)
THEOREM AdvanceCorrect == Spec => CallsAdvance
<1> DEFINE A == /\ call.op # "none" =>
                     \/ call' \in {call, NoCall}
                     \/ Dist(call.start, call.next)
                          < Dist(call.start, call'.next)
                /\ blob_ids_invalid # <<>> =>
                     blob_ids_invalid' \in {blob_ids_invalid,
                                            Tail(blob_ids_invalid)}
<1>1. TableInv /\ [Next]_vars => [A]_vars
  <2> SUFFICES ASSUME TableInv, Next
               PROVE  A
    OBVIOUS
  <2>1. CASE lp_erase_step
    <3>1. call'.next = NextSlot
      BY <2>1, LoopCall
    <3>2. Dist(call.start, NextSlot) = Dist(call.start, call.next) + 1
      BY <2>1, LooksAt, LoopAdvances DEF NextSlot
    <3>3. Dist(call.start, call.next) \in Nat
      BY <2>1, LooksAt, Round, SizeNat
    <3>4. blob_ids_invalid' = blob_ids_invalid
      BY <2>1 DEF lp_erase_step
    <3> QED
      BY <3>1, <3>2, <3>3, <3>4
  <2>2. CASE lp_erase_end
    BY <2>2 DEF lp_erase_end
  <2>3. CASE ~lp_erase_step /\ ~lp_erase_end
    <3>1. call.op # "none" => call' = call
      BY <2>3 DEF Next, storage_blob_create, storage_blob_publish,
           storage_blob_get, storage_blob_abort, reaper_gather, reaper_rip,
           Tick, Idle
    <3>2. blob_ids_invalid # <<>> => blob_ids_invalid' = blob_ids_invalid
      BY <2>3 DEF Next, storage_blob_create, storage_blob_publish,
           storage_blob_get, storage_blob_abort, reaper_gather, reaper_rip,
           Tick, Idle
    <3> QED
      BY <3>1, <3>2
  <2> QED
    BY <2>1, <2>2, <2>3
<1> QED
  BY <1>1, TableInvHolds, PTL DEF Spec, CallsAdvance

-----------------------------------------------------------------------------
(***************************************************************************)
(* The table implements the map of KeyMap                                  *)
(***************************************************************************)
RowsAre ==
  /\ \A i \in Held : blob_ids[i] \in Ids /\ Rows[blob_ids[i]] = Row(i)
  /\ \A i \in Held : Row(i) # NullBlk
  /\ \A id \in Ids : (\A i \in Held : blob_ids[i] # id) => Rows[id] = NullBlk

(* The row of a key in the map is the row of its slot. *)
LEMMA RowsHold == TableInv => RowsAre
<1> SUFFICES ASSUME TableInv PROVE RowsAre
  OBVIOUS
<1>1. ASSUME NEW i \in Held
      PROVE  blob_ids[i] \in Ids /\ Rows[blob_ids[i]] = Row(i)
  <2>1. i \in Slots /\ blob_ids[i] # NullKey /\ blob_ids[i] \in Ids
    BY DEF Held, TableInv, TypeOK
  <2> DEFINE j == CHOOSE j \in Held : blob_ids[j] = blob_ids[i]
  <2>2. j \in Held /\ blob_ids[j] = blob_ids[i]
    OBVIOUS
  <2>3. j = i
    BY <2>1, <2>2 DEF Held, TableInv, Distinct
  <2>4. Rows[blob_ids[i]] = Row(j)
    BY <2>1 DEF Rows
  <2> HIDE DEF j
  <2> QED
    BY <2>1, <2>3, <2>4
<1>2. ASSUME NEW i \in Held
      PROVE  Row(i) # NullBlk
  <2>1. i \in Slots /\ blob_ids[i] \in Ids /\ blob_data[i] = blob_ids[i]
        /\ blob_valid_until[i] \in 0..UINT32_MAX
    BY DEF Held, TableInv, TypeOK, RowsWhole
  <2>2. Row(i) \in [data : Ids, until : 0..UINT32_MAX]
    BY <2>1 DEF Row
  <2> QED
    BY <2>2, HTableConstants
<1>3. \A id \in Ids : (\A i \in Held : blob_ids[i] # id) => Rows[id] = NullBlk
  BY DEF Rows
<1> QED
  BY <1>1, <1>2, <1>3 DEF RowsAre

(* Rows that only move leave the map as it is. *)
LEMMA SameRows ==
  ASSUME RowsAre, RowsAre',
         \A i \in Held : \E j \in Held' : /\ blob_ids'[j] = blob_ids[i]
                                          /\ Row(j)' = Row(i),
         \A j \in Held' : \E i \in Held : blob_ids[i] = blob_ids'[j]
  PROVE  Rows' = Rows
<1>1. ASSUME NEW id \in Ids
      PROVE  Rows'[id] = Rows[id]
  <2>1. CASE \E i \in Held : blob_ids[i] = id
    <3>1. PICK i \in Held, j \in Held' :
            blob_ids[i] = id /\ blob_ids'[j] = id /\ Row(j)' = Row(i)
      BY <2>1
    <3> QED
      BY <3>1 DEF RowsAre
  <2>2. CASE ~\E i \in Held : blob_ids[i] = id
    <3>1. \A j \in Held' : blob_ids'[j] # id
      BY <2>2
    <3> QED
      BY <2>2, <3>1 DEF RowsAre
  <2> QED
    BY <2>1, <2>2
<1>2. /\ Rows = [id \in Ids |-> Rows[id]]
      /\ Rows' = [id \in Ids |-> Rows'[id]]
  BY DEF Rows
<1> QED
  BY <1>1, <1>2

(* The map changes at one key, or not at all. *)
LEMMA OneRow ==
  ASSUME NEW id \in Ids, NEW v, Rows'[id] = v,
         \A k \in Ids \ {id} : Rows'[k] = Rows[k]
  PROVE  Rows' = [Rows EXCEPT ![id] = v]
<1>1. /\ Rows = [k \in Ids |-> Rows[k]]
      /\ Rows' = [k \in Ids |-> Rows'[k]]
  BY DEF Rows
<1> QED
  BY <1>1

(* Moving a row, ending a removal, gathering and time do not change it. *)
LEMMA MapKept ==
  ASSUME TableInv, TableInv',
         \/ lp_erase_step \/ lp_erase_end \/ reaper_gather \/ Tick
         \/ UNCHANGED vars
  PROVE  Rows' = Rows
<1>1. RowsAre /\ RowsAre'
  <2>1. (TableInv => RowsAre)'
    BY RowsHold, PTL
  <2> QED
    BY <2>1, RowsHold
<1>2. CASE /\ UNCHANGED <<blob_ids, blob_data, blob_valid_until>>
           /\ call'.op = call.op /\ call'.hole = call.hole
  <2>1. Held' = Held /\ \A i \in Held : Row(i)' = Row(i)
    BY <1>2 DEF Held, Row, Slots
  <2> QED
    BY <1>1, <1>2, <2>1, SameRows
<1>3. CASE lp_erase_step /\ MovesBack(NextSlot)
  <2>1. PICK h, x : h = call.hole /\ x = NextSlot
    OBVIOUS
  <2>2. /\ h \in Slots /\ x \in Slots /\ x \in Held /\ x # h
        /\ h \notin Held /\ Erasing /\ Erasing'
        /\ call'.hole = x
        /\ blob_ids[x] # NullKey /\ blob_ids[h] # NullKey
    BY <1>3, <2>1, LooksAt, LoopCall DEF Held, Erasing
  <2>3. /\ \A i \in Slots \ {h, x} :
             blob_ids'[i] = blob_ids[i] /\ Row(i)' = Row(i)
        /\ blob_ids'[h] = blob_ids[x] /\ Row(h)' = Row(x)
    BY <1>3, <2>1, Swapped DEF Row
  <2>4. /\ \A i \in Held : i \in Slots /\ i # h
        /\ \A i \in Held' : i = h \/ (i \in Held /\ i # x)
        /\ \A i \in Held : i # x => i \in Held'
        /\ h \in Held'
    BY <2>1, <2>2, <2>3 DEF Held, Erasing, Slots
  <2>5. ASSUME NEW i \in Held
        PROVE  \E j \in Held' : blob_ids'[j] = blob_ids[i] /\ Row(j)' = Row(i)
    BY <2>3, <2>4
  <2>6. ASSUME NEW j \in Held'
        PROVE  \E i \in Held : blob_ids[i] = blob_ids'[j]
    BY <2>2, <2>3, <2>4
  <2> QED
    BY <1>1, <2>5, <2>6, SameRows
<1>4. CASE lp_erase_step /\ ~MovesBack(NextSlot)
  BY <1>2, <1>4, LoopCall DEF lp_erase_step, rowVars
<1>5. CASE lp_erase_end
  <2>1. /\ \A i \in Slots \ {call.hole} : /\ blob_ids'[i] = blob_ids[i]
                                          /\ Row(i)' = Row(i)
        /\ blob_ids'[call.hole] = NullKey /\ call'.op = "none"
        /\ call.op # "none"
    BY <1>5 DEF lp_erase_end, ClearedSlot, TableInv, TypeOK, Row, NoCall
  <2>2. Held' = Held /\ \A i \in Held : i \in Slots /\ i # call.hole
    BY <2>1 DEF Held, Slots
  <2> QED
    BY <1>1, <2>1, <2>2, SameRows
<1>6. CASE reaper_gather \/ Tick \/ UNCHANGED vars
  BY <1>2, <1>6 DEF reaper_gather, Tick, vars, rowVars
<1> QED
  BY <1>3, <1>4, <1>5, <1>6

(* Inserting, publishing and the beginning of a removal change one row. *)
LEMMA MapInserts ==
  ASSUME TableInv, TableInv', NEW id \in Ids, storage_blob_create(id)
  PROVE  Map!Insert(id, id)
<1>1. RowsAre /\ RowsAre'
  <2>1. (TableInv => RowsAre)'
    BY RowsHold, PTL
  <2> QED
    BY <2>1, RowsHold
<1>2. ~Erasing /\ ~Erasing' /\ ~Found(id) /\ id # NullKey
  BY HTableConstants DEF storage_blob_create, Idle, Erasing
<1>3. \A i \in Slots : blob_ids[i] # id
  BY <1>2, Lookup, SizeNat DEF Found, TableInv
<1>4. \E e \in Slots : blob_ids[e] = NullKey
  <2>1. {i \in Slots : blob_ids[i] = NullKey} # {}
    BY FS_EmptySet DEF TableInv, Counted, storage_blob_create
  <2> QED
    BY <2>1
<1>5. PICK f \in Slots : f = lp_find_free_slot(id) /\ blob_ids[f] = NullKey
  BY <1>4, FreeSlot DEF TableInv
<1>6. /\ blob_ids'[f] = id /\ blob_data'[f] = id
      /\ blob_valid_until'[f] = VALID_UNTIL_NOT_PUBLISHED
      /\ \A i \in Slots \ {f} : blob_ids'[i] = blob_ids[i] /\ Row(i)' = Row(i)
  BY <1>5 DEF storage_blob_create, TableInv, TypeOK, Row
<1>7. /\ f \in Held' /\ f \notin Held
      /\ \A i \in Slots \ {f} : i \in Held' <=> i \in Held
      /\ Held \subseteq Slots /\ Held' \subseteq Slots
  BY <1>2, <1>5, <1>6 DEF Held, Erasing, Slots
<1>8. Rows[id] = NullBlk
  BY <1>1, <1>3, <1>7 DEF RowsAre
<1>9. Rows'[id] = [data |-> id, until |-> VALID_UNTIL_NOT_PUBLISHED]
  BY <1>1, <1>6, <1>7 DEF RowsAre, Row
<1>10. ASSUME NEW k \in Ids \ {id}
       PROVE  Rows'[k] = Rows[k]
  <2>1. CASE \E i \in Held : blob_ids[i] = k
    BY <1>1, <1>6, <1>7, <2>1 DEF RowsAre
  <2>2. CASE ~\E i \in Held : blob_ids[i] = k
    <3>1. \A i \in Held' : blob_ids'[i] # k
      BY <1>6, <1>7, <1>10, <2>2
    <3> QED
      BY <1>1, <2>2, <3>1 DEF RowsAre
  <2> QED
    BY <2>1, <2>2
<1> QED
  BY <1>8, <1>9, <1>10, OneRow DEF Map!Insert

(* To the map, storage_blob_publish gives a secret its time. *)
LEMMA MapPublishes ==
  ASSUME TableInv, TableInv', NEW id \in Ids, storage_blob_publish(id)
  PROVE  Map!Publish(id, now + BLOB_TTL_S) /\ now \in 0..MAX_NOW
<1>1. RowsAre /\ RowsAre' /\ now \in 0..MAX_NOW
  <2>1. (TableInv => RowsAre)'
    BY RowsHold, PTL
  <2> QED
    BY <2>1, RowsHold DEF TableInv, TypeOK
<1>2. ~Erasing /\ ~Erasing' /\ Found(id) /\ id # NullKey
  BY HTableConstants DEF storage_blob_publish, Idle, Erasing
<1>3. PICK i \in Slots : i = lp_lookup(id) /\ blob_ids[i] = id
  BY <1>2, Lookup DEF TableInv
<1>4. /\ UNCHANGED <<blob_ids, blob_data, call>>
      /\ blob_valid_until'[i] = now + BLOB_TTL_S
      /\ \A j \in Slots \ {i} : Row(j)' = Row(j)
  BY <1>3 DEF storage_blob_publish, TableInv, TypeOK, Row
<1>5. Held' = Held /\ i \in Held /\ Held \subseteq Slots
  BY <1>2, <1>3, <1>4 DEF Held, Erasing, Slots
<1>6. /\ Rows[id] = Row(i) /\ Rows[id] # NullBlk
      /\ Rows'[id] = Row(i)'
  BY <1>1, <1>3, <1>4, <1>5 DEF RowsAre
<1>7. Row(i)' = [Row(i) EXCEPT !.until = now + BLOB_TTL_S]
  BY <1>4 DEF Row
<1>8. ASSUME NEW k \in Ids \ {id}
      PROVE  Rows'[k] = Rows[k]
  <2>1. CASE \E j \in Held : blob_ids[j] = k
    BY <1>1, <1>3, <1>4, <1>5, <2>1 DEF RowsAre
  <2>2. CASE ~\E j \in Held : blob_ids[j] = k
    BY <1>1, <1>4, <1>5, <2>2 DEF RowsAre
  <2> QED
    BY <2>1, <2>2
<1>9. Rows' = [Rows EXCEPT ![id] = [Row(i) EXCEPT !.until = now + BLOB_TTL_S]]
  BY <1>6, <1>7, <1>8, OneRow
<1> QED
  BY <1>1, <1>6, <1>9 DEF Map!Publish

(* To the map, the first step of an erasure is all of it. *)
LEMMA MapDeletes ==
  ASSUME TableInv, TableInv', NEW id \in Ids, ~Erasing, Found(id),
         NEW op \in {"get", "abort", "reap"}, BeginErase(op, id),
         UNCHANGED rowVars
  PROVE  Map!Delete(id)
<1>1. RowsAre /\ RowsAre'
  <2>1. (TableInv => RowsAre)'
    BY RowsHold, PTL
  <2> QED
    BY <2>1, RowsHold
<1>2. PICK i \in Slots : i = lp_lookup(id) /\ blob_ids[i] = id
  BY Lookup DEF TableInv
<1>3. /\ UNCHANGED <<blob_ids, blob_data, blob_valid_until>>
      /\ \A j \in Slots : Row(j)' = Row(j)
      /\ call'.op # "none" /\ call'.hole = i /\ id # NullKey
  BY <1>2, HTableConstants DEF rowVars, Row, BeginErase
<1>4. Held' = Held \ {i} /\ i \in Held /\ Held \subseteq Slots
  BY <1>2, <1>3 DEF Held, Erasing, Slots
<1>5. \A j \in Held : blob_ids[j] = id => j = i
  BY <1>2, <1>3, <1>4 DEF TableInv, Distinct
<1>6. Rows[id] # NullBlk /\ Rows'[id] = NullBlk
  BY <1>1, <1>2, <1>3, <1>4, <1>5 DEF RowsAre
<1>7. ASSUME NEW k \in Ids \ {id}
      PROVE  Rows'[k] = Rows[k]
  <2>1. CASE \E j \in Held : blob_ids[j] = k
    BY <1>1, <1>2, <1>3, <1>4, <2>1 DEF RowsAre
  <2>2. CASE ~\E j \in Held : blob_ids[j] = k
    BY <1>1, <1>3, <1>4, <2>2 DEF RowsAre
  <2> QED
    BY <2>1, <2>2
<1> QED
  BY <1>6, <1>7, OneRow DEF Map!Delete

(***************************************************************************)
(* The table with its probing, its swaps and its reaper is a map: an       *)
(* operation on one key leaves the row of every other key alone, whatever  *)
(* their homes are and however full the table is.                          *)
(***************************************************************************)
THEOREM MapCorrect == Spec => ImplementsMap
<1>1. Init => Map!Init
  <2> SUFFICES ASSUME Init PROVE Map!Init
    OBVIOUS
  <2>1. Held = {}
    BY DEF Init, Held
  <2>2. Rows = [id \in Ids |-> NullBlk]
    BY <2>1 DEF Rows
  <2> QED
    BY <2>2 DEF Map!Init
<1>2. TableInv /\ TableInv' /\ [Next]_vars => [Map!Next]_Rows
  <2> SUFFICES ASSUME TableInv, TableInv', [Next]_vars
               PROVE  Map!Next \/ Rows' = Rows
    OBVIOUS
  <2>1. ASSUME NEW id \in Ids, storage_blob_create(id)
        PROVE  Map!Next
    BY <2>1, MapInserts DEF Map!Next
  <2>2. ASSUME NEW id \in Ids, storage_blob_publish(id)
        PROVE  Map!Next
    <3>1. Map!Publish(id, now + BLOB_TTL_S) /\ now \in 0..MAX_NOW
      BY <2>2, MapPublishes
    <3>2. now + BLOB_TTL_S \in 0..(MAX_NOW + BLOB_TTL_S)
      BY <3>1, HTableConstants
    <3> QED
      BY <3>1, <3>2 DEF Map!Next
  <2>3. ASSUME NEW id \in Ids, storage_blob_get(id) \/ storage_blob_abort(id)
        PROVE  Map!Next
    <3>1. /\ ~Erasing /\ Found(id) /\ UNCHANGED rowVars
          /\ BeginErase("get", id) \/ BeginErase("abort", id)
      BY <2>3 DEF storage_blob_get, storage_blob_abort, Idle, Erasing
    <3>2. Map!Delete(id)
      BY <3>1, MapDeletes
    <3> QED
      BY <3>2 DEF Map!Next
  <2>4. CASE reaper_rip
    <3>1. /\ ~Erasing /\ Found(Head(blob_ids_invalid)) /\ UNCHANGED rowVars
          /\ BeginErase("reap", Head(blob_ids_invalid))
          /\ blob_ids_invalid # <<>>
      BY <2>4 DEF reaper_rip, Erasing
    <3>2. Head(blob_ids_invalid) \in Ids
      BY <3>1, HeadIsKey
    <3>3. Map!Delete(Head(blob_ids_invalid))
      BY <3>1, <3>2, MapDeletes
    <3> QED
      BY <3>2, <3>3 DEF Map!Next
  <2> QED
    BY <2>1, <2>2, <2>3, <2>4, MapKept DEF Next
<1> QED
  BY <1>1, <1>2, TableInvHolds, PTL DEF Spec, ImplementsMap, Map!Spec
=============================================================================
