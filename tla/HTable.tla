------------------------------- MODULE HTable -------------------------------
(***************************************************************************)
(* The open-addressing table of storage.c and linear_probing.h, slot by    *)
(* slot: three parallel arrays, probing from a home slot, and a removal    *)
(* that closes the gap by moving later rows back one at a time.            *)
(*                                                                         *)
(* The loop of lp_erase and the reaper's loop over the identifiers it has  *)
(* gathered take one step per iteration; everything else is one step.  The *)
(* daemon is single threaded, so no call begins before the last has ended. *)
(***************************************************************************)
EXTENDS Integers, Sequences, FiniteSets

CONSTANTS
  Ids,          \* non-null keys
  NullKey,
  NullBlk,
  htable_size,
  BLOB_TTL_S,
  UINT32_MAX,
  MAX_NOW       \* bound: the clock

ASSUME HTableConstants ==
  /\ IsFiniteSet(Ids)
  /\ NullKey \notin Ids
  /\ NullBlk \notin Ids \cup [data : Ids, until : 0..UINT32_MAX]
  /\ htable_size \in Nat \ {0}
  /\ BLOB_TTL_S \in Nat
  /\ MAX_NOW \in Nat
  /\ UINT32_MAX \in Nat
  /\ MAX_NOW + BLOB_TTL_S < UINT32_MAX - 1

VARIABLES
  home,              \* htable_hash(id) & mask; any function will do
  blob_ids,          \* slot -> key
  blob_data,         \* slot -> block; the block of an id is named by the id
  blob_valid_until,  \* slot -> expiry
  htable_free,
  blob_ids_invalid,  \* what the reaper still has to remove
  call,              \* the removal in progress
  now

rowVars == <<blob_ids, blob_data, blob_valid_until>>
vars == <<home, rowVars, htable_free, blob_ids_invalid, call, now>>

Slots == 0..(htable_size - 1)
VALID_UNTIL_EMPTY == UINT32_MAX
VALID_UNTIL_NOT_PUBLISHED == VALID_UNTIL_EMPTY - 1

(* No removal is in progress. *)
NoCall == [op |-> "none", id |-> NullKey, ret |-> NullBlk,
           start |-> 0, hole |-> 0, next |-> 0]

Init ==
  /\ home \in [Ids -> Slots]
  /\ blob_ids = [i \in Slots |-> NullKey]
  /\ blob_data = [i \in Slots |-> NullBlk]
  /\ blob_valid_until = [i \in Slots |-> VALID_UNTIL_EMPTY]
  /\ htable_free = htable_size
  /\ blob_ids_invalid = <<>>
  /\ call = NoCall
  /\ now = 0

(***************************************************************************)
(* linear_probing.h.  (i + n) & mask and (i - h) & mask, for slots i and h *)
(* and 0 <= n <= htable_size.                                              *)
(***************************************************************************)
Step(i, n) == IF i + n < htable_size THEN i + n ELSE i + n - htable_size
Dist(h, i) == IF h <= i THEN i - h ELSE i - h + htable_size

(* How far a probe for id may go before it meets one of the keys. *)
Stops(id, keys) == {n \in Slots : blob_ids[Step(home[id], n)] \in keys}
First(S) == CHOOSE n \in S : \A m \in S : n <= m

(* htable_size stands for "not found". *)
lp_lookup(id) ==
  LET stops == Stops(id, {NullKey, id})
      i == Step(home[id], First(stops))
  IN  IF stops = {} \/ blob_ids[i] = NullKey THEN htable_size ELSE i

lp_find_free_slot(id) == Step(home[id], First(Stops(id, {NullKey})))

Found(id) == lp_lookup(id) # htable_size

(***************************************************************************)
(* storage.c                                                               *)
(***************************************************************************)
Idle == call.op = "none" /\ blob_ids_invalid = <<>>

(* The caller has found id not taken, and a block is available. *)
storage_blob_create(id) ==
  /\ Idle
  /\ ~Found(id)
  /\ htable_free # 0
  /\ LET i == lp_find_free_slot(id) IN
       /\ blob_ids' = [blob_ids EXCEPT ![i] = id]
       /\ blob_data' = [blob_data EXCEPT ![i] = id]
       /\ blob_valid_until' =
            [blob_valid_until EXCEPT ![i] = VALID_UNTIL_NOT_PUBLISHED]
  /\ htable_free' = htable_free - 1
  /\ UNCHANGED <<home, blob_ids_invalid, call, now>>

Published(i) == blob_valid_until[i] # VALID_UNTIL_NOT_PUBLISHED

(* The caller publishes its own upload, once. *)
storage_blob_publish(id) ==
  /\ Idle
  /\ Found(id)
  /\ ~Published(lp_lookup(id))
  /\ blob_valid_until' =
       [blob_valid_until EXCEPT ![lp_lookup(id)] = now + BLOB_TTL_S]
  /\ UNCHANGED <<home, blob_ids, blob_data, htable_free, blob_ids_invalid,
                 call, now>>

(* Finding the row to remove; lp_erase then begins at its slot. *)
BeginErase(op, id) ==
  LET i == lp_lookup(id) IN
  call' = [op |-> op, id |-> id, ret |-> blob_data[i],
           start |-> i, hole |-> i, next |-> i]

storage_blob_get(id) ==
  /\ Idle
  /\ Found(id)
  /\ Published(lp_lookup(id))
  /\ BeginErase("get", id)
  /\ UNCHANGED <<home, rowVars, htable_free, blob_ids_invalid, now>>

(* Only the upload that created the row aborts it, before publishing: the   *)
(* caller keeps to that and storage.c does not ask (UploadOwnsRow of        *)
(* Server).                                                                 *)
storage_blob_abort(id) ==
  /\ Idle
  /\ Found(id)
  /\ ~Published(lp_lookup(id))
  /\ BeginErase("abort", id)
  /\ UNCHANGED <<home, rowVars, htable_free, blob_ids_invalid, now>>

(* Variant: the blocks are not swapped with their keys. *)
htable_swap_NoData(a, b) ==
  /\ blob_ids' = [blob_ids EXCEPT ![a] = blob_ids[b], ![b] = blob_ids[a]]
  /\ blob_valid_until' = [blob_valid_until EXCEPT ![a] = blob_valid_until[b],
                                                  ![b] = blob_valid_until[a]]
  /\ UNCHANGED blob_data

htable_swap(a, b) ==
  /\ blob_ids' = [blob_ids EXCEPT ![a] = blob_ids[b], ![b] = blob_ids[a]]
  /\ blob_data' = [blob_data EXCEPT ![a] = blob_data[b], ![b] = blob_data[a]]
  /\ blob_valid_until' = [blob_valid_until EXCEPT ![a] = blob_valid_until[b],
                                                  ![b] = blob_valid_until[a]]

NextSlot == Step(call.next, 1)

(* Variant: only an empty slot ends the loop. *)
EraseEnds_AtNull == blob_ids[NextSlot] = NullKey

EraseEnds == blob_ids[NextSlot] = NullKey \/ NextSlot = call.start

(* Variants: every row is moved, none is, or the comparison does not wrap. *)
MovesBack_Any(i) == TRUE
MovesBack_Never(i) == FALSE
MovesBack_Unwrapped(i) == home[blob_ids[i]] <= call.hole /\ call.hole < i

(* The row in slot i may move into the hole: the hole is on its probe path. *)
MovesBack(i) ==
  Dist(home[blob_ids[i]], call.hole) < Dist(home[blob_ids[i]], i)

(* One iteration of the loop of lp_erase. *)
lp_erase_step ==
  /\ call.op # "none"
  /\ ~EraseEnds
  /\ IF MovesBack(NextSlot)
     THEN /\ htable_swap(call.hole, NextSlot)
          /\ call' = [call EXCEPT !.hole = NextSlot, !.next = NextSlot]
     ELSE call' = [call EXCEPT !.next = NextSlot] /\ UNCHANGED rowVars
  /\ UNCHANGED <<home, htable_free, blob_ids_invalid, now>>

(* Variant: the caller clears the row where it found it, not the one         *)
(* htable_erase_slot returned.                                               *)
ClearedSlot_Start == call.start

ClearedSlot == call.hole

(* The loop is over: the hole is cleared, and its row by the caller.  GET   *)
(* leaves the block in the row; the reaper frees what GET returned.         *)
lp_erase_end ==
  /\ call.op # "none"
  /\ EraseEnds
  /\ blob_ids' = [blob_ids EXCEPT ![call.hole] = NullKey]
  /\ blob_valid_until' =
       [blob_valid_until EXCEPT ![ClearedSlot] = VALID_UNTIL_EMPTY]
  /\ blob_data' = IF call.op = "abort"
                  THEN [blob_data EXCEPT ![ClearedSlot] = NullBlk]
                  ELSE blob_data
  /\ htable_free' = htable_free + 1
  /\ blob_ids_invalid' = IF call.op = "reap" THEN Tail(blob_ids_invalid)
                         ELSE blob_ids_invalid
  /\ call' = NoCall
  /\ UNCHANGED <<home, now>>

(* storage_reaper: all expired identifiers are gathered, in slot order...   *)
Expired(i) == blob_valid_until[i] < now
reaper_gather ==
  /\ Idle
  /\ \E i \in Slots : Expired(i)
  /\ LET expired == {i \in Slots : Expired(i)}
         n == Cardinality(expired)
     IN  \E slot \in [1..n -> expired] :
           /\ \A a, b \in 1..n : a < b => slot[a] < slot[b]
           /\ blob_ids_invalid' = [k \in 1..n |-> blob_ids[slot[k]]]
  /\ UNCHANGED <<home, rowVars, htable_free, call, now>>

(* ... and then removed one by one, each looked up again. *)
reaper_rip ==
  /\ call.op = "none"
  /\ blob_ids_invalid # <<>>
  /\ Found(Head(blob_ids_invalid))
  /\ Published(lp_lookup(Head(blob_ids_invalid)))
  /\ BeginErase("reap", Head(blob_ids_invalid))
  /\ UNCHANGED <<home, rowVars, htable_free, blob_ids_invalid, now>>

Tick ==
  /\ now < MAX_NOW
  /\ now' = now + 1
  /\ UNCHANGED <<home, rowVars, htable_free, blob_ids_invalid, call>>

Next ==
  \/ \E id \in Ids : \/ storage_blob_create(id) \/ storage_blob_publish(id)
                     \/ storage_blob_get(id) \/ storage_blob_abort(id)
  \/ lp_erase_step \/ lp_erase_end \/ reaper_gather \/ reaper_rip \/ Tick

Spec == Init /\ [][Next]_vars

-----------------------------------------------------------------------------
TypeOK ==
  /\ home \in [Ids -> Slots]
  /\ blob_ids \in [Slots -> Ids \cup {NullKey}]
  /\ blob_data \in [Slots -> Ids \cup {NullBlk}]
  /\ blob_valid_until \in [Slots -> 0..UINT32_MAX]
  /\ htable_free \in 0..htable_size
  /\ blob_ids_invalid \in Seq(Ids)
  /\ call \in [op : {"none", "get", "abort", "reap"}, id : Ids \cup {NullKey},
               ret : Ids \cup {NullBlk}, start : Slots, hole : Slots,
               next : Slots]
  /\ now \in 0..MAX_NOW

(* The slots that hold a row, without the one being removed. *)
Held == {i \in Slots : blob_ids[i] # NullKey
                       /\ ~(call.op # "none" /\ i = call.hole)}

(* Between calls every key is found where it is: its probe path has no gap, *)
(* whatever was removed before and however the homes collide.               *)
AllReachable ==
  call.op = "none" => \A i \in Held : lp_lookup(blob_ids[i]) = i

(* While the gap is being closed the loop has not stranded a row it has    *)
(* passed: the hole is on no probe path of theirs.  The row under removal   *)
(* stays in the hole.                                                       *)
OnPath(j, i) == Dist(home[blob_ids[i]], j) < Dist(home[blob_ids[i]], i)
LoopKeepsPaths ==
  call.op # "none" =>
    /\ blob_ids[call.hole] = call.id
    /\ \A i \in Held :
         /\ \A j \in Slots : OnPath(j, i) => blob_ids[j] # NullKey
         /\ OnPath(call.hole, i) =>
              Dist(call.start, i) > Dist(call.start, call.next)

(* An empty slot never looks expired, so the reaper gathers no null key,    *)
(* and the counter that guards insertion is exact.                          *)
EmptySlots ==
  call.op = "none" =>
    /\ \A i \in Slots :
         blob_ids[i] = NullKey <=> blob_valid_until[i] = VALID_UNTIL_EMPTY
    /\ htable_free = Cardinality({i \in Slots : blob_ids[i] = NullKey})

(* Whatever rows have moved since it was gathered, each identifier on the   *)
(* reaper's list is found, published, and gives back its own block: the     *)
(* unreachable() of the reaper's loop is never reached.                     *)
ReaperFinds ==
  /\ \A n \in 1..Len(blob_ids_invalid) :
       call.op = "none" => /\ Found(blob_ids_invalid[n])
                           /\ Published(lp_lookup(blob_ids_invalid[n]))
  /\ call.op # "none" => call.ret = call.id

(* The table implements the map; a removal takes effect when it begins. *)
Row(i) == [data |-> blob_data[i], until |-> blob_valid_until[i]]
Rows == [id \in Ids |-> IF \E i \in Held : blob_ids[i] = id
                        THEN Row(CHOOSE i \in Held : blob_ids[i] = id)
                        ELSE NullBlk]
Map == INSTANCE KeyMap WITH
  Absent <- NullBlk,
  Unpublished <- VALID_UNTIL_NOT_PUBLISHED,
  Untils <- 0..(MAX_NOW + BLOB_TTL_S),
  map <- Rows
ImplementsMap == Map!Spec

(* Every removal ends, a full table included, and so does the reaper: the   *)
(* loop of lp_erase only moves away from where it started, which it can do  *)
(* htable_size - 1 times, and the reaper's list only ever gets shorter      *)
(* until it is empty.                                                       *)
CallsAdvance ==
  [][/\ call.op # "none" =>
          \/ call' \in {call, NoCall}
          \/ Dist(call.start, call.next) < Dist(call.start, call'.next)
     /\ blob_ids_invalid # <<>> =>
          blob_ids_invalid' \in {blob_ids_invalid, Tail(blob_ids_invalid)}]_vars
=============================================================================
