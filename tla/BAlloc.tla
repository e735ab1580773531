------------------------------- MODULE BAlloc -------------------------------
(***************************************************************************)
(* The bucket allocator of balloc.h, with its arenas laid out in memory.   *)
(* An address is an offset into the memory given to binit.  The free list  *)
(* of a bucket runs through the first word of its free items, the same     *)
(* bytes in which a secret lies while the item is in use, so that what its *)
(* holder does decides whether the list survives.                          *)
(***************************************************************************)
EXTENDS Integers, FiniteSets

CONSTANTS
  BLOB_ALLOC_LOG_OF_SIZE_MIN, \* log2 of the item size of bucket 0
  BLOB_LOG_OF_SIZE_MAX,       \* log2 of the item size of the last bucket
  BUCKET_T_SIZE,              \* sizeof(bucket_t)
  WIDTH,                      \* bits of bindex_t
  Sizes,                      \* the sizes that are asked for
  HELD_MAX                    \* bound: blocks of each bucket held at once

ASSUME BAllocConstants ==
  /\ BLOB_ALLOC_LOG_OF_SIZE_MIN \in Nat
  /\ BLOB_LOG_OF_SIZE_MAX \in 0..30 \* 1 << k is an int
  /\ BLOB_ALLOC_LOG_OF_SIZE_MIN <= BLOB_LOG_OF_SIZE_MAX
  /\ BLOB_ALLOC_LOG_OF_SIZE_MIN + BLOB_LOG_OF_SIZE_MAX < 32
       \* count * item_size is an unsigned
  /\ BUCKET_T_SIZE \in Nat \ {0}
  /\ WIDTH \in Nat \ {0}
  /\ BLOB_LOG_OF_SIZE_MAX < 2^(WIDTH - 1)
  /\ Sizes \subseteq 2..2^BLOB_LOG_OF_SIZE_MAX
  /\ HELD_MAX \in
       [0..(BLOB_LOG_OF_SIZE_MAX - BLOB_ALLOC_LOG_OF_SIZE_MIN) -> Nat]

VARIABLES
  next_free, \* first item of each bucket's list
  free,      \* how many items the bucket counts as free
  word,      \* the first word of each item
  held,      \* the blk_t that callers of balloc have
  last       \* history: the size the latest call asked for, its success

vars == <<next_free, free, word, held, last>>

BUCKETS_COUNT == BLOB_LOG_OF_SIZE_MAX - BLOB_ALLOC_LOG_OF_SIZE_MIN + 1
Buckets == 0..(BUCKETS_COUNT - 1)

(* A word of zero bytes, which is the null pointer, and one of a secret. *)
NULL == -1
SECRET == -2

NoCall == [size |-> 0, ok |-> TRUE]

bbucket_capacity(i) == 2^(BLOB_LOG_OF_SIZE_MAX - i)
bbucket_item_size_max(i) == 2^(BLOB_ALLOC_LOG_OF_SIZE_MIN + i)

(* ptr at the start of iteration i of binit: the arenas lie end to end. *)
ArenaStart[i \in 0..BUCKETS_COUNT] ==
  IF i = 0 THEN 0
  ELSE ArenaStart[i - 1]
         + bbucket_capacity(i - 1) * bbucket_item_size_max(i - 1)

buckets_data_size == BUCKET_T_SIZE * BUCKETS_COUNT
bfootprint == buckets_data_size + ArenaStart[BUCKETS_COUNT]

(* The array of bucket_t at the end of the memory. *)
buckets == bfootprint - buckets_data_size

ItemsOf(i) ==
  {ArenaStart[i] + k * bbucket_item_size_max(i) :
     k \in 0..(bbucket_capacity(i) - 1)}

Items == UNION {ItemsOf(i) : i \in Buckets}
BucketOf == [a \in Items |-> CHOOSE i \in Buckets : a \in ItemsOf(i)]

(* Each item points to the one before it; the list begins at the last. *)
binit ==
  /\ next_free = [i \in Buckets |->
       ArenaStart[i] + (bbucket_capacity(i) - 1) * bbucket_item_size_max(i)]
  /\ free = [i \in Buckets |-> bbucket_capacity(i)]
  /\ word = [a \in Items |->
       IF a = ArenaStart[BucketOf[a]] THEN NULL
       ELSE a - bbucket_item_size_max(BucketOf[a])]

ilog2_u64(i) == CHOOSE k \in 0..30 : 2^k <= i /\ i < 2^(k + 1)

(* Variant: ilog2_u64(size), which sends a power of two one bucket up. *)
bindex_Up(size) ==
  LET index == (ilog2_u64(size) - BLOB_ALLOC_LOG_OF_SIZE_MIN + 1) % 2^WIDTH
      is_negative == index \div 2^(WIDTH - 1)
  IN  IF is_negative = 1 THEN 0
      ELSE IF index >= BUCKETS_COUNT THEN BUCKETS_COUNT - 1 ELSE index

(* Variant: without the + 1, a size is sent one bucket down. *)
bindex_Down(size) ==
  LET index == (ilog2_u64(size - 1) - BLOB_ALLOC_LOG_OF_SIZE_MIN) % 2^WIDTH
      is_negative == index \div 2^(WIDTH - 1)
  IN  IF is_negative = 1 THEN 0 ELSE index

(* The mask is 0 for an index that wrapped below 0, else all ones. *)
bindex(size) ==
  LET index == (ilog2_u64(size - 1) - BLOB_ALLOC_LOG_OF_SIZE_MIN + 1)
                 % 2^WIDTH
      is_negative == index \div 2^(WIDTH - 1)
      mask == (is_negative - 1) % 2^WIDTH
  IN  IF mask = 0 THEN 0 ELSE index

(* Variant: refuses while one item is left. *)
balloc_Reserve(size) ==
  LET i == bindex(size)
      ret == [data |-> next_free[i], size |-> size]
  IN  IF free[i] > 1
      THEN /\ next_free' = [next_free EXCEPT ![i] = word[ret.data]]
           /\ free' = [free EXCEPT ![i] = @ - 1]
           /\ held' = held \cup {ret}
           /\ last' = [size |-> size, ok |-> TRUE]
           /\ UNCHANGED word
      ELSE /\ last' = [size |-> size, ok |-> FALSE]
           /\ UNCHANGED <<next_free, free, word, held>>

(* The head of the list; its word is read as the pointer to the next. *)
balloc(size) ==
  LET i == bindex(size)
      ret == [data |-> next_free[i], size |-> size]
  IN  IF free[i] # 0
      THEN /\ next_free' = [next_free EXCEPT ![i] = word[ret.data]]
           /\ free' = [free EXCEPT ![i] = @ - 1]
           /\ held' = held \cup {ret}
           /\ last' = [size |-> size, ok |-> TRUE]
           /\ UNCHANGED word
      ELSE /\ last' = [size |-> size, ok |-> FALSE]
           /\ UNCHANGED <<next_free, free, word, held>>

(* The holder writes the first bytes of a secret into its block. *)
Write(blk) ==
  /\ blk \in held
  /\ word' = [word EXCEPT ![blk.data] = SECRET]
  /\ UNCHANGED <<next_free, free, held, last>>

(* The whole effect of bfree, given what the words hold before it. *)
bfree(blk, w) ==
  LET i == bindex(blk.size)
  IN  /\ word' = [w EXCEPT ![blk.data] = next_free[i]]
      /\ next_free' = [next_free EXCEPT ![i] = blk.data]
      /\ free' = [free EXCEPT ![i] = @ + 1]
      /\ held' = held \ {blk}
      /\ last' = NoCall

secure_zero(w, blk) == [w EXCEPT ![blk.data] = NULL]

(* Variant: bfree first, so that the wipe takes the pointer with it. *)
storage_blob_free_Late(blk) ==
  LET i == bindex(blk.size)
  IN  /\ blk \in held
      /\ word' = secure_zero([word EXCEPT ![blk.data] = next_free[i]], blk)
      /\ next_free' = [next_free EXCEPT ![i] = blk.data]
      /\ free' = [free EXCEPT ![i] = @ + 1]
      /\ held' = held \ {blk}
      /\ last' = NoCall

(* The only caller of bfree: wipe, then give back. *)
storage_blob_free(blk) ==
  /\ blk \in held
  /\ bfree(blk, secure_zero(word, blk))

Init ==
  /\ binit
  /\ held = {}
  /\ last = NoCall

Next ==
  \/ \E size \in Sizes :
       /\ Cardinality({blk \in held : bindex(blk.size) = bindex(size)})
            < HELD_MAX[bindex(size)]
       /\ balloc(size)
  \/ \E blk \in held : Write(blk) \/ storage_blob_free(blk)

Spec == Init /\ [][Next]_vars

-----------------------------------------------------------------------------
TypeOK ==
  /\ next_free \in [Buckets -> Items \cup {NULL}]
  /\ free \in [Buckets -> Nat]
  /\ word \in [Items -> Items \cup {NULL, SECRET}]
  /\ held \subseteq [data : Items, size : Sizes]
  /\ last \in [size : Sizes \cup {0}, ok : BOOLEAN]

(* The n-th node of bucket i's list, counted from 0. *)
Node(i) ==
  LET node[n \in Nat] ==
        IF n = 0 THEN next_free[i]
        ELSE IF node[n - 1] \in Items THEN word[node[n - 1]] ELSE NULL
  IN  node

Listed(i) == {Node(i)[n] : n \in 0..(free[i] - 1)}

(***************************************************************************)
(* The counter that balloc tests and the list that it follows agree: the   *)
(* list of a bucket has exactly as many nodes as the bucket counts free,   *)
(* they are items of its own arena that nobody holds, and every item of    *)
(* the arena is in the list or held.  It fails if a holder's bytes are     *)
(* followed as a pointer, or a block is returned to another bucket.        *)
(***************************************************************************)
ListsIntact ==
  \A i \in Buckets :
    /\ Node(i)[free[i]] = NULL
    /\ Listed(i) = ItemsOf(i) \ {blk.data : blk \in held}
    /\ Cardinality(Listed(i)) = free[i]

(* The bytes a holder may write. *)
Bytes(blk) == blk.data..(blk.data + blk.size - 1)

(***************************************************************************)
(* No byte belongs to two holders, to a holder and a free item's pointer,  *)
(* or to a holder and the bucket_t array behind the arenas, though balloc  *)
(* looks only at the size asked for and the bucket's list.                 *)
(***************************************************************************)
HeldApart ==
  \A blk \in held :
    /\ \A b \in Bytes(blk) : 0 <= b /\ b < buckets
    /\ \A other \in held \ {blk} : Bytes(blk) \cap Bytes(other) = {}
    /\ Bytes(blk) \cap (Items \ {o.data : o \in held}) = {}

(* The class of a request is the smallest bucket whose items hold it. *)
SmallestFit(size) ==
  CHOOSE i \in Buckets :
    /\ size <= bbucket_item_size_max(i)
    /\ \A j \in Buckets : size <= bbucket_item_size_max(j) => i <= j

P == INSTANCE Pool WITH
       ClassOf <- BucketOf,
       available <- Items \ {blk.data : blk \in held},
       last <- [asked |-> IF last.size = 0 THEN 0 ELSE SmallestFit(last.size),
                ok |-> last.ok]

(***************************************************************************)
(* The linked lists implement the set of free blocks of Storage: a block   *)
(* is handed out once, of the right size, and a request is denied only     *)
(* when its bucket has nothing left.                                       *)
(***************************************************************************)
ImplementsPool == P!Spec
=============================================================================
