------------------------------ MODULE Storage ------------------------------
(***************************************************************************)
(* The blob store of storage.c as its callers see it: the table as a set   *)
(* of identifiers with one row each, the bucket allocator of balloc.h as   *)
(* a set of free blocks, and the memory of the blocks.                     *)
(*                                                                         *)
(* Every operator is one storage_* function and describes its whole effect *)
(* on the storage variables; the daemon is single threaded, so each call   *)
(* is one step.  How the rows lie in the open-addressing array, and how    *)
(* erasing one moves the others, is the subject of HTable.                 *)
(***************************************************************************)
EXTENDS Integers, FiniteSets

CONSTANTS
  Ids,                        \* non-null blob identifiers
  Secrets,                    \* what an upload carries, one value per POST
  NoSecret,                   \* the content of a block nobody has written
  Blocks,                     \* block addresses of the allocator's arenas
  NoBlock,                    \* the null data pointer
  BucketOf,                   \* the bucket whose arena a block belongs to
  BLOB_ALLOC_LOG_OF_SIZE_MIN, \* log2 of the block size of bucket 0
  BLOB_SIZE_MAX,              \* the largest blob the service accepts
  HTABLE_SIZE,                \* slots of the hash table
  UINT32_MAX                  \* the largest monotonic_time_t

ASSUME StorageConstants ==
  /\ IsFiniteSet(Ids)
  /\ NoSecret \notin Secrets
  /\ NoBlock \notin Blocks
  /\ BucketOf \in [Blocks -> Nat]
  /\ BLOB_ALLOC_LOG_OF_SIZE_MIN \in Nat
  /\ BLOB_SIZE_MAX \in Nat
  /\ HTABLE_SIZE \in Nat
  /\ UINT32_MAX \in Nat \ {0, 1}

VARIABLES
  blob_ids,          \* the identifiers in the table
  blob_data,         \* the blk_t of each row (stale for absent rows)
  blob_valid_until,  \* expiry time, or one of the two sentinels
  htable_free,       \* counter of empty slots
  free_blocks,       \* blocks on the buckets' free lists
  mem                \* what the bytes of each block hold

storageVars ==
  <<blob_ids, blob_data, blob_valid_until, htable_free, free_blocks, mem>>

VALID_UNTIL_EMPTY == UINT32_MAX
VALID_UNTIL_NOT_PUBLISHED == VALID_UNTIL_EMPTY - 1

(* blk_t: an address and the size that was asked for. *)
Blk == [data : Blocks \cup {NoBlock}, size : 0..BLOB_SIZE_MAX]
NullBlk == [data |-> NoBlock, size |-> 0]

(***************************************************************************)
(* The content of a block: the upload whose bytes it holds and how many of *)
(* them, counted from offset 0.  "mixed" marks bytes of different origins. *)
(***************************************************************************)
Content == [src : Secrets \cup {NoSecret, "mixed"}, len : Nat]
Zeros == [src |-> NoSecret, len |-> 0]

(* memcpy of n bytes of upload s at offset off. *)
Written(m, s, off, n) ==
  IF m.len = off /\ (off = 0 \/ m.src = s)
  THEN [src |-> s, len |-> off + n]
  ELSE [src |-> "mixed", len |-> m.len + off + n]

(* Variant: the wipe is forgotten. *)
secure_zero_Forgotten(m, size) == m

(* secure_zero(data, size): bytes past size survive. *)
secure_zero(m, size) == IF m.len <= size THEN Zeros ELSE m

(***************************************************************************)
(* balloc.h                                                                *)
(***************************************************************************)
ilog2_u64(i) == CHOOSE k \in 0..30 : 2^k <= i /\ i < 2^(k + 1)

bindex(size) ==
  LET index == ilog2_u64(size - 1) - BLOB_ALLOC_LOG_OF_SIZE_MIN + 1
  IN  IF index < 0 THEN 0 ELSE index

(* The blocks balloc may return for size; none when the bucket is empty. *)
balloc(size) == {b \in free_blocks : BucketOf[b] = bindex(size)}

(***************************************************************************)
(* storage.c                                                               *)
(***************************************************************************)
storage_init ==
  /\ blob_ids = {}
  /\ blob_data = [id \in Ids |-> NullBlk]
  /\ blob_valid_until = [id \in Ids |-> VALID_UNTIL_EMPTY]
  /\ htable_free = HTABLE_SIZE
  /\ free_blocks = Blocks
  /\ mem = [b \in Blocks |-> Zeros]

(* Variant: an identifier counts as taken only while it is being uploaded. *)
is_already_taken_Uploading(id) ==
  id \in blob_ids /\ blob_valid_until[id] = VALID_UNTIL_NOT_PUBLISHED

storage_blob_is_already_taken(id) == id \in blob_ids

(* The blocks storage_blob_create may hand out; it fails when there is none. *)
Creatable(size) == IF htable_free = 0 THEN {} ELSE balloc(size)

storage_blob_create(id, size, b) ==
  /\ b \in Creatable(size)
  /\ blob_ids' = blob_ids \cup {id}
  /\ blob_data' = [blob_data EXCEPT ![id] = [data |-> b, size |-> size]]
  /\ blob_valid_until' =
       [blob_valid_until EXCEPT ![id] = VALID_UNTIL_NOT_PUBLISHED]
  /\ htable_free' = htable_free - 1
  /\ free_blocks' = free_blocks \ {b}

(* The row is looked up again; without one nothing happens. *)
storage_blob_publish(id, valid_until) ==
  /\ blob_valid_until' =
       IF id \in blob_ids
       THEN [blob_valid_until EXCEPT ![id] = valid_until]
       ELSE blob_valid_until
  /\ UNCHANGED <<blob_ids, blob_data, htable_free, free_blocks, mem>>

(* A row GET may take: present, and its upload has been committed. *)
Gettable(id) ==
  id \in blob_ids /\ blob_valid_until[id] # VALID_UNTIL_NOT_PUBLISHED

(* Variant: htable_free is not given back. *)
Erase_Uncounted(ids) ==
  /\ blob_ids' = blob_ids \ ids
  /\ blob_valid_until' = [id \in Ids |-> IF id \in ids THEN VALID_UNTIL_EMPTY
                                         ELSE blob_valid_until[id]]
  /\ UNCHANGED htable_free

(* Removing rows; the blk_t of a row taken by GET is left in the array. *)
Erase(ids) ==
  /\ blob_ids' = blob_ids \ ids
  /\ blob_valid_until' = [id \in Ids |-> IF id \in ids THEN VALID_UNTIL_EMPTY
                                         ELSE blob_valid_until[id]]
  /\ htable_free' = htable_free + Cardinality(blob_ids \cap ids)

(* Variant: reading does not remove the row. *)
storage_blob_get_Keeps(id) == UNCHANGED storageVars

storage_blob_get(id) ==
  /\ Erase({id})
  /\ UNCHANGED <<blob_data, free_blocks, mem>>

(* storage_blob_free for each block of a set: wipe it, then give it back. *)
storage_blob_free(blks) ==
  /\ mem' = [b \in Blocks |->
               IF \E k \in blks : k.data = b
               THEN secure_zero(mem[b],
                      (CHOOSE k \in blks : k.data = b).size)
               ELSE mem[b]]
  /\ free_blocks' = free_blocks \cup {k.data : k \in blks}

(* Aborting an upload drops its row; the caller frees the row's block. *)
storage_blob_abort(ids) ==
  /\ Erase(ids)
  /\ blob_data' = [id \in Ids |-> IF id \in ids THEN NullBlk
                                  ELSE blob_data[id]]

(* Variant: a blob is reaped in its last valid second. *)
Expired_Early(time_now) == {id \in blob_ids : blob_valid_until[id] <= time_now}

(* What the reaper gathers at time_now. *)
Expired(time_now) == {id \in blob_ids : blob_valid_until[id] < time_now}

(* Every gathered row is taken like a GET would and its block freed. *)
storage_reaper(time_now) ==
  /\ Erase(Expired(time_now))
  /\ storage_blob_free({blob_data[id] : id \in Expired(time_now)})
  /\ UNCHANGED blob_data

(* The process is about to exit: every byte of the arena is cleared. *)
storage_zero ==
  /\ blob_ids' = {}
  /\ blob_data' = [id \in Ids |-> NullBlk]
  /\ blob_valid_until' = [id \in Ids |-> 0]
  /\ free_blocks' = {}
  /\ mem' = [b \in Blocks |-> Zeros]
  /\ UNCHANGED htable_free
=============================================================================
