---------------------------- MODULE ServerProofs ----------------------------
(***************************************************************************)
(* Proofs about Server, for every set of connections, identifiers, secrets *)
(* and blocks.  TypeOK is not inductive by itself: that the reaper and     *)
(* req_done put nothing but blocks on the free list depends on what rows   *)
(* and contexts own, so it is proved together with Owned.                  *)
(***************************************************************************)
EXTENDS Server, FiniteSetTheorems, TLAPS

IInv == TypeOK /\ Owned

USE DEF Goto

(* The initial store is empty and every block is free. *)
LEMMA InitIInv == Init => IInv
<1> SUFFICES ASSUME Init PROVE IInv
  OBVIOUS
<1> USE StorageConstants, ServerConstants
<1>1. TypeOK
  BY DEF TypeOK, Init, storage_init, Blk, NullBlk, Content, Zeros, Ctx,
         NullCtx, VALID_UNTIL_EMPTY
<1>2. Owned
  BY DEF Owned, RowsOwned, LentOwned, UploadsOwned, RowsUploaded, NoLeak,
         Roles, Senders, Uploaders, Init, storage_init, NullCtx, NullBlk
<1> QED
  BY <1>1, <1>2 DEF IInv

(* Rows are counted by integers because there are finitely many of them. *)
LEMMA EraseType ==
  ASSUME TypeOK, NEW ids, Erase(ids)
  PROVE  /\ blob_ids' \subseteq Ids
         /\ blob_valid_until' \in [Ids -> 0..UINT32_MAX]
         /\ htable_free' \in Int
<1>1. IsFiniteSet(blob_ids \cap ids)
  BY StorageConstants, FS_Subset DEF TypeOK
<1>2. Cardinality(blob_ids \cap ids) \in Nat
  BY <1>1, FS_CardinalityType
<1> QED
  BY <1>2, StorageConstants DEF TypeOK, Erase, VALID_UNTIL_EMPTY

(* Freeing blocks that are blocks keeps the allocator well formed. *)
LEMMA FreeType ==
  ASSUME TypeOK, NEW blks, storage_blob_free(blks),
         \A k \in blks : k.data \in Blocks
  PROVE  /\ mem' \in [Blocks -> Content]
         /\ free_blocks' \subseteq Blocks
<1>1. \A m \in Content : \A n : secure_zero(m, n) \in Content
  BY StorageConstants DEF secure_zero, Zeros, Content
<1>2. free_blocks' \subseteq Blocks
  BY DEF TypeOK, storage_blob_free
<1>3. mem' \in [Blocks -> Content]
  BY <1>1 DEF TypeOK, storage_blob_free
<1> QED
  BY <1>2, <1>3

(* Assigning fields of a context keeps it a context. *)
LEMMA CtxUpdate ==
  ASSUME NEW x \in Ctx
  PROVE  /\ \A id \in Ids \cup {NoId} : [x EXCEPT !.id = id] \in Ctx
         /\ \A b \in Blk : [x EXCEPT !.post_body = b] \in Ctx
         /\ \A b \in Blk : [x EXCEPT !.blob_send = b] \in Ctx
  BY DEF Ctx

(* A context whose error is sent at the end of the body. *)
LEMMA CtxDefer ==
  ASSUME NEW x \in Ctx, NEW id \in Ids \cup {NoId},
         NEW m \in 0..BLOB_SIZE_MAX, NEW e \in {"OOM", "DUP"}
  PROVE  [x EXCEPT !.id = id, !.expected = m, !.deferred_error = e] \in Ctx
  BY DEF Ctx

(* A context that receives a body. *)
LEMMA CtxReceive ==
  ASSUME NEW x \in Ctx, NEW id \in Ids \cup {NoId}, NEW b \in Blk,
         NEW m \in 0..BLOB_SIZE_MAX, NEW n \in 0..BLOB_SIZE_MAX
  PROVE  [x EXCEPT !.id = id, !.expected = m, !.post_body = b, !.read = n]
           \in Ctx
  BY DEF Ctx

(* One context is replaced by another. *)
LEMMA CtxAt ==
  ASSUME TypeOK, NEW c \in Conns, NEW x \in Ctx, ctx' = [ctx EXCEPT ![c] = x]
  PROVE  ctx' \in [Conns -> Ctx]
  BY DEF TypeOK

(* The fields of a request; only POST carries a secret. *)
LEMMA RequestType ==
  ASSUME NEW r \in Requests \cup {NoReq}
  PROVE  /\ r.clen \in Int
         /\ r.id \in Ids \cup {NoId}
         /\ r.secret \in Secrets \cup {NoSecret}
         /\ r.kind \in {"get", "post"} => r.id \in Ids
  BY ServerConstants DEF Requests, NoReq, GetReq, PostReq, OtherReq

(* The length of an accepted upload is a legal block size. *)
LEMMA ExpectedType ==
  ASSUME TypeOK, NEW c \in Conns, LengthOk(Expected(c))
  PROVE  Expected(c) \in 1..BLOB_SIZE_MAX
<1>1. ctx[c].expected \in Int
  BY StorageConstants DEF TypeOK, Ctx
<1>2. req[c].clen \in Int
  BY RequestType DEF TypeOK
<1>3. Expected(c) \in Int
  BY <1>1, <1>2 DEF Expected
<1> QED
  BY <1>3, StorageConstants, ServerConstants DEF LengthOk

(* A chunk of a body is copied within the block. *)
LEMMA ReceiveType ==
  ASSUME TypeOK, NEW c \in Conns, NEW n \in 1..MAX_CHUNK, Receiving(c),
         NEW blk \in Blk, blk.data \in Blocks, Receive(c, n, blk)
  PROVE  /\ ctx' \in [Conns -> Ctx]
         /\ mem' \in [Blocks -> Content]
         /\ phase' \in [Conns -> {"idle", "headers", "body", "full", "reply",
                                  "closing"}]
<1>1. Expected(c) \in 1..BLOB_SIZE_MAX /\ Expected(c) \in 0..BLOB_SIZE_MAX
  BY ExpectedType DEF Receiving
<1>2. /\ req[c].id \in Ids \cup {NoId}
      /\ req[c].secret \in Secrets \cup {NoSecret}
  BY RequestType DEF TypeOK
<1>3. ctx[c].read \in Nat /\ n \in Nat
  BY StorageConstants, ServerConstants DEF TypeOK, Ctx
<1>4. \A m \in Content : Written(m, req[c].secret, ctx[c].read, n) \in Content
  BY <1>2, <1>3 DEF Written, Content
<1>5. ~Overflows(c, n) => ctx[c].read + n \in 0..BLOB_SIZE_MAX
  BY <1>1, <1>3, StorageConstants DEF Overflows
<1>6. ctx' \in [Conns -> Ctx]
  <2> DEFINE read == ctx[c].read + (IF Overflows(c, n) THEN 0 ELSE n)
  <2>1. read \in 0..BLOB_SIZE_MAX
    BY <1>3, <1>5 DEF TypeOK, Ctx
  <2> DEFINE x == [ctx[c] EXCEPT !.id = req[c].id, !.expected = Expected(c),
                                 !.post_body = blk, !.read = read]
  <2>2. ctx' = [ctx EXCEPT ![c] = x]
    BY DEF Receive
  <2> HIDE DEF read
  <2>3. x \in Ctx
    <3>1. ctx[c] \in Ctx
      BY DEF TypeOK
    <3> QED
      BY <1>1, <1>2, <2>1, <3>1, CtxReceive
  <2> HIDE DEF x
  <2> QED
    BY <2>2, <2>3, CtxAt
<1>7. mem' \in [Blocks -> Content]
  BY <1>4 DEF TypeOK, Receive
<1>8. phase' \in [Conns -> {"idle", "headers", "body", "full", "reply",
                            "closing"}]
  BY DEF TypeOK, Receive
<1> QED
  BY <1>6, <1>7, <1>8

(* Every step keeps the types; Owned is needed where blocks are freed. *)
LEMMA TypeStep ==
  ASSUME TypeOK, Owned, Next
  PROVE  TypeOK'
<1> USE StorageConstants, ServerConstants
<1>1. ASSUME NEW c \in Conns, NEW r \in Requests, Accept(c, r)
      PROVE  TypeOK'
  BY <1>1 DEF TypeOK, Accept, storageVars
<1>2. ASSUME NEW c \in Conns, BodyEnd(c) \/ Drop(c)
      PROVE  TypeOK'
  BY <1>2 DEF TypeOK, BodyEnd, Drop, storageVars
<1>3. ASSUME NEW c \in Conns, Sent(c)
      PROVE  TypeOK'
  BY <1>3 DEF TypeOK, Sent, Record, storageVars
<1>4. ASSUME NEW c \in Conns, ahc_first(c)
      PROVE  TypeOK'
  <2>1. NullCtx \in Ctx
    BY DEF NullCtx, Ctx, NullBlk, Blk
  <2> QED
    BY <1>4, <2>1 DEF TypeOK, ahc_first, ctxa_alloc, send_response,
                      storageVars
<1>5. ASSUME NEW c \in Conns, ahc_other(c) \/ ahc_get_not_found(c)
      PROVE  TypeOK'
  BY <1>5 DEF TypeOK, ahc_other, ahc_get_not_found, send_response, storageVars
<1>6. ASSUME NEW c \in Conns, ahc_get(c)
      PROVE  TypeOK'
  <2>1. req[c].id \in Ids /\ blob_data[req[c].id] \in Blk
    BY <1>6 DEF TypeOK, ahc_get, Gettable
  <2>2. ctx' \in [Conns -> Ctx]
    <3> DEFINE x == [ctx[c] EXCEPT !.blob_send = blob_data[req[c].id]]
    <3>1. x \in Ctx
      BY <2>1, CtxUpdate DEF TypeOK
    <3>2. ctx' = [ctx EXCEPT ![c] = x]
      BY <1>6 DEF ahc_get
    <3> HIDE DEF x
    <3> QED
      BY <3>1, <3>2, CtxAt
  <2>3. /\ blob_ids' \subseteq Ids
        /\ blob_valid_until' \in [Ids -> 0..UINT32_MAX]
        /\ htable_free' \in Int
    BY <1>6, EraseType DEF ahc_get, storage_blob_get
  <2>4. phase' \in [Conns -> {"idle", "headers", "body", "full", "reply",
                              "closing"}]
    BY <1>6 DEF TypeOK, ahc_get, send_response
  <2> QED
    BY <1>6, <2>2, <2>3, <2>4 DEF TypeOK, ahc_get, storage_blob_get, Record
<1>7. ASSUME NEW c \in Conns, ahc_post_skip(c)
      PROVE  TypeOK'
  BY <1>7 DEF TypeOK, ahc_post_skip, vars, storageVars, serverVars
<1>8. ASSUME NEW c \in Conns, ahc_post_bad_length(c) \/ ahc_post_refuse(c)
      PROVE  TypeOK'
  <2>1. req[c].id \in Ids \cup {NoId}
    BY RequestType DEF TypeOK
  <2>2. ctx' \in [Conns -> Ctx]
    <3> DEFINE x == [ctx[c] EXCEPT !.id = req[c].id]
    <3>1. x \in Ctx
      BY <2>1, CtxUpdate DEF TypeOK
    <3>2. ctx' = [ctx EXCEPT ![c] = x]
      BY <1>8 DEF ahc_post_bad_length, ahc_post_refuse
    <3> HIDE DEF x
    <3> QED
      BY <3>1, <3>2, CtxAt
  <2> QED
    BY <1>8, <2>2 DEF TypeOK, ahc_post_bad_length, ahc_post_refuse,
                      send_response, storageVars
<1>9. ASSUME NEW c \in Conns, ahc_post_duplicate(c) \/ ahc_post_oom(c)
      PROVE  TypeOK'
  <2>1. Expected(c) \in 1..BLOB_SIZE_MAX
    BY <1>9, ExpectedType DEF ahc_post_duplicate, ahc_post_oom, Receiving
  <2>2. req[c].id \in Ids \cup {NoId}
    BY RequestType DEF TypeOK
  <2>3. ctx' \in [Conns -> Ctx]
    <3>1. PICK e \in {"OOM", "DUP"} : Defer(c, e)
      BY <1>9 DEF ahc_post_duplicate, ahc_post_oom
    <3> DEFINE x == [ctx[c] EXCEPT !.id = req[c].id, !.expected = Expected(c),
                                   !.deferred_error = e]
    <3>2. x \in Ctx
      <4>1. ctx[c] \in Ctx /\ Expected(c) \in 0..BLOB_SIZE_MAX
        BY <2>1 DEF TypeOK
      <4> QED
        BY <2>2, <4>1, CtxDefer
    <3>3. ctx' = [ctx EXCEPT ![c] = x]
      BY <3>1 DEF Defer
    <3> HIDE DEF x
    <3> QED
      BY <3>2, <3>3, CtxAt
  <2> QED
    BY <1>9, <2>3 DEF TypeOK, ahc_post_duplicate, ahc_post_oom, Defer,
                      storageVars
<1>10. ASSUME NEW c \in Conns, NEW n \in 1..MAX_CHUNK, ahc_post_first(c, n)
       PROVE  TypeOK'
  <2>1. PICK b \in Creatable(Expected(c)) :
          /\ storage_blob_create(req[c].id, Expected(c), b)
          /\ Receive(c, n, [data |-> b, size |-> Expected(c)])
    BY <1>10 DEF ahc_post_first
  <2>2. b \in Blocks
    BY <2>1 DEF Creatable, balloc, TypeOK
  <2>3. Expected(c) \in 1..BLOB_SIZE_MAX /\ req[c].id \in Ids
    BY <1>10, ExpectedType, RequestType
       DEF ahc_post_first, Receiving, Called, TypeOK
  <2> DEFINE blk == [data |-> b, size |-> Expected(c)]
  <2>4. blk \in Blk /\ blk.data \in Blocks
    BY <2>2, <2>3 DEF Blk
  <2>5. /\ ctx' \in [Conns -> Ctx]
        /\ mem' \in [Blocks -> Content]
        /\ phase' \in [Conns -> {"idle", "headers", "body", "full", "reply",
                                 "closing"}]
    BY <1>10, <2>1, <2>4, ReceiveType DEF ahc_post_first
  <2> QED
    BY <2>1, <2>2, <2>3, <2>4, <2>5
       DEF TypeOK, storage_blob_create, Receive, VALID_UNTIL_NOT_PUBLISHED,
           VALID_UNTIL_EMPTY
<1>11. ASSUME NEW c \in Conns, NEW n \in 1..MAX_CHUNK, ahc_post_next(c, n)
       PROVE  TypeOK'
  <2>1. Owned /\ daemon # "stopped" /\ c \in Uploaders
    BY <1>11 DEF ahc_post_next, Uploaders, Receiving, Called, Serving
  <2>2. ctx[c].post_body \in Blk /\ ctx[c].post_body.data \in Blocks
    BY <2>1 DEF Owned, UploadsOwned, RowsOwned, TypeOK, Ctx
  <2>3. /\ ctx' \in [Conns -> Ctx]
        /\ mem' \in [Blocks -> Content]
        /\ phase' \in [Conns -> {"idle", "headers", "body", "full", "reply",
                                 "closing"}]
    BY <1>11, <2>2, ReceiveType DEF ahc_post_next
  <2> QED
    BY <1>11, <2>3 DEF TypeOK, ahc_post_next, Receive
<1>12. ASSUME NEW c \in Conns, ahc_post_commit(c)
       PROVE  TypeOK'
  <2>1. now + BLOB_TTL_S \in 0..UINT32_MAX
    BY ClockFits DEF TypeOK, VALID_UNTIL_NOT_PUBLISHED, VALID_UNTIL_EMPTY
  <2>2. blob_valid_until' \in [Ids -> 0..UINT32_MAX]
    BY <1>12, <2>1 DEF TypeOK, ahc_post_commit, storage_blob_publish
  <2>3. ctx' \in [Conns -> Ctx]
    <3> DEFINE x == [ctx[c] EXCEPT !.post_body = NullBlk]
    <3>1. \/ ctx' = [ctx EXCEPT ![c] = x]
          \/ ctx' = ctx
      BY <1>12 DEF ahc_post_commit, Committed
    <3>2. x \in Ctx
      <4>1. NullBlk \in Blk /\ ctx[c] \in Ctx
        BY DEF TypeOK, NullBlk, Blk
      <4> QED
        BY <4>1, CtxUpdate
    <3> HIDE DEF x
    <3> QED
      BY <3>1, <3>2, CtxAt DEF TypeOK
  <2>4. phase' \in [Conns -> {"idle", "headers", "body", "full", "reply",
                              "closing"}]
    BY <1>12 DEF TypeOK, ahc_post_commit, send_response
  <2> QED
    BY <1>12, <2>2, <2>3, <2>4
       DEF TypeOK, ahc_post_commit, storage_blob_publish
<1>13. ASSUME NEW c \in Conns, req_done(c)
       PROVE  TypeOK'
  <2> DEFINE aborted == IF MustAbort(c) THEN {ctx[c].id} \cap blob_ids ELSE {}
             sent == IF ctx[c].blob_send.size # 0 THEN {ctx[c].blob_send}
                     ELSE {}
             freed == {blob_data[id] : id \in aborted} \cup sent
  <2>1. storage_blob_abort(aborted) /\ storage_blob_free(freed)
    BY <1>13 DEF req_done
  <2>2. RowsOwned /\ LentOwned
    BY <1>13 DEF req_done, Owned
  <2>3. \A k \in freed : k.data \in Blocks
    BY <2>2 DEF RowsOwned, LentOwned, Senders
  <2>4. mem' \in [Blocks -> Content] /\ free_blocks' \subseteq Blocks
    <3> HIDE DEF freed
    <3> QED
      BY <2>1, <2>3, FreeType
  <2>5. /\ blob_ids' \subseteq Ids
        /\ blob_valid_until' \in [Ids -> 0..UINT32_MAX]
        /\ htable_free' \in Int
    <3> HIDE DEF aborted
    <3> QED
      BY <2>1, EraseType DEF storage_blob_abort
  <2>6. blob_data' \in [Ids -> Blk]
    BY <2>1 DEF TypeOK, storage_blob_abort, NullBlk, Blk
  <2>7. NullCtx \in Ctx
    BY DEF NullCtx, Ctx, NullBlk, Blk
  <2> QED
    BY <1>13, <2>4, <2>5, <2>6, <2>7 DEF TypeOK, req_done, ctxa_free, Record
<1>14. ASSUME Reaper
       PROVE  TypeOK'
  <2> DEFINE freed == {blob_data[id] : id \in Expired(now)}
  <2>1. RowsOwned
    BY <1>14 DEF Reaper, Owned, Serving
  <2>2. \A k \in freed : k.data \in Blocks
    BY <2>1 DEF RowsOwned, Expired
  <2>3. mem' \in [Blocks -> Content] /\ free_blocks' \subseteq Blocks
    <3>1. storage_blob_free(freed)
      BY <1>14 DEF Reaper, storage_reaper
    <3> HIDE DEF freed
    <3> QED
      BY <2>2, <3>1, FreeType
  <2>4. /\ blob_ids' \subseteq Ids
        /\ blob_valid_until' \in [Ids -> 0..UINT32_MAX]
        /\ htable_free' \in Int
    BY <1>14, EraseType DEF Reaper, storage_reaper
  <2> QED
    BY <1>14, <2>3, <2>4 DEF TypeOK, Reaper, storage_reaper, Record,
                             serverVars
<1>15. CASE Tick \/ on_sigint \/ MHD_stop_daemon \/ Exited
  BY <1>15 DEF TypeOK, Tick, on_sigint, MHD_stop_daemon, Exited, vars,
               storageVars, serverVars
<1>16. CASE cleanup
  BY <1>16 DEF TypeOK, cleanup, storage_zero, serverVars, NullBlk, Blk,
               Zeros, Content
<1> QED
  BY <1>1, <1>2, <1>3, <1>4, <1>5, <1>6, <1>7, <1>8, <1>9, <1>10, <1>11,
     <1>12, <1>13, <1>14, <1>15, <1>16 DEF Next, Client, ahc

(***************************************************************************)
(* Most actions leave the rows alone and neither give nor take a block.    *)
(***************************************************************************)
KeepsRows == UNCHANGED <<blob_ids, blob_data, blob_valid_until, free_blocks>>
KeepsBlocks ==
  \A d \in Conns :
    /\ \/ ctx'[d].blob_send = ctx[d].blob_send
       \/ ctx[d].blob_send.size = 0 /\ ctx'[d].blob_send.size = 0
    /\ \/ ctx'[d].post_body = ctx[d].post_body
       \/ ctx[d].post_body.size = 0 /\ ctx'[d].post_body.size = 0
    /\ ctx[d].post_body.size # 0 => ctx'[d].id = ctx[d].id
KeepsRoles ==
  \A d \in Conns :
    /\ ctx[d].blob_send.size # 0 => /\ phase'[d] \in {"reply", "closing"}
                                    /\ req'[d] = req[d]
    /\ ctx[d].post_body.size # 0 =>
         /\ phase'[d] \in {"body", "full", "reply", "closing"}
         /\ req'[d] = req[d]

(* Such a step preserves every part of Owned. *)
LEMMA Frame ==
  ASSUME Owned, daemon # "stopped", KeepsRows, KeepsBlocks, KeepsRoles
  PROVE  Owned'
<1>1. Senders' = Senders /\ Uploaders' = Uploaders
  BY DEF KeepsBlocks, Senders, Uploaders
<1>2. /\ \A c \in Senders : ctx'[c].blob_send = ctx[c].blob_send
      /\ \A c \in Uploaders : /\ ctx'[c].post_body = ctx[c].post_body
                              /\ ctx'[c].id = ctx[c].id
                              /\ req'[c] = req[c]
  BY DEF KeepsBlocks, KeepsRoles, Senders, Uploaders
<1>3. RowsOwned' /\ NoLeak'
  BY <1>1, <1>2 DEF Owned, RowsOwned, NoLeak, KeepsRows
<1>4. LentOwned'
  BY <1>1, <1>2 DEF Owned, LentOwned, KeepsRows
<1>5. UploadsOwned'
  BY <1>1, <1>2 DEF Owned, UploadsOwned, KeepsRows, VALID_UNTIL_NOT_PUBLISHED,
                    VALID_UNTIL_EMPTY
<1>6. RowsUploaded'
  BY <1>1, <1>2 DEF Owned, RowsUploaded, KeepsRows, VALID_UNTIL_NOT_PUBLISHED,
                    VALID_UNTIL_EMPTY
<1>7. Roles'
  BY <1>1 DEF Owned, Roles, KeepsRoles, Senders, Uploaders
<1> QED
  BY <1>3, <1>4, <1>5, <1>6, <1>7 DEF Owned

(* GET moves the block of a row to the request that will send it. *)
LEMMA OwnedGet ==
  ASSUME TypeOK, Owned, NEW c \in Conns, ahc_get(c)
  PROVE  Owned'
<1> DEFINE id == req[c].id
<1>1. /\ daemon # "stopped" /\ phase[c] \in {"body", "full"}
      /\ req[c].kind = "get" /\ id \in blob_ids /\ id \in Ids
      /\ blob_valid_until[id] # VALID_UNTIL_NOT_PUBLISHED
  BY DEF ahc_get, Called, Serving, Gettable, TypeOK
<1>2. /\ blob_ids' = blob_ids \ {id}
      /\ UNCHANGED <<blob_data, free_blocks, req>>
      /\ \A i \in blob_ids' : blob_valid_until'[i] = blob_valid_until[i]
  BY DEF ahc_get, storage_blob_get, Erase, TypeOK
<1>3. /\ ctx'[c].blob_send = blob_data[id]
      /\ ctx'[c].post_body = ctx[c].post_body
      /\ ctx'[c].id = ctx[c].id
      /\ \A d \in Conns \ {c} : ctx'[d] = ctx[d]
  BY DEF ahc_get, TypeOK, Ctx
<1>4. /\ phase'[c] \in {"reply", "closing"}
      /\ \A d \in Conns \ {c} : phase'[d] = phase[d]
  BY DEF ahc_get, send_response, TypeOK
<1>5. c \notin Senders /\ c \notin Uploaders
  BY <1>1 DEF Owned, Roles
<1>6. Senders' = Senders \cup {c} /\ Uploaders' = Uploaders
  BY <1>1, <1>3, <1>5 DEF Senders, Uploaders, Owned, RowsOwned
<1>7. RowsOwned'
  BY <1>1, <1>2 DEF Owned, RowsOwned
<1>8. LentOwned'
  BY <1>1, <1>2, <1>3, <1>5, <1>6 DEF Owned, LentOwned, RowsOwned, Senders
<1>9. UploadsOwned'
  BY <1>1, <1>2, <1>3, <1>5, <1>6
     DEF Owned, UploadsOwned, Uploaders, VALID_UNTIL_NOT_PUBLISHED,
         VALID_UNTIL_EMPTY
<1>10. RowsUploaded'
  BY <1>1, <1>2, <1>3, <1>5, <1>6
     DEF Owned, RowsUploaded, Uploaders, VALID_UNTIL_NOT_PUBLISHED,
         VALID_UNTIL_EMPTY
<1>11. NoLeak'
  BY <1>1, <1>2, <1>3, <1>5, <1>6 DEF Owned, NoLeak, Senders
<1>12. Roles'
  BY <1>1, <1>2, <1>4, <1>5, <1>6 DEF Owned, Roles, Senders, Uploaders
<1> QED
  BY <1>7, <1>8, <1>9, <1>10, <1>11, <1>12 DEF Owned

(* The first piece of a POST moves a free block into a new unpublished row. *)
LEMMA OwnedCreate ==
  ASSUME TypeOK, Owned, NEW c \in Conns, NEW n \in 1..MAX_CHUNK,
         ahc_post_first(c, n)
  PROVE  Owned'
<1> DEFINE id == req[c].id
<1>1. PICK b \in Creatable(Expected(c)) :
        /\ storage_blob_create(id, Expected(c), b)
        /\ Receive(c, n, [data |-> b, size |-> Expected(c)])
  BY DEF ahc_post_first
<1>2. /\ daemon # "stopped" /\ phase[c] = "body" /\ req[c].kind = "post"
      /\ id \notin blob_ids /\ id \in Ids /\ c \notin Uploaders
  BY RequestType DEF ahc_post_first, Receiving, Called, Serving, Uploaders,
                     storage_blob_is_already_taken, TypeOK
<1>3. b \in free_blocks /\ b \in Blocks
  BY DEF Creatable, balloc, TypeOK
<1>4. Expected(c) # 0
  BY ExpectedType, StorageConstants DEF ahc_post_first, Receiving
<1> DEFINE blk == [data |-> b, size |-> Expected(c)]
<1>5. /\ blob_ids' = blob_ids \cup {id}
      /\ blob_data'[id] = blk
      /\ \A i \in blob_ids : blob_data'[i] = blob_data[i]
      /\ blob_valid_until'[id] = VALID_UNTIL_NOT_PUBLISHED
      /\ \A i \in blob_ids : blob_valid_until'[i] = blob_valid_until[i]
      /\ free_blocks' = free_blocks \ {b}
  BY <1>1, <1>2 DEF storage_blob_create, TypeOK
<1>6. /\ ctx'[c].blob_send = ctx[c].blob_send
      /\ ctx'[c].post_body = blk
      /\ ctx'[c].id = id
      /\ \A d \in Conns \ {c} : ctx'[d] = ctx[d]
  BY <1>1 DEF Receive, TypeOK, Ctx
<1>7. /\ phase'[c] \in {"body", "closing"}
      /\ \A d \in Conns \ {c} : phase'[d] = phase[d]
      /\ req' = req
  BY <1>1, <1>2 DEF Receive, TypeOK
<1>8. Senders' = Senders /\ Uploaders' = Uploaders \cup {c}
  BY <1>2, <1>4, <1>6 DEF Senders, Uploaders
<1>9. c \notin Senders
  BY <1>2 DEF Owned, Roles
<1>10. RowsOwned'
  BY <1>2, <1>3, <1>4, <1>5 DEF Owned, RowsOwned
<1>11. LentOwned'
  BY <1>2, <1>3, <1>5, <1>6, <1>8, <1>9 DEF Owned, LentOwned, Senders
<1>12. UploadsOwned'
  BY <1>2, <1>5, <1>6, <1>7, <1>8
     DEF Owned, UploadsOwned, Uploaders, VALID_UNTIL_NOT_PUBLISHED,
         VALID_UNTIL_EMPTY
<1>13. RowsUploaded'
  BY <1>2, <1>5, <1>6, <1>8
     DEF Owned, RowsUploaded, Uploaders, VALID_UNTIL_NOT_PUBLISHED,
         VALID_UNTIL_EMPTY
<1>14. NoLeak'
  BY <1>2, <1>5, <1>6, <1>8, <1>9 DEF Owned, NoLeak, Senders
<1>15. Roles'
  BY <1>2, <1>7, <1>8, <1>9 DEF Owned, Roles, Senders, Uploaders
<1> QED
  BY <1>10, <1>11, <1>12, <1>13, <1>14, <1>15 DEF Owned

(* Committing turns the upload's own row into a published one. *)
LEMMA OwnedCommit ==
  ASSUME TypeOK, Owned, NEW c \in Conns, ahc_post_commit(c)
  PROVE  Owned'
<1> DEFINE id == ctx[c].id
<1>1. /\ daemon # "stopped" /\ phase[c] = "full" /\ req[c].kind = "post"
      /\ c \in Uploaders
  BY DEF ahc_post_commit, Called, Serving, Complete, Uploaders
<1>2. id \in blob_ids /\ c \notin Senders
  BY <1>1 DEF Owned, UploadsOwned, Roles
<1>3. now + BLOB_TTL_S # VALID_UNTIL_NOT_PUBLISHED
  BY ServerConstants, StorageConstants, ClockFits
     DEF TypeOK, VALID_UNTIL_NOT_PUBLISHED, VALID_UNTIL_EMPTY
<1>4. /\ UNCHANGED <<blob_ids, blob_data, free_blocks, req>>
      /\ blob_valid_until'[id] # VALID_UNTIL_NOT_PUBLISHED
      /\ \A i \in blob_ids \ {id} : blob_valid_until'[i] = blob_valid_until[i]
  BY <1>2, <1>3 DEF ahc_post_commit, storage_blob_publish, TypeOK
<1>5. /\ ctx'[c].blob_send = ctx[c].blob_send
      /\ ctx'[c].post_body.size = 0
      /\ \A d \in Conns \ {c} : ctx'[d] = ctx[d]
  BY <1>2 DEF ahc_post_commit, Committed, NullBlk, TypeOK, Ctx
<1>6. /\ phase'[c] \in {"reply", "closing"}
      /\ \A d \in Conns \ {c} : phase'[d] = phase[d]
  BY DEF ahc_post_commit, send_response, TypeOK
<1>7. Senders' = Senders /\ Uploaders' = Uploaders \ {c}
  BY <1>5 DEF Senders, Uploaders
<1>8. RowsOwned'
  BY <1>1, <1>4 DEF Owned, RowsOwned
<1>9. LentOwned'
  BY <1>1, <1>2, <1>4, <1>5, <1>7 DEF Owned, LentOwned, Senders
<1>10. UploadsOwned'
  BY <1>1, <1>4, <1>5, <1>7
     DEF Owned, UploadsOwned, Uploaders, VALID_UNTIL_NOT_PUBLISHED,
         VALID_UNTIL_EMPTY
<1>11. RowsUploaded'
  BY <1>1, <1>4, <1>5, <1>7
     DEF Owned, RowsUploaded, Uploaders, VALID_UNTIL_NOT_PUBLISHED,
         VALID_UNTIL_EMPTY
<1>12. NoLeak'
  BY <1>1, <1>2, <1>4, <1>5, <1>7 DEF Owned, NoLeak, Senders
<1>13. Roles'
  BY <1>1, <1>2, <1>4, <1>6, <1>7 DEF Owned, Roles, Senders, Uploaders
<1> QED
  BY <1>8, <1>9, <1>10, <1>11, <1>12, <1>13 DEF Owned

(* The reaper only meets published rows: no sentinel is in the past. *)
LEMMA OwnedReaper ==
  ASSUME TypeOK, Owned, Reaper
  PROVE  Owned'
<1> DEFINE old == Expired(now)
<1>1. daemon # "stopped" /\ UNCHANGED <<phase, req, ctx, blob_data>>
  BY DEF Reaper, Serving, serverVars, storage_reaper
<1>2. /\ blob_ids' = blob_ids \ old
      /\ \A i \in blob_ids' : blob_valid_until'[i] = blob_valid_until[i]
      /\ free_blocks' = free_blocks \cup {blob_data[i].data : i \in old}
  BY DEF Reaper, storage_reaper, Erase, storage_blob_free, TypeOK
<1>3. \A i \in old : /\ i \in blob_ids
                     /\ blob_valid_until[i] # VALID_UNTIL_NOT_PUBLISHED
  BY ServerConstants, StorageConstants, ClockFits
     DEF Expired, TypeOK, VALID_UNTIL_NOT_PUBLISHED, VALID_UNTIL_EMPTY
<1> HIDE DEF old
<1>4. Senders' = Senders /\ Uploaders' = Uploaders
  BY <1>1 DEF Senders, Uploaders
<1>5. RowsOwned'
  BY <1>1, <1>2, <1>3 DEF Owned, RowsOwned
<1>6. LentOwned'
  BY <1>1, <1>2, <1>3, <1>4 DEF Owned, LentOwned
<1>7. UploadsOwned'
  BY <1>1, <1>2, <1>3, <1>4
     DEF Owned, UploadsOwned, VALID_UNTIL_NOT_PUBLISHED, VALID_UNTIL_EMPTY
<1>8. RowsUploaded'
  BY <1>1, <1>2, <1>4
     DEF Owned, RowsUploaded, VALID_UNTIL_NOT_PUBLISHED, VALID_UNTIL_EMPTY
<1>9. NoLeak'
  BY <1>1, <1>2, <1>4 DEF Owned, NoLeak
<1>10. Roles'
  BY <1>1, <1>4 DEF Owned, Roles
<1> QED
  BY <1>5, <1>6, <1>7, <1>8, <1>9, <1>10 DEF Owned

(* A request ends: its upload's row or the blob it sent is given back. *)
LEMMA OwnedDone ==
  ASSUME TypeOK, Owned, NEW c \in Conns, req_done(c)
  PROVE  Owned'
<1> DEFINE id == ctx[c].id
           aborted == IF MustAbort(c) THEN {id} \cap blob_ids ELSE {}
           sent == IF ctx[c].blob_send.size # 0 THEN {ctx[c].blob_send}
                   ELSE {}
<1>1. daemon # "stopped"
  BY DEF req_done
<1>2. /\ storage_blob_abort(aborted)
      /\ storage_blob_free({blob_data[i] : i \in aborted} \cup sent)
  BY DEF req_done
<1>3. /\ ctx'[c].blob_send.size = 0 /\ ctx'[c].post_body.size = 0
      /\ \A d \in Conns \ {c} : /\ ctx'[d] = ctx[d]
                                /\ phase'[d] = phase[d]
                                /\ req'[d] = req[d]
  BY DEF req_done, ctxa_free, NullCtx, NullBlk, TypeOK
<1>4. Senders' = Senders \ {c} /\ Uploaders' = Uploaders \ {c}
  BY <1>3 DEF Senders, Uploaders
<1>5. Roles'
  BY <1>1, <1>3, <1>4 DEF Owned, Roles, Senders, Uploaders
<1>6. CASE c \in Uploaders
  <2>1. c \notin Senders /\ id \in blob_ids
    BY <1>1, <1>6 DEF Owned, Roles, UploadsOwned
  <2>2. aborted = {id} /\ sent = {}
    BY <1>6, <2>1 DEF MustAbort, Uploaders, Senders
  <2>3. /\ blob_ids' = blob_ids \ {id}
        /\ \A i \in blob_ids' : /\ blob_data'[i] = blob_data[i]
                                /\ blob_valid_until'[i] = blob_valid_until[i]
        /\ free_blocks' = free_blocks \cup {blob_data[id].data}
    <3>1. storage_blob_abort({id}) /\ storage_blob_free({blob_data[id]})
      BY <1>2, <2>2
    <3> HIDE DEF aborted, sent
    <3>2. blob_ids' = blob_ids \ {id}
      BY <3>1 DEF storage_blob_abort, Erase
    <3>3. \A i \in blob_ids' : /\ blob_data'[i] = blob_data[i]
                              /\ blob_valid_until'[i] = blob_valid_until[i]
      BY <3>1, <3>2 DEF storage_blob_abort, Erase, TypeOK
    <3>4. free_blocks' = free_blocks \cup {blob_data[id].data}
      BY <3>1 DEF storage_blob_free
    <3> QED
      BY <3>2, <3>3, <3>4
  <2> HIDE DEF aborted, sent
  <2>4. RowsOwned'
    BY <1>1, <2>1, <2>3 DEF Owned, RowsOwned
  <2>5. LentOwned'
    BY <1>1, <1>3, <1>4, <2>1, <2>3 DEF Owned, LentOwned, Senders
  <2>6. UploadsOwned'
    BY <1>1, <1>3, <1>4, <1>6, <2>3
       DEF Owned, UploadsOwned, Uploaders, VALID_UNTIL_NOT_PUBLISHED,
           VALID_UNTIL_EMPTY
  <2>7. RowsUploaded'
    BY <1>1, <1>3, <1>4, <2>3
       DEF Owned, RowsUploaded, Uploaders, VALID_UNTIL_NOT_PUBLISHED,
           VALID_UNTIL_EMPTY
  <2>8. NoLeak'
    BY <1>1, <1>3, <1>4, <2>1, <2>3 DEF Owned, NoLeak, Senders
  <2> QED
    BY <1>5, <2>4, <2>5, <2>6, <2>7, <2>8 DEF Owned
<1>7. CASE c \notin Uploaders
  <2>1. aborted = {}
    BY <1>7 DEF MustAbort, Uploaders
  <2>2. /\ blob_ids' = blob_ids
        /\ \A i \in blob_ids : /\ blob_data'[i] = blob_data[i]
                               /\ blob_valid_until'[i] = blob_valid_until[i]
        /\ free_blocks' = free_blocks \cup {k.data : k \in sent}
    BY <1>2, <2>1 DEF storage_blob_abort, storage_blob_free, Erase, TypeOK
  <2>3. \/ c \in Senders /\ sent = {ctx[c].blob_send}
        \/ c \notin Senders /\ sent = {}
    BY DEF Senders
  <2>4. \/ /\ c \in Senders
           /\ free_blocks' = free_blocks \cup {ctx[c].blob_send.data}
        \/ c \notin Senders /\ free_blocks' = free_blocks
    BY <2>2, <2>3
  <2> HIDE DEF aborted, sent
  <2>5. RowsOwned'
    BY <1>1, <2>2, <2>4 DEF Owned, RowsOwned, LentOwned
  <2>6. LentOwned'
    BY <1>1, <1>3, <1>4, <2>2, <2>4 DEF Owned, LentOwned, Senders
  <2>7. UploadsOwned'
    BY <1>1, <1>3, <1>4, <1>7, <2>2
       DEF Owned, UploadsOwned, Uploaders, VALID_UNTIL_NOT_PUBLISHED,
           VALID_UNTIL_EMPTY
  <2>8. RowsUploaded'
    BY <1>1, <1>3, <1>4, <1>7, <2>2
       DEF Owned, RowsUploaded, Uploaders, VALID_UNTIL_NOT_PUBLISHED,
           VALID_UNTIL_EMPTY
  <2>9. NoLeak'
    BY <1>1, <1>3, <1>4, <2>2, <2>4 DEF Owned, NoLeak, Senders
  <2> QED
    BY <1>5, <2>5, <2>6, <2>7, <2>8, <2>9 DEF Owned
<1> QED
  BY <1>6, <1>7

(* The calls that neither take nor give a block. *)
QuietCall(c) ==
  \/ \E r \in Requests : Accept(c, r)
  \/ BodyEnd(c) \/ Drop(c) \/ Sent(c)
  \/ ahc_first(c) \/ ahc_other(c) \/ ahc_get_not_found(c)
  \/ ahc_post_bad_length(c) \/ ahc_post_refuse(c)
  \/ ahc_post_duplicate(c) \/ ahc_post_oom(c)

(* A quiet call leaves the store and the owners alone. *)
LEMMA QuietKeeps ==
  ASSUME TypeOK, Owned, NEW c \in Conns, QuietCall(c)
  PROVE  /\ daemon # "stopped" /\ daemon' = daemon
         /\ KeepsRows /\ KeepsBlocks /\ KeepsRoles
<1>1. ASSUME NEW r \in Requests, Accept(c, r)
      PROVE  /\ daemon # "stopped" /\ daemon' = daemon
             /\ KeepsRows /\ KeepsBlocks /\ KeepsRoles
  <2>1. /\ daemon # "stopped" /\ daemon' = daemon
        /\ KeepsRows /\ KeepsBlocks
    BY <1>1 DEF Accept, Serving, storageVars, KeepsRows, KeepsBlocks
  <2>2. KeepsRoles
    BY <1>1, <2>1 DEF Accept, TypeOK, Owned, Roles, Senders, Uploaders,
                      KeepsRoles
  <2> QED
    BY <2>1, <2>2
<1>2. CASE BodyEnd(c) \/ Drop(c) \/ Sent(c) \/ ahc_other(c)
             \/ ahc_get_not_found(c)
  <2>1. /\ daemon # "stopped" /\ daemon' = daemon
        /\ KeepsRows /\ KeepsBlocks
    BY <1>2 DEF BodyEnd, Drop, Sent, ahc_other, ahc_get_not_found, Called,
                Serving, storageVars, KeepsRows, KeepsBlocks
  <2>2. KeepsRoles
    BY <1>2, <2>1 DEF BodyEnd, Drop, Sent, ahc_other, ahc_get_not_found,
                      Called, send_response, TypeOK, Owned, Roles, Senders,
                      Uploaders, KeepsRoles
  <2> QED
    BY <2>1, <2>2
<1>3. CASE ahc_first(c)
  <2>1. /\ daemon # "stopped" /\ daemon' = daemon
        /\ KeepsRows /\ phase[c] = "headers" /\ req' = req
    BY <1>3 DEF ahc_first, Serving, storageVars, KeepsRows
  <2>2. c \notin Senders /\ c \notin Uploaders
    BY <2>1 DEF Owned, Roles
  <2>3. KeepsBlocks
    BY <1>3, <2>2 DEF ahc_first, ctxa_alloc, NullCtx, NullBlk, TypeOK,
                      Senders, Uploaders, KeepsBlocks
  <2>4. KeepsRoles
    BY <1>3, <2>1, <2>2 DEF ahc_first, send_response, TypeOK, Owned, Roles,
                            Senders, Uploaders, KeepsRoles
  <2> QED
    BY <2>1, <2>3, <2>4
<1>4. CASE ahc_post_bad_length(c) \/ ahc_post_refuse(c)
             \/ ahc_post_duplicate(c) \/ ahc_post_oom(c)
  <2>1. /\ daemon # "stopped" /\ daemon' = daemon /\ KeepsRows /\ req' = req
        /\ phase[c] \in {"body", "full"}
    BY <1>4 DEF ahc_post_bad_length, ahc_post_refuse, ahc_post_duplicate,
                ahc_post_oom, Receiving, Defer, Called, Serving, storageVars,
                KeepsRows
  <2>2. /\ ctx'[c].blob_send = ctx[c].blob_send
        /\ ctx'[c].post_body = ctx[c].post_body
        /\ ctx'[c].id = req[c].id
        /\ \A d \in Conns \ {c} : ctx'[d] = ctx[d]
    BY <1>4 DEF ahc_post_bad_length, ahc_post_refuse, ahc_post_duplicate,
                ahc_post_oom, Defer, TypeOK, Ctx
  <2>3. KeepsBlocks
    BY <2>1, <2>2 DEF Owned, UploadsOwned, Uploaders, KeepsBlocks
  <2>4. KeepsRoles
    BY <1>4, <2>1 DEF ahc_post_bad_length, ahc_post_refuse,
                      ahc_post_duplicate, ahc_post_oom, Defer, send_response,
                      TypeOK, Owned, Roles, Senders, Uploaders, KeepsRoles
  <2> QED
    BY <2>1, <2>3, <2>4
<1> QED
  BY <1>1, <1>2, <1>3, <1>4 DEF QuietCall

(* Every step preserves ownership. *)
LEMMA OwnedStep ==
  ASSUME TypeOK, Owned, Next
  PROVE  Owned'
<1>1. ASSUME NEW c \in Conns, QuietCall(c)
      PROVE  Owned'
  BY <1>1, QuietKeeps, Frame
<1>2. ASSUME NEW c \in Conns, ahc_post_skip(c)
      PROVE  Owned'
  BY <1>2 DEF ahc_post_skip, vars, storageVars, serverVars, Owned,
              RowsOwned, LentOwned, UploadsOwned, RowsUploaded, NoLeak, Roles,
              Senders, Uploaders, VALID_UNTIL_NOT_PUBLISHED, VALID_UNTIL_EMPTY
<1>3. ASSUME NEW c \in Conns, NEW n \in 1..MAX_CHUNK, ahc_post_next(c, n)
      PROVE  Owned'
  <2>1. /\ daemon # "stopped" /\ KeepsRows /\ req' = req
        /\ phase[c] = "body"
    BY <1>3 DEF ahc_post_next, Receive, Receiving, Called, Serving, KeepsRows
  <2>2. /\ ctx'[c].blob_send = ctx[c].blob_send
        /\ ctx'[c].post_body = ctx[c].post_body
        /\ ctx'[c].id = req[c].id
        /\ \A d \in Conns \ {c} : ctx'[d] = ctx[d]
    BY <1>3 DEF ahc_post_next, Receive, TypeOK, Ctx
  <2>3. KeepsBlocks
    BY <2>1, <2>2 DEF Owned, UploadsOwned, Uploaders, KeepsBlocks
  <2>4. KeepsRoles
    BY <1>3, <2>1 DEF ahc_post_next, Receive, TypeOK, Owned, Roles, Senders,
                      Uploaders, KeepsRoles
  <2> QED
    BY <2>1, <2>3, <2>4, Frame
<1>4. CASE Tick \/ on_sigint \/ MHD_stop_daemon
  <2>1. daemon # "stopped" /\ KeepsRows /\ KeepsBlocks
    BY <1>4 DEF Tick, on_sigint, MHD_stop_daemon, Serving, storageVars,
                serverVars, KeepsRows, KeepsBlocks
  <2>2. KeepsRoles
    BY <1>4, <2>1 DEF Tick, on_sigint, MHD_stop_daemon, serverVars, TypeOK,
                      Owned, Roles, Senders, Uploaders, KeepsRoles
  <2> QED
    BY <2>1, <2>2, Frame
<1>5. CASE cleanup
  BY <1>5 DEF cleanup, Owned
<1>6. CASE Exited
  BY <1>6 DEF Exited, vars, storageVars, serverVars, Owned
<1> QED
  BY <1>1, <1>2, <1>3, <1>4, <1>5, <1>6, OwnedGet, OwnedCreate, OwnedCommit,
     OwnedDone, OwnedReaper DEF Next, Client, ahc, QuietCall

(* The conjunction of types and ownership is an invariant of the daemon. *)
THEOREM IInvHolds == Spec => []IInv
<1>1. IInv /\ [Next]_vars => IInv'
  <2>1. CASE Next
    BY <2>1, TypeStep, OwnedStep DEF IInv
  <2>2. CASE UNCHANGED vars
    BY <2>2 DEF IInv, TypeOK, vars, storageVars, serverVars, Owned,
                RowsOwned, LentOwned, UploadsOwned, RowsUploaded, NoLeak,
                Roles, Senders, Uploaders, VALID_UNTIL_NOT_PUBLISHED,
                VALID_UNTIL_EMPTY
  <2> QED
    BY <2>1, <2>2
<1> QED
  BY <1>1, InitIInv, PTL DEF Spec

(* The store, the contexts and the clock keep their types in every run. *)
THEOREM TypeCorrect == Spec => []TypeOK
<1>1. IInv => TypeOK
  BY DEF IInv
<1> QED
  BY <1>1, IInvHolds, PTL

(* Every block has exactly one owner until the process ends, for any        *)
(* number of connections: no double free, no leak, no block recycled while  *)
(* MHD still reads it.                                                      *)
THEOREM OwnershipCorrect == Spec => []BlockOwnership
<1>1. IInv => BlockOwnership
  <2> SUFFICES ASSUME IInv, daemon # "stopped"
               PROVE  BlockOwnership
    BY DEF BlockOwnership
  <2>1. RowsOwned /\ LentOwned /\ NoLeak /\ free_blocks \subseteq Blocks
    BY DEF IInv, Owned, TypeOK
  <2> QED
    BY <2>1 DEF BlockOwnership, RowsOwned, LentOwned, NoLeak, TableBlocks,
                LentBlocks
<1> QED
  BY <1>1, IInvHolds, PTL

(* An upload owns its unpublished row and every unpublished row has an      *)
(* upload, so aborting by identifier never removes another client's blob    *)
(* and never leaves a row the reaper cannot see.                            *)
THEOREM UploadsCorrect == Spec => []UploadOwnsRow
<1>1. IInv => UploadOwnsRow
  BY DEF IInv, Owned, UploadsOwned, RowsUploaded, UploadOwnsRow
<1> QED
  BY <1>1, IInvHolds, PTL

(***************************************************************************)
(* The two counters of the daemon.  Every row takes one slot of the table: *)
(* a row is only created where there was none, and erasing counts the rows *)
(* that were there.                                                        *)
(***************************************************************************)
LEMMA EraseCounts ==
  ASSUME TypeOK, NEW ids, Erase(ids),
         htable_free = HTABLE_SIZE - Cardinality(blob_ids)
  PROVE  htable_free' = HTABLE_SIZE - Cardinality(blob_ids')
<1>1. IsFiniteSet(blob_ids) /\ IsFiniteSet(blob_ids \cap ids)
  BY StorageConstants, FS_Subset DEF TypeOK
<1>2. Cardinality(blob_ids) \in Nat /\ Cardinality(blob_ids \cap ids) \in Nat
  BY <1>1, FS_CardinalityType
<1>3. Cardinality(blob_ids \ ids)
        = Cardinality(blob_ids) - Cardinality(blob_ids \cap ids)
  BY <1>1, FS_Difference
<1> QED
  BY <1>2, <1>3, StorageConstants DEF Erase

(* htable_free is counted down and up where a row comes and goes. *)
LEMMA SlotsStep ==
  ASSUME TypeOK, SlotsCounted, Next
  PROVE  SlotsCounted'
<1> DEFINE Exact == htable_free = HTABLE_SIZE - Cardinality(blob_ids)
<1>1. ASSUME NEW c \in Conns, NEW n \in 1..MAX_CHUNK, ahc_post_first(c, n)
      PROVE  SlotsCounted'
  <2>1. /\ Exact /\ req[c].id \notin blob_ids
        /\ blob_ids' = blob_ids \cup {req[c].id}
        /\ htable_free' = htable_free - 1
    BY <1>1 DEF ahc_post_first, storage_blob_create, SlotsCounted, Receiving,
                Called, Serving, storage_blob_is_already_taken
  <2>2. IsFiniteSet(blob_ids)
    BY StorageConstants, FS_Subset DEF TypeOK
  <2>3. Cardinality(blob_ids) \in Nat
    BY <2>2, FS_CardinalityType
  <2>4. Cardinality(blob_ids') = Cardinality(blob_ids) + 1
    BY <2>1, <2>2, FS_AddElement
  <2> QED
    BY <2>1, <2>3, <2>4, StorageConstants DEF SlotsCounted
<1>2. ASSUME NEW ids, Erase(ids), daemon # "stopped"
      PROVE  SlotsCounted'
  BY <1>2, EraseCounts DEF SlotsCounted
<1>3. ASSUME NEW c \in Conns, ahc_get(c) \/ req_done(c)
      PROVE  SlotsCounted'
  BY <1>2, <1>3 DEF ahc_get, req_done, storage_blob_get, storage_blob_abort,
                    Called, Serving
<1>4. CASE Reaper
  BY <1>2, <1>4 DEF Reaper, storage_reaper, Serving
<1>5. CASE cleanup
  BY <1>5 DEF cleanup, SlotsCounted
<1>6. ASSUME UNCHANGED <<blob_ids, htable_free>>,
             daemon # "stopped" \/ daemon' = "stopped"
      PROVE  SlotsCounted'
  BY <1>6 DEF SlotsCounted
<1>7. ASSUME NEW c \in Conns,
             \/ QuietCall(c) \/ ahc_post_skip(c) \/ ahc_post_commit(c)
             \/ \E n \in 1..MAX_CHUNK : ahc_post_next(c, n)
      PROVE  SlotsCounted'
  <2>1. daemon # "stopped" /\ UNCHANGED <<blob_ids, htable_free>>
    BY <1>7 DEF QuietCall, Accept, BodyEnd, Drop, Sent, ahc_first, ahc_other,
                ahc_get_not_found, ahc_post_bad_length, ahc_post_refuse,
                ahc_post_duplicate, ahc_post_oom, Defer, ahc_post_skip,
                ahc_post_commit, storage_blob_publish, ahc_post_next,
                Receiving, Called, Serving, vars, storageVars
  <2> QED
    BY <1>6, <2>1
<1>8. CASE Tick \/ on_sigint \/ MHD_stop_daemon \/ Exited
  <2>1. /\ UNCHANGED <<blob_ids, htable_free>>
        /\ daemon # "stopped" \/ daemon' = "stopped"
    BY <1>8 DEF Tick, on_sigint, MHD_stop_daemon, Exited, Serving, vars,
                storageVars
  <2> QED
    BY <1>6, <2>1
<1> QED
  BY <1>1, <1>3, <1>4, <1>5, <1>7, <1>8 DEF Next, Client, ahc, QuietCall

(* htable_free, by which storage_blob_create refuses an upload, is exact    *)
(* however rows come and go.                                                *)
THEOREM SlotsCorrect == Spec => []SlotsCounted
<1>1. Init => SlotsCounted
  BY FS_EmptySet, StorageConstants DEF Init, storage_init, SlotsCounted
<1>2. IInv /\ SlotsCounted /\ [Next]_vars => SlotsCounted'
  <2> SUFFICES ASSUME IInv, SlotsCounted, [Next]_vars PROVE SlotsCounted'
    OBVIOUS
  <2>1. CASE UNCHANGED vars
    BY <2>1 DEF SlotsCounted, vars, storageVars
  <2> QED
    BY <2>1, SlotsStep DEF IInv
<1> QED
  BY <1>1, <1>2, IInvHolds, PTL DEF Spec

(***************************************************************************)
(* MHD's connection limit is the size of the pool, and a context is held   *)
(* only by a connection that MHD has let in and that is past its first     *)
(* call: so there is one left for every first call.                        *)
(***************************************************************************)
PoolInv ==
  /\ live \subseteq Busy
  /\ \A c \in live : phase[c] # "headers"
  /\ IsFiniteSet(Busy) /\ Cardinality(Busy) <= REQUESTS_MAX
  /\ ctx_available = REQUESTS_MAX - Cardinality(live)

(* Every step takes a context and gives it back with its request. *)
LEMMA PoolStep ==
  ASSUME TypeOK, PoolInv, Next
  PROVE  PoolInv'
<1>1. /\ IsFiniteSet(live) /\ Cardinality(live) \in Nat
      /\ Cardinality(Busy) \in Nat
  BY FS_Subset, FS_CardinalityType DEF PoolInv
<1>2. ASSUME NEW c \in Conns, NEW r \in Requests, Accept(c, r)
      PROVE  PoolInv'
  <2>1. Busy' = Busy \cup {c} /\ c \notin Busy
    BY <1>2 DEF Accept, Busy, TypeOK
  <2>2. IsFiniteSet(Busy') /\ Cardinality(Busy') = Cardinality(Busy) + 1
    BY <2>1, FS_AddElement DEF PoolInv
  <2>3. Cardinality(Busy') <= REQUESTS_MAX
    BY <1>1, <1>2, <2>2, ServerConstants DEF Accept
  <2>4. \A d \in live : phase'[d] = phase[d]
    BY <1>2, <2>1 DEF Accept, TypeOK, PoolInv
  <2> QED
    BY <1>2, <2>1, <2>2, <2>3, <2>4 DEF Accept, Serving, PoolInv
<1>3. ASSUME NEW c \in Conns, phase[c] # "idle",
             NEW p \in {"body", "full", "reply", "closing"},
             phase' = [phase EXCEPT ![c] = p]
      PROVE  /\ Busy' = Busy
             /\ phase'[c] # "headers"
             /\ \A d \in Conns \ {c} : phase'[d] = phase[d]
  BY <1>3 DEF Busy, TypeOK
<1>4. ASSUME Busy' = Busy, UNCHANGED <<live, ctx_available>>,
             \A d \in live : phase'[d] = phase[d] \/ phase'[d] # "headers"
      PROVE  PoolInv'
  BY <1>4 DEF PoolInv
<1>5. ASSUME NEW c \in Conns, ahc_first(c)
      PROVE  PoolInv'
  <2>1. PICK p \in {"body", "reply", "closing"} :
          phase' = [phase EXCEPT ![c] = p]
    BY <1>5 DEF ahc_first, send_response
  <2>2. /\ Busy' = Busy /\ phase'[c] # "headers"
        /\ \A d \in Conns \ {c} : phase'[d] = phase[d]
    BY <1>3, <1>5, <2>1 DEF ahc_first
  <2>3. c \in Busy /\ c \notin live
    BY <1>5 DEF ahc_first, Busy, PoolInv
  <2>4. CASE ctx_available = 0
    BY <1>4, <1>5, <2>2, <2>4 DEF ahc_first, TypeOK
  <2>5. CASE ctx_available # 0
    <3>1. live' = live \cup {c} /\ ctx_available' = ctx_available - 1
      BY <1>5, <2>5 DEF ahc_first, ctxa_alloc
    <3>2. Cardinality(live') = Cardinality(live) + 1
      BY <1>1, <2>3, <3>1, FS_AddElement
    <3> QED
      BY <1>1, <2>2, <2>3, <3>1, <3>2, ServerConstants
         DEF PoolInv, TypeOK
  <2> QED
    BY <2>4, <2>5
<1>6. ASSUME NEW c \in Conns, req_done(c)
      PROVE  PoolInv'
  <2>1. /\ Busy' = Busy \ {c} /\ live' = live \ {c} /\ c \in Busy
        /\ \A d \in live' : phase'[d] = phase[d]
        /\ ctx_available' = ctx_available + (IF c \in live THEN 1 ELSE 0)
    BY <1>6 DEF req_done, ctxa_free, Busy, TypeOK
  <2>2. /\ IsFiniteSet(Busy')
        /\ Cardinality(Busy') = Cardinality(Busy) - 1
    BY <2>1, FS_RemoveElement DEF PoolInv
  <2>3. Cardinality(live')
          = IF c \in live THEN Cardinality(live) - 1 ELSE Cardinality(live)
    BY <1>1, <2>1, FS_RemoveElement
  <2>4. ctx_available' = REQUESTS_MAX - Cardinality(live')
    BY <1>1, <2>1, <2>3, ServerConstants DEF PoolInv
  <2>5. Cardinality(Busy') <= REQUESTS_MAX
    BY <1>1, <2>2, ServerConstants DEF PoolInv
  <2> QED
    BY <1>6, <2>1, <2>2, <2>4, <2>5 DEF req_done, PoolInv
<1>7. ASSUME NEW c \in Conns,
             \/ BodyEnd(c) \/ Drop(c) \/ Sent(c) \/ ahc_other(c)
             \/ ahc_get(c) \/ ahc_get_not_found(c)
             \/ ahc_post_bad_length(c) \/ ahc_post_refuse(c)
             \/ ahc_post_commit(c)
      PROVE  PoolInv'
  <2>1. PICK p \in {"full", "reply", "closing"} :
          phase' = [phase EXCEPT ![c] = p]
    BY <1>7 DEF BodyEnd, Drop, Sent, ahc_other, ahc_get, ahc_get_not_found,
                ahc_post_bad_length, ahc_post_refuse, ahc_post_commit,
                send_response
  <2>2. phase[c] # "idle" /\ UNCHANGED <<live, ctx_available>>
    BY <1>7 DEF BodyEnd, Drop, Sent, ahc_other, ahc_get, ahc_get_not_found,
                ahc_post_bad_length, ahc_post_refuse, ahc_post_commit,
                Called
  <2>3. /\ Busy' = Busy /\ phase'[c] # "headers"
        /\ \A d \in Conns \ {c} : phase'[d] = phase[d]
    BY <1>3, <2>1, <2>2
  <2> QED
    BY <1>4, <2>2, <2>3 DEF TypeOK
<1>8. ASSUME NEW c \in Conns, NEW n \in 1..MAX_CHUNK,
             ahc_post_first(c, n) \/ ahc_post_next(c, n)
      PROVE  PoolInv'
  <2>1. /\ phase[c] # "idle" /\ UNCHANGED <<live, ctx_available>>
        /\ phase' = [phase EXCEPT ![c] = "closing"] \/ phase' = phase
    BY <1>8 DEF ahc_post_first, ahc_post_next, Receive, Receiving, Called
  <2>2. CASE phase' = [phase EXCEPT ![c] = "closing"]
    <3>1. /\ Busy' = Busy /\ phase'[c] # "headers"
          /\ \A d \in Conns \ {c} : phase'[d] = phase[d]
      BY <1>3, <2>1, <2>2
    <3> QED
      BY <1>4, <2>1, <3>1 DEF TypeOK
  <2>3. CASE phase' = phase
    BY <1>4, <2>1, <2>3 DEF Busy
  <2> QED
    BY <2>1, <2>2, <2>3
<1>9. ASSUME NEW c \in Conns,
             ahc_post_skip(c) \/ ahc_post_duplicate(c) \/ ahc_post_oom(c)
      PROVE  PoolInv'
  <2>1. UNCHANGED <<phase, live, ctx_available>>
    BY <1>9 DEF ahc_post_skip, ahc_post_duplicate, ahc_post_oom, Defer,
                vars, serverVars
  <2> QED
    BY <1>4, <2>1 DEF Busy
<1>10. CASE \/ Reaper \/ Tick \/ on_sigint \/ MHD_stop_daemon \/ cleanup
            \/ Exited
  <2>1. UNCHANGED <<phase, live, ctx_available>>
    BY <1>10 DEF Reaper, Tick, on_sigint, MHD_stop_daemon, cleanup, Exited,
                 vars, serverVars
  <2> QED
    BY <1>4, <2>1 DEF Busy
<1> QED
  BY <1>2, <1>5, <1>6, <1>7, <1>8, <1>9, <1>10 DEF Next, Client, ahc

(* So contexts are counted in every reachable state. *)
LEMMA PoolInvHolds == Spec => []PoolInv
<1>1. Init => PoolInv
  <2> SUFFICES ASSUME Init PROVE PoolInv
    OBVIOUS
  <2>1. Busy = {} /\ live = {}
    BY DEF Init, Busy
  <2> QED
    BY <2>1, FS_EmptySet, ServerConstants DEF Init, PoolInv
<1>2. IInv /\ PoolInv /\ [Next]_vars => PoolInv'
  <2> SUFFICES ASSUME IInv, PoolInv, [Next]_vars PROVE PoolInv'
    OBVIOUS
  <2>1. CASE UNCHANGED vars
    BY <2>1 DEF PoolInv, Busy, vars, serverVars
  <2> QED
    BY <2>1, PoolStep DEF IInv
<1> QED
  BY <1>1, <1>2, IInvHolds, PTL DEF Spec

(* The pool is counted exactly and never empty when a first call comes, so  *)
(* ahc drops no connection for lack of a context.                           *)
THEOREM PoolCorrect == Spec => []ContextForEach
<1>1. PoolInv => ContextForEach
  <2> SUFFICES ASSUME PoolInv, NEW c \in Conns, phase[c] = "headers"
               PROVE  ctx_available > 0
    BY DEF PoolInv, ContextForEach
  <2>1. c \in Busy /\ c \notin live
    BY DEF PoolInv, Busy
  <2>2. /\ Cardinality(live) \in Nat /\ Cardinality(Busy) \in Nat
        /\ Cardinality(live) <= Cardinality(Busy)
        /\ Cardinality(live) # Cardinality(Busy)
    BY <2>1, FS_Subset, FS_CardinalityType DEF PoolInv
  <2> QED
    BY <2>2, ServerConstants DEF PoolInv
<1> QED
  BY <1>1, PoolInvHolds, PTL
=============================================================================
