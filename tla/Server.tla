------------------------------- MODULE Server -------------------------------
(***************************************************************************)
(* The daemon of server.c: the access handler ahc and the completion       *)
(* callback req_done that libmicrohttpd (MHD, external) calls for every    *)
(* connection, the reaper that the event loop runs between them, and the   *)
(* shutdown path of main.  All of it is one thread: an action is one call. *)
(*                                                                         *)
(* What interleaves is the connections.  MHD calls ahc once when the       *)
(* headers are in, once per piece of body, and once when the request is    *)
(* complete; between two calls for one connection any calls for the        *)
(* others, reaper runs, disconnects and clock ticks may happen.            *)
(***************************************************************************)
EXTENDS Storage

CONSTANTS
  Conns,          \* connection slots of the clients
  NoId,           \* ctx->have_id is false
  IdOf,           \* the identifier an upload is POSTed under
  REQUESTS_MAX,   \* size of the context pool and MHD's connection limit
  BLOB_SIZE_MIN,  \* the smallest blob the service accepts
  BLOB_TTL_S,     \* lifetime of a published blob
  ContentLengths, \* Content-Length values clients send; -1 is no header
  MAX_CHUNK,      \* bound: bytes of body per ahc call
  MAX_NOW         \* bound: the clock

ASSUME ServerConstants ==
  /\ NoId \notin Ids
  /\ IdOf \in [Secrets -> Ids]
  /\ REQUESTS_MAX \in Nat
  /\ BLOB_SIZE_MIN \in Nat \ {0, 1}
  /\ BLOB_TTL_S \in Nat
  /\ ContentLengths \subseteq Int
  /\ MAX_CHUNK \in Nat
  /\ MAX_NOW \in Nat

(* The u32 clock does not reach the sentinels of blob_valid_until: 2^32      *)
(* seconds of uptime are 136 years.                                          *)
ASSUME ClockFits == MAX_NOW + BLOB_TTL_S < VALID_UNTIL_NOT_PUBLISHED

VARIABLES
  phase,          \* where MHD is with the request of each connection
  req,            \* the request it is serving
  live,           \* connections whose *con_cls points to a req_ctx_t
  ctx,            \* that req_ctx_t
  ctx_available,  \* free contexts in the pool
  daemon,         \* progress of main
  now,            \* monotonic_now_s()
  fate            \* history: what became of every secret

serverVars == <<phase, req, live, ctx, ctx_available>>
vars == <<storageVars, serverVars, daemon, now, fate>>

(***************************************************************************)
(* Requests and contexts.  "asset" is a static GET, exempt from rate       *)
(* limiting; "page" is every other request that never touches the store    *)
(* (/status, unknown paths and methods); "badid" is /blob/ with an         *)
(* identifier that is malformed or null.                                   *)
(***************************************************************************)
NoReq == [kind |-> "none", id |-> NoId, secret |-> NoSecret, clen |-> -1]
GetReq(id) == [kind |-> "get", id |-> id, secret |-> NoSecret, clen |-> -1]
PostReq(s, n) == [kind |-> "post", id |-> IdOf[s], secret |-> s, clen |-> n]
OtherReq(k) == [kind |-> k, id |-> NoId, secret |-> NoSecret, clen |-> -1]

Requests ==
  {GetReq(id) : id \in Ids}
    \cup {PostReq(s, n) : s \in Secrets, n \in ContentLengths}
    \cup {OtherReq(k) : k \in {"asset", "page", "badid"}}

Ctx == [post_body : Blk, blob_send : Blk, expected : 0..BLOB_SIZE_MAX,
        read : 0..BLOB_SIZE_MAX, id : Ids \cup {NoId},
        deferred_error : {"NO_ERROR", "OOM", "DUP"}]
NullCtx == [post_body |-> NullBlk, blob_send |-> NullBlk, expected |-> 0,
            read |-> 0, id |-> NoId, deferred_error |-> "NO_ERROR"]

Serving == daemon \in {"running", "signalled"}
Goto(c, p) == phase' = [phase EXCEPT ![c] = p]

Init ==
  /\ storage_init
  /\ phase = [c \in Conns |-> "idle"]
  /\ req = [c \in Conns |-> NoReq]
  /\ live = {}
  /\ ctx = [c \in Conns |-> NullCtx]
  /\ ctx_available = REQUESTS_MAX
  /\ daemon = "running"
  /\ now = 0
  /\ fate = [s \in Secrets |-> "new"]

(***************************************************************************)
(* MHD, as far as the handler depends on it.                               *)
(***************************************************************************)
Busy == {c \in Conns : phase[c] # "idle"}

(* The headers of a request are in; MHD holds to its connection limit.  A  *)
(* secret is uploaded by one POST, so that its fate is that of the POST.   *)
Accept(c, r) ==
  /\ Serving
  /\ phase[c] = "idle"
  /\ Cardinality(Busy) < REQUESTS_MAX
  /\ r.kind = "post" => fate[r.secret] = "new"
  /\ Goto(c, "headers")
  /\ req' = [req EXCEPT ![c] = r]
  /\ fate' = [s \in Secrets |-> IF s = r.secret THEN "sent" ELSE fate[s]]
  /\ UNCHANGED <<storageVars, live, ctx, ctx_available, daemon, now>>

(* The body, if any, is over: the next call has no upload data. *)
BodyEnd(c) ==
  /\ Serving
  /\ phase[c] = "body"
  /\ Goto(c, "full")
  /\ UNCHANGED <<storageVars, req, live, ctx, ctx_available, daemon, now, fate>>

(* send_response: MHD refuses to queue a response while the body is being    *)
(* received, and may fail otherwise; the handler then returns MHD_NO.        *)
QueueableIn == {"headers", "full"}
send_response(c) ==
  \/ phase[c] \in QueueableIn /\ Goto(c, "reply")
  \/ Goto(c, "closing")

(* The secret in the block that c is sending, if it is sending one. *)
Sending(c) == IF ctx[c].blob_send.size = 0 THEN {}
              ELSE {mem[ctx[c].blob_send.data].src}
Record(secrets, from, to) ==
  fate' = [s \in Secrets |-> IF s \in secrets /\ fate[s] = from THEN to
                             ELSE fate[s]]

(* The last byte of the response went out. *)
Sent(c) ==
  /\ Serving
  /\ phase[c] = "reply"
  /\ Goto(c, "closing")
  /\ Record(Sending(c), "taken", "delivered")
  /\ UNCHANGED <<storageVars, req, live, ctx, ctx_available, daemon, now>>

(* The client disconnects, the connection times out, or MHD_stop_daemon    *)
(* closes it.                                                              *)
Drop(c) ==
  /\ daemon # "stopped"
  /\ phase[c] \in {"headers", "body", "full", "reply"}
  /\ Goto(c, "closing")
  /\ UNCHANGED <<storageVars, req, live, ctx, ctx_available, daemon, now, fate>>

(***************************************************************************)
(* ctxalloc.h: the pool of request contexts.                               *)
(***************************************************************************)
ctxa_alloc(c) ==
  /\ live' = live \cup {c}
  /\ ctx' = [ctx EXCEPT ![c] = NullCtx]
  /\ ctx_available' = ctx_available - 1

(* Variant: the context of a refused connection is not returned. *)
ctxa_free_Leaks(c) ==
  /\ live' = live \ {c}
  /\ ctx' = [ctx EXCEPT ![c] = NullCtx]
  /\ UNCHANGED ctx_available

(* Called by req_done; a connection that got no context has none to return. *)
ctxa_free(c) ==
  /\ live' = live \ {c}
  /\ ctx' = [ctx EXCEPT ![c] = NullCtx]
  /\ ctx_available' = ctx_available + (IF c \in live THEN 1 ELSE 0)

(***************************************************************************)
(* ahc, first call: a context is taken from the pool and the debouncer is  *)
(* asked once.                                                             *)
(***************************************************************************)
ahc_first(c) ==
  /\ Serving
  /\ phase[c] = "headers"
  /\ IF ctx_available = 0
     THEN Goto(c, "closing") /\ UNCHANGED <<live, ctx, ctx_available>>
     ELSE /\ ctxa_alloc(c)
          /\ \/ Goto(c, "body")
             \/ req[c].kind # "asset" /\ send_response(c)
  /\ UNCHANGED <<storageVars, req, daemon, now, fate>>

(* The later calls, with upload data ("body") or without ("full"). *)
Called(c, kind, p) == Serving /\ phase[c] = p /\ req[c].kind = kind

(* A request that never reaches the store: refused if it has a body. *)
ahc_other(c) ==
  /\ \/ \E k \in {"asset", "page", "badid"} :
          Called(c, k, "body") /\ Goto(c, "closing")
     \/ Called(c, "badid", "full") /\ Goto(c, "closing")
     \/ \E k \in {"asset", "page"} :
          Called(c, k, "full") /\ send_response(c)
  /\ UNCHANGED <<storageVars, req, live, ctx, ctx_available, daemon, now, fate>>

(***************************************************************************)
(* GET /blob/<id>.  The blob leaves the table at once and now belongs to   *)
(* the request, whether or not the response can be queued.                 *)
(***************************************************************************)
ahc_get(c) ==
  /\ Called(c, "get", "body") \/ Called(c, "get", "full")
  /\ Gettable(req[c].id)
  /\ LET blob == blob_data[req[c].id] IN
       /\ ctx' = [ctx EXCEPT ![c].blob_send = blob]
       /\ Record({mem[blob.data].src}, "published", "taken")
  /\ storage_blob_get(req[c].id)
  /\ send_response(c)
  /\ UNCHANGED <<req, live, ctx_available, daemon, now>>

ahc_get_not_found(c) ==
  /\ Called(c, "get", "body") \/ Called(c, "get", "full")
  /\ ~Gettable(req[c].id)
  /\ send_response(c)
  /\ UNCHANGED <<storageVars, req, live, ctx, ctx_available, daemon, now, fate>>

(***************************************************************************)
(* POST /blob/<id> with upload data.                                       *)
(***************************************************************************)
Expected(c) == IF ctx[c].expected = 0 THEN req[c].clen ELSE ctx[c].expected
LengthOk(n) == BLOB_SIZE_MIN <= n /\ n <= BLOB_SIZE_MAX

(* Data that follows a deferred error is discarded. *)
ahc_post_skip(c) ==
  /\ Called(c, "post", "body")
  /\ ctx[c].deferred_error # "NO_ERROR"
  /\ UNCHANGED vars

(* No Content-Length, an invalid one, or one out of range. *)
ahc_post_bad_length(c) ==
  /\ Called(c, "post", "body")
  /\ ctx[c].deferred_error = "NO_ERROR"
  /\ ~LengthOk(Expected(c))
  /\ ctx' = [ctx EXCEPT ![c].id = req[c].id]
  /\ Goto(c, "closing")
  /\ UNCHANGED <<storageVars, req, live, ctx_available, daemon, now, fate>>

Receiving(c) ==
  /\ Called(c, "post", "body")
  /\ ctx[c].deferred_error = "NO_ERROR"
  /\ LengthOk(Expected(c))

(* AHC_POST_DEFER_ERROR: the answer has to wait for the end of the body. *)
Defer(c, error) ==
  /\ ctx' = [ctx EXCEPT ![c].id = req[c].id,
                        ![c].expected = Expected(c),
                        ![c].deferred_error = error]
  /\ UNCHANGED <<storageVars, phase, req, live, ctx_available, daemon, now,
                 fate>>

ahc_post_duplicate(c) ==
  /\ Receiving(c)
  /\ ctx[c].post_body.size = 0
  /\ storage_blob_is_already_taken(req[c].id)
  /\ Defer(c, "DUP")

ahc_post_oom(c) ==
  /\ Receiving(c)
  /\ ctx[c].post_body.size = 0
  /\ ~storage_blob_is_already_taken(req[c].id)
  /\ Creatable(Expected(c)) = {}
  /\ Defer(c, "OOM")

(* Variant: the payload may run over the announced length. *)
Overflows_Unchecked(c, n) == FALSE

(* n bytes arrive for blk: refused if the payload would overflow, copied   *)
(* behind what was read so far otherwise.                                  *)
Overflows(c, n) == ctx[c].read + n > Expected(c)
Receive(c, n, blk) ==
  LET got == IF Overflows(c, n) THEN 0 ELSE n IN
  /\ ctx' = [ctx EXCEPT ![c].id = req[c].id,
                        ![c].expected = Expected(c),
                        ![c].post_body = blk,
                        ![c].read = @ + got]
  /\ IF Overflows(c, n)
     THEN Goto(c, "closing") /\ UNCHANGED mem
     ELSE /\ mem' = [mem EXCEPT ![blk.data] =
                       Written(@, req[c].secret, ctx[c].read, n)]
          /\ UNCHANGED phase
  /\ UNCHANGED <<req, live, ctx_available, daemon, now, fate>>

(* The first piece of body reserves the identifier and a block. *)
ahc_post_first(c, n) ==
  /\ Receiving(c)
  /\ ctx[c].post_body.size = 0
  /\ ~storage_blob_is_already_taken(req[c].id)
  /\ \E b \in Creatable(Expected(c)) :
       /\ storage_blob_create(req[c].id, Expected(c), b)
       /\ Receive(c, n, [data |-> b, size |-> Expected(c)])

ahc_post_next(c, n) ==
  /\ Receiving(c)
  /\ ctx[c].post_body.size # 0
  /\ Receive(c, n, ctx[c].post_body)
  /\ UNCHANGED <<blob_ids, blob_data, blob_valid_until, htable_free,
                 free_blocks>>

(***************************************************************************)
(* POST /blob/<id>, the final call.                                        *)
(***************************************************************************)
(* Variant: a body that falls short is accepted. *)
Complete_Short(c) == ctx[c].post_body.size # 0

Complete(c) == ctx[c].post_body.size # 0 /\ ctx[c].read = ctx[c].expected

(* A deferred error is answered, or "Bad blob": the body fell short. *)
ahc_post_refuse(c) ==
  /\ Called(c, "post", "full")
  /\ ctx[c].deferred_error # "NO_ERROR" \/ ~Complete(c)
  /\ ctx' = [ctx EXCEPT ![c].id = req[c].id]
  /\ send_response(c)
  /\ UNCHANGED <<storageVars, req, live, ctx_available, daemon, now, fate>>

(* Variant: post_body survives the commit. *)
Committed_NotCleared(c) == ctx

Committed(c) == [ctx EXCEPT ![c].post_body = NullBlk]

(* Publishing the blob forbids req_done to abort it, whether or not the    *)
(* 200 can be queued.                                                      *)
ahc_post_commit(c) ==
  /\ Called(c, "post", "full")
  /\ ctx[c].deferred_error = "NO_ERROR"
  /\ Complete(c)
  /\ storage_blob_publish(ctx[c].id, now + BLOB_TTL_S)
  /\ IF ctx[c].id \in blob_ids
     THEN /\ ctx' = Committed(c)
          /\ fate' = [fate EXCEPT ![req[c].secret] = "published"]
     ELSE UNCHANGED <<ctx, fate>>
  /\ send_response(c)
  /\ UNCHANGED <<req, live, ctx_available, daemon, now>>

(***************************************************************************)
(* req_done: an upload that was not committed is aborted by identifier, a  *)
(* blob that was sent is freed, and the context returns to the pool.       *)
(***************************************************************************)
(* Variant: every POST is aborted, the refused duplicate included. *)
MustAbort_AnyPost(c) == ctx[c].id # NoId

MustAbort(c) == ctx[c].post_body.size # 0

req_done(c) ==
  /\ phase[c] = "closing"
  /\ daemon # "stopped"
  /\ LET aborted == IF MustAbort(c) THEN {ctx[c].id} \cap blob_ids ELSE {}
         sent == IF ctx[c].blob_send.size # 0 THEN {ctx[c].blob_send} ELSE {}
     IN  /\ storage_blob_abort(aborted)
         /\ storage_blob_free({blob_data[id] : id \in aborted} \cup sent)
  /\ Record(Sending(c), "taken", "lost")
  /\ ctxa_free(c)
  /\ Goto(c, "idle")
  /\ req' = [req EXCEPT ![c] = NoReq]
  /\ UNCHANGED <<daemon, now>>

(***************************************************************************)
(* The event loop's own work, and the end of main.                         *)
(***************************************************************************)
(* Variant: the reaper waits for a moment without requests. *)
Reaper_WhenIdle ==
  /\ Serving
  /\ Busy = {}
  /\ storage_reaper(now)
  /\ Record({mem[blob_data[id].data].src : id \in Expired(now)},
            "published", "expired")
  /\ UNCHANGED <<serverVars, daemon, now>>

Reaper ==
  /\ Serving
  /\ storage_reaper(now)
  /\ Record({mem[blob_data[id].data].src : id \in Expired(now)},
            "published", "expired")
  /\ UNCHANGED <<serverVars, daemon, now>>

Tick ==
  /\ now < MAX_NOW
  /\ daemon # "stopped"
  /\ now' = now + 1
  /\ UNCHANGED <<storageVars, serverVars, daemon, fate>>

on_sigint ==
  /\ daemon = "running"
  /\ daemon' = "signalled"
  /\ UNCHANGED <<storageVars, serverVars, now, fate>>

(* The loop sees the flag, or MHD_run failed: MHD_stop_daemon is called. *)
MHD_stop_daemon ==
  /\ Serving
  /\ daemon' = "stopping"
  /\ UNCHANGED <<storageVars, serverVars, now, fate>>

(* Variant: the store is wiped before MHD_stop_daemon has finished. *)
Quiet_TooEarly == TRUE

(* What main relies on: MHD_stop_daemon returns when MHD has completed every *)
(* request.                                                                  *)
Quiet == Busy = {}
cleanup ==
  /\ daemon = "stopping"
  /\ Quiet
  /\ storage_zero
  /\ daemon' = "stopped"
  /\ fate' = [s \in Secrets |-> IF fate[s] = "published" THEN "wiped"
                                ELSE fate[s]]
  /\ UNCHANGED <<serverVars, now>>

Exited == daemon = "stopped" /\ UNCHANGED vars

ahc(c) ==
  \/ ahc_first(c) \/ ahc_other(c)
  \/ ahc_get(c) \/ ahc_get_not_found(c)
  \/ ahc_post_skip(c) \/ ahc_post_bad_length(c)
  \/ ahc_post_duplicate(c) \/ ahc_post_oom(c)
  \/ \E n \in 1..MAX_CHUNK : ahc_post_first(c, n) \/ ahc_post_next(c, n)
  \/ ahc_post_refuse(c) \/ ahc_post_commit(c)

Client(c) ==
  (\E r \in Requests : Accept(c, r)) \/ BodyEnd(c) \/ Sent(c) \/ Drop(c)

Next ==
  \/ \E c \in Conns : Client(c) \/ ahc(c) \/ req_done(c)
  \/ Reaper \/ Tick \/ on_sigint \/ MHD_stop_daemon \/ cleanup \/ Exited

Spec == Init /\ [][Next]_vars

(***************************************************************************)
(* What main's loop guarantees: the reaper's timer keeps firing, the loop  *)
(* looks at stop_main_loop again after every epoll_wait, and MHD completes *)
(* every request it has to close.  Clients, and MHD's connection timeout,  *)
(* are given no fairness: a stalled upload may stall for ever.             *)
(***************************************************************************)
LoopExit == daemon = "signalled" /\ MHD_stop_daemon
CloseForShutdown(c) == daemon = "stopping" /\ Drop(c)
Fairness ==
  /\ WF_vars(Reaper) /\ WF_vars(LoopExit) /\ WF_vars(cleanup)
  /\ \A c \in Conns : WF_vars(req_done(c)) /\ WF_vars(CloseForShutdown(c))
FairSpec == Spec /\ Fairness

-----------------------------------------------------------------------------
TypeOK ==
  /\ blob_ids \subseteq Ids
  /\ blob_data \in [Ids -> Blk]
  /\ blob_valid_until \in [Ids -> 0..UINT32_MAX]
  /\ htable_free \in Int
  /\ free_blocks \subseteq Blocks
  /\ mem \in [Blocks -> Content]
  /\ phase \in [Conns -> {"idle", "headers", "body", "full", "reply",
                          "closing"}]
  /\ req \in [Conns -> Requests \cup {NoReq}]
  /\ live \subseteq Conns
  /\ ctx \in [Conns -> Ctx]
  /\ ctx_available \in Int
  /\ daemon \in {"running", "signalled", "stopping", "stopped"}
  /\ now \in 0..MAX_NOW
  /\ fate \in [Secrets -> {"new", "sent", "published", "taken", "delivered",
                           "expired", "lost", "wiped"}]

(* The blocks of the rows, and the blocks lent to requests that send them. *)
TableBlocks == {blob_data[id].data : id \in blob_ids}
Senders == {c \in Conns : ctx[c].blob_send.size # 0}
LentBlocks == {ctx[c].blob_send.data : c \in Senders}
Uploaders == {c \in Conns : ctx[c].post_body.size # 0}

(* Until the process ends every block has exactly one owner: the free list, *)
(* one row, or one request whose response MHD may still be reading.  So no  *)
(* block is freed twice, leaked, or recycled under a reader.                *)
BlockOwnership ==
  daemon # "stopped" =>
    /\ free_blocks \cap TableBlocks = {}
    /\ free_blocks \cap LentBlocks = {}
    /\ TableBlocks \cap LentBlocks = {}
    /\ Blocks = free_blocks \cup TableBlocks \cup LentBlocks
    /\ \A i, j \in blob_ids : blob_data[i].data = blob_data[j].data => i = j
    /\ \A c, d \in Senders :
         ctx[c].blob_send.data = ctx[d].blob_send.data => c = d

(* An upload in progress owns an unpublished row with its own block, so     *)
(* req_done's abort, which goes by identifier, can only hit that row; and   *)
(* every unpublished row, which the reaper never touches, has such an       *)
(* owner, so none is left behind.                                           *)
UploadOwnsRow ==
  daemon # "stopped" =>
    /\ \A c \in Uploaders :
         /\ ctx[c].id \in blob_ids
         /\ blob_valid_until[ctx[c].id] = VALID_UNTIL_NOT_PUBLISHED
         /\ blob_data[ctx[c].id] = ctx[c].post_body
    /\ \A c, d \in Uploaders : ctx[c].id = ctx[d].id => c = d
    /\ \A id \in blob_ids :
         blob_valid_until[id] = VALID_UNTIL_NOT_PUBLISHED =>
           \E c \in Uploaders : ctx[c].id = id

(***************************************************************************)
(* The inductive form of the two invariants above: it also says which      *)
(* requests can be sending or uploading at all.                            *)
(***************************************************************************)
RowsOwned ==
  /\ \A id \in blob_ids : /\ blob_data[id].data \in Blocks \ free_blocks
                          /\ blob_data[id].size # 0
  /\ \A i, j \in blob_ids : blob_data[i].data = blob_data[j].data => i = j
LentOwned ==
  /\ \A c \in Senders :
       /\ ctx[c].blob_send.data \in Blocks \ free_blocks
       /\ \A id \in blob_ids : blob_data[id].data # ctx[c].blob_send.data
  /\ \A c, d \in Senders :
       ctx[c].blob_send.data = ctx[d].blob_send.data => c = d
UploadsOwned ==
  /\ \A c \in Uploaders :
       /\ ctx[c].id \in blob_ids
       /\ blob_valid_until[ctx[c].id] = VALID_UNTIL_NOT_PUBLISHED
       /\ blob_data[ctx[c].id] = ctx[c].post_body
       /\ ctx[c].id = req[c].id
  /\ \A c, d \in Uploaders : ctx[c].id = ctx[d].id => c = d
RowsUploaded ==
  \A id \in blob_ids :
    blob_valid_until[id] = VALID_UNTIL_NOT_PUBLISHED =>
      \E c \in Uploaders : ctx[c].id = id
NoLeak ==
  \A b \in Blocks :
    \/ b \in free_blocks
    \/ \E id \in blob_ids : blob_data[id].data = b
    \/ \E c \in Senders : ctx[c].blob_send.data = b
Roles ==
  /\ \A c \in Senders : /\ phase[c] \in {"reply", "closing"}
                        /\ req[c].kind = "get"
  /\ \A c \in Uploaders : /\ phase[c] \in {"body", "full", "reply", "closing"}
                          /\ req[c].kind = "post"
Owned ==
  daemon # "stopped" =>
    RowsOwned /\ LentOwned /\ UploadsOwned /\ RowsUploaded /\ NoLeak /\ Roles

(* A committed upload stays in the table, complete and unaltered, until a   *)
(* GET takes it or the reaper finds it expired; nothing else is served      *)
(* under its identifier meanwhile.                                          *)
Intact(blk, s) == mem[blk.data] = [src |-> s, len |-> blk.size]
PublishedIsHeld ==
  \A s \in Secrets :
    fate[s] = "published" =>
      Gettable(IdOf[s]) /\ Intact(blob_data[IdOf[s]], s)

(* Conversely what a GET can see is a committed upload: no partial body, no *)
(* aborted one, nothing that was served before.                             *)
ServableIsPublished ==
  daemon # "stopped" =>
    \A id \in blob_ids :
      Gettable(id) => \E s \in Secrets : /\ IdOf[s] = id
                                         /\ fate[s] = "published"

(* While MHD sends a blob its block holds the whole secret that was asked   *)
(* for, and nobody else is sending it: one GET per secret.  That includes   *)
(* shutdown: storage_zero wipes the arena under no response.                *)
SentIntact ==
  /\ \A c \in Senders :
       \E s \in Secrets : /\ IdOf[s] = req[c].id
                          /\ Intact(ctx[c].blob_send, s)
                          /\ fate[s] \in {"taken", "delivered"}
  /\ \A c, d \in Senders : Sending(c) = Sending(d) => c = d

(* The daemon implements OneTimeStore: what a GET would return now, what is *)
(* being sent, and which uploads were ever committed.                       *)
Held == {s \in Secrets : /\ Gettable(IdOf[s])
                         /\ Intact(blob_data[IdOf[s]], s)}
Lent == {s \in Secrets : \E c \in Senders : Intact(ctx[c].blob_send, s)}
Spent == {s \in Secrets : fate[s] \notin {"new", "sent"}}
Store == INSTANCE OneTimeStore WITH held <- Held, lent <- Lent, spent <- Spent
OneTime == Store!Spec

(* No byte of any secret survives in a block on the free list. *)
NoResidue == \A b \in free_blocks : mem[b] = Zeros

(* The slot counter, by which storage_blob_create refuses, is exact. *)
SlotsCounted ==
  daemon # "stopped" => htable_free = HTABLE_SIZE - Cardinality(blob_ids)

(* The pool has a context for every connection MHD lets in, so ahc never   *)
(* has to drop one for lack of a context.                                   *)
ContextForEach ==
  /\ ctx_available = REQUESTS_MAX - Cardinality(live)
  /\ \A c \in Conns : phase[c] = "headers" => ctx_available > 0

(* A published row disappears only by a GET, by expiry, or at exit. *)
OnlyGetOrExpiry ==
  [][\A id \in blob_ids :
       Gettable(id) /\ id \notin blob_ids' =>
         \/ \E c \in Conns : /\ phase'[c] # phase[c]
                             /\ ctx'[c].blob_send = blob_data[id]
         \/ blob_valid_until[id] < now
         \/ daemon' = "stopped"]_vars

(* An expired blob does not stay: the reaper comes, or the process ends. *)
ExpiredVanishes ==
  \A id \in Ids :
    (id \in blob_ids /\ blob_valid_until[id] < now) ~>
      ~(id \in blob_ids /\ blob_valid_until[id] < now)
=============================================================================
