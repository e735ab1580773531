-------------------------- MODULE ServerDataProofs --------------------------
(***************************************************************************)
(* Proofs about what the blocks of Server hold: whose bytes, how many, and *)
(* who may read them.  They build on the ownership of blocks that          *)
(* ServerProofs establishes, and end in the refinement of OneTimeStore.    *)
(***************************************************************************)
EXTENDS ServerProofs

USE DEF Goto

(* The block of an upload holds the bytes that were counted, all of them    *)
(* the upload's own.                                                        *)
UploadBytes ==
  \A c \in Uploaders :
    /\ ctx[c].expected = ctx[c].post_body.size
    /\ ctx[c].read <= ctx[c].expected
    /\ mem[ctx[c].post_body.data].len = ctx[c].read
    /\ ctx[c].read # 0 => mem[ctx[c].post_body.data].src = req[c].secret

(* A request that has no block yet begins to write at the first byte. *)
FreshBodies ==
  \A c \in Conns :
    phase[c] = "body" /\ ctx[c].post_body.size = 0 => ctx[c].read = 0

(* No two requests carry the same secret, and until it is committed the     *)
(* secret was never readable.                                               *)
Uncommitted == {"headers", "body", "full"}
SecretsApart ==
  /\ \A c \in Conns :
       req[c].kind = "post" =>
         /\ fate[req[c].secret] # "new"
         /\ phase[c] \in Uncommitted => fate[req[c].secret] = "sent"
  /\ \A c, d \in Conns :
       /\ req[c].kind = "post" /\ req[d].kind = "post"
       /\ req[c].secret = req[d].secret
       => c = d

(* What holds until the process ends, and what is left then. *)
Kept ==
  /\ PublishedIsHeld /\ ServableIsPublished /\ SentIntact /\ NoResidue
  /\ daemon # "stopped" => UploadBytes
  /\ daemon = "stopped" =>
       /\ Senders = {} /\ free_blocks = {}
       /\ \A s \in Secrets : fate[s] # "published"

DInv == IInv /\ FreshBodies /\ SecretsApart /\ Kept

(* The server starts with no secret and clean memory. *)
LEMMA InitDInv == Init => DInv
<1> SUFFICES ASSUME Init PROVE DInv
  OBVIOUS
<1>1. Senders = {} /\ Uploaders = {}
  BY DEF Init, Senders, Uploaders, NullCtx, NullBlk
<1>2. FreshBodies /\ SecretsApart
  BY DEF Init, FreshBodies, SecretsApart, NoReq
<1>3. Kept
  BY <1>1 DEF Init, storage_init, Kept, PublishedIsHeld, ServableIsPublished,
              SentIntact, NoResidue, UploadBytes
<1> QED
  BY <1>2, <1>3, InitIInv DEF DInv

(* A POST carries a secret, under the secret's identifier. *)
LEMMA PostRequest ==
  ASSUME TypeOK, NEW c \in Conns, req[c].kind = "post"
  PROVE  req[c].secret \in Secrets /\ req[c].id = IdOf[req[c].secret]
<1>1. req[c] \in Requests \cup {NoReq}
  BY DEF TypeOK
<1> QED
  BY <1>1 DEF Requests, NoReq, GetReq, PostReq, OtherReq

(* The body begins with a new context, and read is only touched once there  *)
(* is a block.                                                              *)
LEMMA FreshStep ==
  ASSUME TypeOK, FreshBodies, Next
  PROVE  FreshBodies'
<1> SUFFICES ASSUME NEW d \in Conns, phase'[d] = "body",
                    ctx'[d].post_body.size = 0
             PROVE  ctx'[d].read = 0
  BY DEF FreshBodies
<1>1. ASSUME NEW c \in Conns,
             Client(c) \/ ahc_other(c) \/ ahc_get_not_found(c)
      PROVE  ctx'[d].read = 0
  <2>1. PICK p \in {"headers", "full", "reply", "closing"} :
          phase' = [phase EXCEPT ![c] = p] /\ ctx' = ctx
    BY <1>1 DEF Client, Accept, BodyEnd, Sent, Drop, ahc_other,
                ahc_get_not_found, send_response
  <2> QED
    BY <2>1 DEF TypeOK, FreshBodies
<1>2. ASSUME NEW c \in Conns, ahc_first(c) \/ req_done(c)
      PROVE  ctx'[d].read = 0
  <2>1. /\ \A e \in Conns \ {c} : phase'[e] = phase[e] /\ ctx'[e] = ctx[e]
        /\ phase'[c] = "body" => ctx'[c].read = 0
    <3>1. CASE ahc_first(c)
      BY <3>1 DEF ahc_first, ctxa_alloc, NullCtx, TypeOK, send_response
    <3>2. CASE req_done(c)
      BY <3>2 DEF req_done, ctxa_free, TypeOK
    <3> QED
      BY <1>2, <3>1, <3>2
  <2> QED
    BY <2>1 DEF FreshBodies
<1>3. ASSUME NEW c \in Conns,
             ahc_get(c) \/ ahc_post_bad_length(c) \/ ahc_post_refuse(c)
               \/ ahc_post_commit(c)
      PROVE  ctx'[d].read = 0
  <2>1. PICK p \in {"reply", "closing"} : phase' = [phase EXCEPT ![c] = p]
    BY <1>3 DEF ahc_get, ahc_post_bad_length, ahc_post_refuse,
                ahc_post_commit, send_response
  <2>2. d # c
    BY <2>1 DEF TypeOK
  <2>3. phase'[d] = phase[d]
    BY <2>1, <2>2 DEF TypeOK
  <2>4. ctx'[d] = ctx[d]
    BY <1>3, <2>2 DEF ahc_get, ahc_post_bad_length, ahc_post_refuse,
                      ahc_post_commit, Committed, TypeOK
  <2> QED
    BY <2>3, <2>4 DEF FreshBodies
<1>4. ASSUME NEW c \in Conns, ahc_post_duplicate(c) \/ ahc_post_oom(c)
      PROVE  ctx'[d].read = 0
  <2>1. phase' = phase
    BY <1>4 DEF ahc_post_duplicate, ahc_post_oom, Defer
  <2>2. /\ ctx'[d].read = ctx[d].read
        /\ ctx'[d].post_body = ctx[d].post_body
    BY <1>4 DEF ahc_post_duplicate, ahc_post_oom, Defer, TypeOK, Ctx
  <2> QED
    BY <2>1, <2>2 DEF FreshBodies
<1>5. ASSUME NEW c \in Conns, NEW n \in 1..MAX_CHUNK,
             ahc_post_first(c, n) \/ ahc_post_next(c, n)
      PROVE  ctx'[d].read = 0
  <2>1. PICK blk : Receive(c, n, blk) /\ blk.size # 0
    <3>1. CASE ahc_post_first(c, n)
      BY <3>1, ExpectedType DEF ahc_post_first, Receiving
    <3>2. CASE ahc_post_next(c, n)
      BY <3>2 DEF ahc_post_next
    <3> QED
      BY <1>5, <3>1, <3>2
  <2>2. ctx'[c].post_body = blk
    BY <2>1 DEF Receive, TypeOK, Ctx
  <2>3. d # c
    BY <2>1, <2>2
  <2>4. phase'[d] = phase[d] /\ ctx'[d] = ctx[d]
    BY <2>1, <2>3 DEF Receive, TypeOK
  <2> QED
    BY <2>4 DEF FreshBodies
<1>6. ASSUME NEW c \in Conns, ahc_post_skip(c)
      PROVE  ctx'[d].read = 0
  BY <1>6 DEF ahc_post_skip, vars, serverVars, FreshBodies
<1>7. CASE Reaper \/ Tick \/ on_sigint \/ MHD_stop_daemon \/ cleanup \/ Exited
  BY <1>7 DEF Reaper, Tick, on_sigint, MHD_stop_daemon, cleanup, Exited,
              vars, serverVars, FreshBodies
<1> QED
  BY <1>1, <1>2, <1>3, <1>4, <1>5, <1>6, <1>7 DEF Next, ahc

(* Only the headers of a request bring a secret, and it has to be new. *)
LEMMA SecretsStep ==
  ASSUME TypeOK, SecretsApart, Next
  PROVE  SecretsApart'
<1> USE DEF Uncommitted
<1>1. ASSUME NEW c \in Conns, NEW r \in Requests, Accept(c, r)
      PROVE  SecretsApart'
  <2>1. /\ req'[c] = r
        /\ \A d \in Conns \ {c} : req'[d] = req[d] /\ phase'[d] = phase[d]
        /\ r.kind = "post" => fate[r.secret] = "new"
        /\ \A s \in Secrets : fate'[s] = IF s = r.secret THEN "sent"
                                         ELSE fate[s]
    BY <1>1 DEF Accept, TypeOK
  <2>2. IF r.kind = "post" THEN r.secret \in Secrets
        ELSE r.secret \notin Secrets
    BY StorageConstants DEF Requests, GetReq, PostReq, OtherReq
  <2>3. \A d \in Conns : req[d].kind = "post" => req[d].secret \in Secrets
    BY PostRequest
  <2>4. \A d \in Conns \ {c} :
          req[d].kind = "post" => req[d].secret # r.secret
    BY <2>1, <2>2, <2>3 DEF SecretsApart
  <2> QED
    BY <2>1, <2>2, <2>3, <2>4 DEF SecretsApart
<1>2. ASSUME NEW c \in Conns, req_done(c)
      PROVE  SecretsApart'
  <2>1. /\ req'[c].kind # "post"
        /\ \A d \in Conns \ {c} : req'[d] = req[d] /\ phase'[d] = phase[d]
    BY <1>2 DEF req_done, NoReq, TypeOK
  <2>2. \A s \in Secrets :
          \/ fate'[s] = fate[s]
          \/ fate[s] = "taken" /\ fate'[s] = "lost"
    BY <1>2 DEF req_done, Record
  <2> QED
    BY <2>1, <2>2, PostRequest DEF SecretsApart
<1>3. ASSUME NEW c \in Conns, ahc_post_commit(c)
      PROVE  SecretsApart'
  <2>1. /\ req' = req /\ req[c].kind = "post"
        /\ phase'[c] \notin Uncommitted
        /\ \A d \in Conns \ {c} : phase'[d] = phase[d]
    BY <1>3 DEF ahc_post_commit, Called, send_response, TypeOK
  <2>2. /\ fate'[req[c].secret] # "new"
        /\ \A s \in Secrets \ {req[c].secret} : fate'[s] = fate[s]
    BY <1>3, <2>1, PostRequest DEF ahc_post_commit, TypeOK, SecretsApart
  <2> QED
    BY <2>1, <2>2, PostRequest DEF SecretsApart
<1>4. ASSUME NEW c \in Conns, ~ahc_post_commit(c),
             BodyEnd(c) \/ Sent(c) \/ Drop(c) \/ ahc(c)
      PROVE  SecretsApart'
  <2>1. req' = req
    BY <1>4 DEF BodyEnd, Sent, Drop, ahc, ahc_first, ahc_other, ahc_get,
                ahc_get_not_found, ahc_post_skip, ahc_post_bad_length,
                ahc_post_duplicate, ahc_post_oom, Defer, ahc_post_first,
                ahc_post_next, Receive, ahc_post_refuse, vars, serverVars
  <2>2. \A s \in Secrets :
          \/ fate'[s] = fate[s]
          \/ fate[s] \in {"published", "taken"} /\ fate'[s] # "new"
    <3>1. CASE BodyEnd(c) \/ Sent(c) \/ Drop(c)
      BY <3>1 DEF BodyEnd, Sent, Drop, Record
    <3>2. CASE ahc(c)
      BY <1>4, <3>2
         DEF ahc, ahc_first, ahc_other, ahc_get, ahc_get_not_found,
             ahc_post_skip, ahc_post_bad_length, ahc_post_duplicate,
             ahc_post_oom, Defer, ahc_post_first, ahc_post_next, Receive,
             ahc_post_refuse, Record, vars
    <3> QED
      BY <1>4, <3>1, <3>2
  <2>3. \/ phase' = phase
        \/ /\ phase[c] \in Uncommitted \cup {"reply"}
           /\ \E p \in {"body", "full", "reply", "closing"} :
                phase' = [phase EXCEPT ![c] = p]
           /\ phase[c] = "reply" => phase' = [phase EXCEPT ![c] = "closing"]
    <3>1. CASE BodyEnd(c) \/ Sent(c) \/ Drop(c)
      BY <3>1 DEF BodyEnd, Sent, Drop
    <3>2. CASE ahc(c)
      BY <1>4, <3>2
         DEF ahc, ahc_first, ahc_other, ahc_get, ahc_get_not_found, Called,
             ahc_post_skip, ahc_post_bad_length, ahc_post_duplicate,
             ahc_post_oom, Defer, ahc_post_first, ahc_post_next, Receive,
             Receiving, ahc_post_refuse, send_response, vars, serverVars
    <3> QED
      BY <1>4, <3>1, <3>2
  <2>4. \A d \in Conns : phase'[d] \in Uncommitted => phase[d] \in Uncommitted
    BY <2>3 DEF TypeOK
  <2> QED
    BY <2>1, <2>2, <2>4, PostRequest DEF SecretsApart
<1>5. CASE Reaper \/ Tick \/ on_sigint \/ MHD_stop_daemon \/ cleanup \/ Exited
  <2>1. req' = req /\ phase' = phase
    BY <1>5 DEF Reaper, Tick, on_sigint, MHD_stop_daemon, cleanup, Exited,
                vars, serverVars
  <2>2. \A s \in Secrets :
          \/ fate'[s] = fate[s]
          \/ fate[s] = "published" /\ fate'[s] # "new"
    BY <1>5 DEF Reaper, Tick, on_sigint, MHD_stop_daemon, cleanup, Exited,
                Record, vars
  <2> QED
    BY <2>1, <2>2, PostRequest DEF SecretsApart
<1> QED
  BY <1>1, <1>2, <1>3, <1>4, <1>5 DEF Next, Client, ahc

(* A row that GET may take holds the secret that was committed under its    *)
(* identifier; so does the block of a response.                             *)
LEMMA RowSecret ==
  ASSUME Kept, daemon # "stopped", NEW id \in blob_ids, Gettable(id)
  PROVE  \E s \in Secrets : /\ IdOf[s] = id /\ fate[s] = "published"
                            /\ Intact(blob_data[id], s)
  BY DEF Kept, ServableIsPublished, PublishedIsHeld

(* What a response sends is a secret its own GET has taken. *)
LEMMA SenderSecret ==
  ASSUME Kept, NEW c \in Senders
  PROVE  \E s \in Secrets : /\ IdOf[s] = req[c].id
                            /\ fate[s] \in {"taken", "delivered"}
                            /\ Intact(ctx[c].blob_send, s)
                            /\ Sending(c) = {s}
<1>1. PICK s \in Secrets : /\ IdOf[s] = req[c].id
                           /\ Intact(ctx[c].blob_send, s)
                           /\ fate[s] \in {"taken", "delivered"}
  BY DEF Kept, SentIntact
<1>2. mem[ctx[c].blob_send.data].src = s
  BY <1>1 DEF Intact
<1>3. Sending(c) = {s}
  BY <1>2 DEF Sending, Senders
<1> QED
  BY <1>1, <1>3

(* An intact block belongs to one secret. *)
LEMMA IntactUnique ==
  ASSUME NEW blk, NEW s, NEW t, Intact(blk, s), Intact(blk, t)
  PROVE  s = t /\ mem[blk.data].src = s /\ mem[blk.data].len = blk.size
  BY DEF Intact

(* Responses keep what they send if their blocks and secrets are kept. *)
LEMMA SentFrame ==
  ASSUME Kept, Senders' \subseteq Senders,
         \A d \in Senders' :
           /\ ctx'[d].blob_send = ctx[d].blob_send /\ req'[d] = req[d]
           /\ mem'[ctx[d].blob_send.data] = mem[ctx[d].blob_send.data],
         \A d \in Senders', t \in Secrets :
           Sending(d) = {t} /\ fate[t] \in {"taken", "delivered"} =>
             fate'[t] \in {"taken", "delivered"}
  PROVE  SentIntact'
<1>1. \A d \in Senders' : Sending(d)' = Sending(d)
  BY DEF Sending
<1>2. ASSUME NEW d \in Senders'
      PROVE  \E t \in Secrets : /\ IdOf[t] = req'[d].id
                                /\ Intact(ctx[d].blob_send, t)'
                                /\ fate'[t] \in {"taken", "delivered"}
  <2>1. PICK t \in Secrets : /\ IdOf[t] = req[d].id
                             /\ fate[t] \in {"taken", "delivered"}
                             /\ Intact(ctx[d].blob_send, t)
                             /\ Sending(d) = {t}
    BY SenderSecret
  <2> QED
    BY <2>1 DEF Intact
<1> QED
  BY <1>1, <1>2 DEF Kept, SentIntact

(***************************************************************************)
(* A step that leaves rows, blocks and their bytes alone keeps what they   *)
(* hold, if it only tells the history that a request came or was answered. *)
(***************************************************************************)
KeepsBytes ==
  /\ mem' = mem
  /\ \A d \in Conns :
       ctx[d].post_body.size # 0 => /\ ctx'[d].read = ctx[d].read
                                    /\ ctx'[d].expected = ctx[d].expected
KeepsFate ==
  \A s \in Secrets :
    \/ fate'[s] = fate[s]
    \/ fate[s] = "new" /\ fate'[s] = "sent"
    \/ fate[s] = "taken" /\ fate'[s] = "delivered"

(* A step that leaves rows, blocks, roles, bytes and fates alone. *)
LEMMA KeptFrame ==
  ASSUME TypeOK, Owned, Kept, daemon # "stopped", daemon' # "stopped",
         KeepsRows, KeepsBlocks, KeepsRoles, KeepsBytes, KeepsFate
  PROVE  Kept'
<1> USE DEF VALID_UNTIL_NOT_PUBLISHED, VALID_UNTIL_EMPTY
<1>1. Senders' = Senders /\ Uploaders' = Uploaders
  BY DEF KeepsBlocks, Senders, Uploaders
<1>2. /\ \A c \in Senders : /\ ctx'[c].blob_send = ctx[c].blob_send
                            /\ req'[c] = req[c]
      /\ \A c \in Uploaders : /\ ctx'[c].post_body = ctx[c].post_body
                              /\ ctx'[c].read = ctx[c].read
                              /\ ctx'[c].expected = ctx[c].expected
                              /\ req'[c] = req[c]
  BY DEF KeepsBlocks, KeepsRoles, KeepsBytes, Senders, Uploaders
<1>3. mem' = mem
  BY DEF KeepsBytes
<1>4. PublishedIsHeld' /\ ServableIsPublished'
  BY <1>3 DEF Kept, PublishedIsHeld, ServableIsPublished, Gettable, Intact,
              KeepsRows, KeepsFate
<1>5. SentIntact'
  BY <1>1, <1>2, <1>3, SentFrame DEF KeepsFate
<1>6. NoResidue'
  BY <1>3 DEF Kept, NoResidue, KeepsRows
<1>7. UploadBytes'
  <2>1. \A c \in Uploaders : req[c].secret \in Secrets
    BY PostRequest DEF Owned, Roles, Uploaders
  <2> QED
    BY <1>1, <1>2, <1>3, <2>1 DEF Kept, UploadBytes, KeepsFate
<1> QED
  BY <1>4, <1>5, <1>6, <1>7 DEF Kept

(* The calls that neither take nor give a block are of this kind. *)
LEMMA QuietBytes ==
  ASSUME TypeOK, Owned, NEW c \in Conns, QuietCall(c)
  PROVE  KeepsBytes /\ KeepsFate
<1>1. /\ daemon # "stopped" /\ daemon' = daemon
      /\ KeepsRows /\ KeepsBlocks /\ KeepsRoles
  BY QuietKeeps
<1>2. KeepsFate
  <2>1. ASSUME NEW r \in Requests, Accept(c, r)
        PROVE  KeepsFate
    <3>1. r.kind # "post" => r.secret \notin Secrets
      BY StorageConstants DEF Requests, GetReq, PostReq, OtherReq
    <3> QED
      BY <2>1, <3>1 DEF Accept, KeepsFate
  <2>2. CASE Sent(c)
    BY <2>2 DEF Sent, Record, KeepsFate
  <2>3. CASE ~Sent(c) /\ ~\E r \in Requests : Accept(c, r)
    <3>1. fate' = fate
      BY <2>3 DEF QuietCall, BodyEnd, Drop, ahc_first, ahc_other,
                  ahc_get_not_found, ahc_post_bad_length, ahc_post_refuse,
                  ahc_post_duplicate, ahc_post_oom, Defer
    <3> QED
      BY <3>1 DEF KeepsFate
  <2> QED
    BY <2>1, <2>2, <2>3
<1>3. mem' = mem
  BY DEF QuietCall, Accept, BodyEnd, Drop, Sent, ahc_first, ahc_other,
         ahc_get_not_found, ahc_post_bad_length, ahc_post_refuse,
         ahc_post_duplicate, ahc_post_oom, Defer, storageVars
<1>4. ASSUME NEW d \in Conns, ctx[d].post_body.size # 0
      PROVE  ctx'[d].read = ctx[d].read /\ ctx'[d].expected = ctx[d].expected
  <2>1. CASE \/ \E r \in Requests : Accept(c, r)
             \/ BodyEnd(c) \/ Drop(c) \/ Sent(c) \/ ahc_other(c)
             \/ ahc_get_not_found(c)
    BY <2>1 DEF Accept, BodyEnd, Drop, Sent, ahc_other, ahc_get_not_found
  <2>2. CASE ahc_first(c)
    <3>1. d # c
      BY <1>1, <1>4, <2>2 DEF ahc_first, Owned, Roles, Uploaders
    <3> QED
      BY <2>2, <3>1 DEF ahc_first, ctxa_alloc, TypeOK
  <2>3. CASE ahc_post_bad_length(c) \/ ahc_post_refuse(c)
    BY <2>3 DEF ahc_post_bad_length, ahc_post_refuse, TypeOK, Ctx
  <2>4. CASE ahc_post_duplicate(c) \/ ahc_post_oom(c)
    BY <1>4, <2>4 DEF ahc_post_duplicate, ahc_post_oom, Defer, TypeOK, Ctx
  <2> QED
    BY <2>1, <2>2, <2>3, <2>4 DEF QuietCall
<1> QED
  BY <1>2, <1>3, <1>4 DEF KeepsBytes

(* The calls of the handler that only set its request's fields. *)
LEMMA KeptQuiet ==
  ASSUME TypeOK, Owned, Kept, NEW c \in Conns, QuietCall(c)
  PROVE  Kept'
  BY QuietKeeps, QuietBytes, KeptFrame

(* GET: the secret of the row becomes the secret of the response. *)
LEMMA KeptGet ==
  ASSUME TypeOK, Owned, Kept, NEW c \in Conns, ahc_get(c)
  PROVE  Kept'
<1> USE DEF VALID_UNTIL_NOT_PUBLISHED, VALID_UNTIL_EMPTY
<1> DEFINE id == req[c].id
<1>1. /\ daemon # "stopped" /\ daemon' # "stopped"
      /\ phase[c] \in {"body", "full"} /\ req[c].kind = "get"
      /\ id \in blob_ids /\ id \in Ids /\ Gettable(id)
  BY DEF ahc_get, Called, Serving, Gettable, TypeOK
<1>2. PICK s \in Secrets : /\ IdOf[s] = id /\ fate[s] = "published"
                           /\ Intact(blob_data[id], s)
  BY <1>1, RowSecret
<1>3. /\ fate'[s] = "taken"
      /\ \A t \in Secrets \ {s} : fate'[t] = fate[t]
  <2>1. mem[blob_data[id].data].src = s
    BY <1>2 DEF Intact
  <2> QED
    BY <1>2, <2>1 DEF ahc_get, Record
<1>4. /\ blob_ids' = blob_ids \ {id}
      /\ UNCHANGED <<blob_data, free_blocks, mem, req>>
      /\ \A i \in blob_ids' : blob_valid_until'[i] = blob_valid_until[i]
  BY DEF ahc_get, storage_blob_get, Erase, TypeOK
<1>5. /\ ctx'[c].blob_send = blob_data[id]
      /\ ctx'[c].post_body = ctx[c].post_body
      /\ \A d \in Conns \ {c} : ctx'[d] = ctx[d]
  BY DEF ahc_get, TypeOK, Ctx
<1>6. c \notin Senders /\ c \notin Uploaders
  BY <1>1 DEF Owned, Roles
<1>7. Senders' = Senders \cup {c} /\ Uploaders' = Uploaders
  BY <1>1, <1>5, <1>6 DEF Senders, Uploaders, Owned, RowsOwned
<1>8. PublishedIsHeld'
  <2> SUFFICES ASSUME NEW t \in Secrets, fate'[t] = "published"
               PROVE  /\ Gettable(IdOf[t])'
                      /\ Intact(blob_data[IdOf[t]], t)'
    BY DEF PublishedIsHeld
  <2>1. t # s /\ fate[t] = "published"
    BY <1>3
  <2>2. Gettable(IdOf[t]) /\ Intact(blob_data[IdOf[t]], t)
    BY <2>1 DEF Kept, PublishedIsHeld
  <2>3. IdOf[t] # id
    BY <1>2, <2>1, <2>2, IntactUnique
  <2> QED
    BY <1>4, <2>2, <2>3 DEF Gettable, Intact
<1>9. ServableIsPublished'
  <2> SUFFICES ASSUME NEW i \in blob_ids', Gettable(i)'
               PROVE  \E t \in Secrets : IdOf[t] = i /\ fate'[t] = "published"
    BY DEF ServableIsPublished
  <2>1. i \in blob_ids /\ i # id /\ Gettable(i)
    BY <1>4 DEF Gettable
  <2>2. PICK t \in Secrets : IdOf[t] = i /\ fate[t] = "published"
    BY <1>1, <2>1, RowSecret
  <2> QED
    BY <1>2, <1>3, <2>1, <2>2
<1>10. SentIntact'
  <2>1. Intact(ctx[c].blob_send, s)' /\ Sending(c)' = {s}
    <3>1. ctx'[c].blob_send.size # 0
      BY <1>1, <1>5 DEF Owned, RowsOwned
    <3> QED
      BY <1>2, <1>4, <1>5, <3>1 DEF Intact, Sending
  <2>2. \A d \in Senders : /\ ctx'[d] = ctx[d]
                           /\ Sending(d)' = Sending(d)
    BY <1>4, <1>5, <1>6 DEF Senders, Sending
  <2>3. \A d \in Senders :
          \E t \in Secrets : /\ IdOf[t] = req'[d].id
                             /\ Intact(ctx[d].blob_send, t)'
                             /\ fate'[t] \in {"taken", "delivered"}
                             /\ t # s
                             /\ Sending(d)' = {t}
    <3> TAKE d \in Senders
    <3>1. PICK t \in Secrets : /\ IdOf[t] = req[d].id
                               /\ fate[t] \in {"taken", "delivered"}
                               /\ Intact(ctx[d].blob_send, t)
                               /\ Sending(d) = {t}
      BY SenderSecret
    <3>2. t # s /\ fate'[t] = fate[t]
      BY <1>2, <1>3, <3>1
    <3> QED
      BY <1>4, <2>2, <3>1, <3>2 DEF Intact
  <2>4. \A d \in Senders : Sending(d)' # Sending(c)'
    BY <2>1, <2>3
  <2>5. \A d, e \in Senders : Sending(d)' = Sending(e)' => d = e
    BY <2>2 DEF Kept, SentIntact
  <2> QED
    BY <1>2, <1>3, <1>4, <1>7, <2>1, <2>3, <2>4, <2>5 DEF SentIntact
<1>11. NoResidue'
  BY <1>4 DEF Kept, NoResidue
<1>12. UploadBytes'
  BY <1>1, <1>4, <1>5, <1>6, <1>7 DEF Kept, UploadBytes, Uploaders
<1> QED
  BY <1>1, <1>8, <1>9, <1>10, <1>11, <1>12 DEF Kept

(* Writing into a block of an upload disturbs no secret that was committed. *)
LEMMA OthersKept ==
  ASSUME Kept, daemon # "stopped", NEW b,
         req' = req, fate' = fate, Senders' = Senders,
         \A x \in Blocks \ {b} : mem'[x] = mem[x],
         \A i \in Ids : Gettable(i)' = Gettable(i),
         \A i \in blob_ids : Gettable(i) =>
           /\ blob_data'[i] = blob_data[i]
           /\ blob_data[i].data \in Blocks \ {b},
         \A d \in Senders :
           /\ ctx'[d].blob_send = ctx[d].blob_send
           /\ ctx[d].blob_send.data \in Blocks \ {b},
         blob_ids' \subseteq Ids
  PROVE  PublishedIsHeld' /\ ServableIsPublished' /\ SentIntact'
<1>1. PublishedIsHeld'
  <2> SUFFICES ASSUME NEW t \in Secrets, fate[t] = "published"
               PROVE  /\ Gettable(IdOf[t])'
                      /\ Intact(blob_data[IdOf[t]], t)'
    BY DEF PublishedIsHeld
  <2>1. /\ Gettable(IdOf[t]) /\ Intact(blob_data[IdOf[t]], t)
        /\ IdOf[t] \in blob_ids /\ IdOf[t] \in Ids
    BY ServerConstants DEF Kept, PublishedIsHeld, Gettable
  <2> QED
    BY <2>1 DEF Intact
<1>2. ServableIsPublished'
  <2>1. \A i \in blob_ids' : Gettable(i)' => i \in blob_ids /\ Gettable(i)
    BY DEF Gettable
  <2> QED
    BY <2>1 DEF Kept, ServableIsPublished
<1>3. SentIntact'
  BY SentFrame
<1> QED
  BY <1>1, <1>2, <1>3

(* The first piece is written into a clean block that nobody can read. *)
LEMMA KeptCreate ==
  ASSUME TypeOK, Owned, FreshBodies, Kept, NEW c \in Conns,
         NEW n \in 1..MAX_CHUNK, ahc_post_first(c, n)
  PROVE  Kept'
<1> USE DEF VALID_UNTIL_NOT_PUBLISHED, VALID_UNTIL_EMPTY
<1> DEFINE id == req[c].id
<1>1. PICK b \in Creatable(Expected(c)) :
        /\ storage_blob_create(id, Expected(c), b)
        /\ Receive(c, n, [data |-> b, size |-> Expected(c)])
  BY DEF ahc_post_first
<1>2. /\ daemon # "stopped" /\ daemon' # "stopped" /\ phase[c] = "body"
      /\ ctx[c].post_body.size = 0 /\ ctx[c].read = 0 /\ id \notin blob_ids
      /\ b \in free_blocks /\ b \in Blocks
  BY <1>1 DEF ahc_post_first, Receiving, Called, Serving, Receive, Creatable,
              balloc, storage_blob_is_already_taken, TypeOK, FreshBodies
<1>3. Expected(c) \in 1..BLOB_SIZE_MAX /\ id \in Ids
  BY ExpectedType, RequestType
     DEF ahc_post_first, Receiving, Called, TypeOK
<1>4. /\ blob_ids' = blob_ids \cup {id}
      /\ \A i \in blob_ids : /\ blob_data'[i] = blob_data[i]
                             /\ blob_valid_until'[i] = blob_valid_until[i]
      /\ blob_valid_until'[id] = VALID_UNTIL_NOT_PUBLISHED
      /\ free_blocks' = free_blocks \ {b}
  BY <1>1, <1>2, <1>3 DEF storage_blob_create, TypeOK
<1>5. /\ req' = req /\ fate' = fate
      /\ \A x \in Blocks \ {b} : mem'[x] = mem[x]
  BY <1>1, <1>2 DEF Receive, TypeOK
<1>6. /\ ctx'[c].blob_send = ctx[c].blob_send
      /\ ctx'[c].post_body = [data |-> b, size |-> Expected(c)]
      /\ ctx'[c].expected = Expected(c)
      /\ ctx'[c].read = ctx[c].read + (IF Overflows(c, n) THEN 0 ELSE n)
      /\ \A d \in Conns \ {c} : ctx'[d] = ctx[d]
  BY <1>1 DEF Receive, TypeOK, Ctx
<1>7. Senders' = Senders /\ Uploaders' = Uploaders \cup {c}
  BY <1>3, <1>6 DEF Senders, Uploaders
<1>8. PublishedIsHeld' /\ ServableIsPublished' /\ SentIntact'
  <2>1. \A i \in Ids : Gettable(i)' = Gettable(i)
    BY <1>2, <1>4 DEF Gettable
  <2>2. \A i \in blob_ids : blob_data[i].data \in Blocks \ {b}
    BY <1>2 DEF Owned, RowsOwned
  <2>3. \A d \in Senders : /\ ctx'[d].blob_send = ctx[d].blob_send
                           /\ ctx[d].blob_send.data \in Blocks \ {b}
    BY <1>2, <1>6 DEF Owned, LentOwned, Senders
  <2>4. blob_ids' \subseteq Ids
    BY <1>3, <1>4 DEF TypeOK
  <2> QED
    BY <1>2, <1>4, <1>5, <1>7, <2>1, <2>2, <2>3, <2>4, OthersKept
<1>9. NoResidue'
  BY <1>2, <1>4, <1>5 DEF Kept, NoResidue, TypeOK
<1>10. UploadBytes'
  <2>1. ASSUME NEW d \in Uploaders, d # c
        PROVE  /\ ctx'[d] = ctx[d] /\ req'[d] = req[d]
               /\ mem'[ctx[d].post_body.data] = mem[ctx[d].post_body.data]
    <3>1. ctx[d].post_body.data \in Blocks \ {b}
      BY <1>2 DEF Owned, UploadsOwned, RowsOwned
    <3> QED
      BY <1>5, <1>6, <2>1, <3>1 DEF Uploaders
  <2>2. /\ ctx'[c].expected = ctx'[c].post_body.size
        /\ ctx'[c].read <= ctx'[c].expected
        /\ mem'[ctx'[c].post_body.data].len = ctx'[c].read
        /\ ctx'[c].read # 0 =>
             mem'[ctx'[c].post_body.data].src = req'[c].secret
    <3>1. mem[b] = Zeros /\ n \in Nat \ {0}
      BY <1>2, ServerConstants DEF Kept, NoResidue
    <3>2. CASE Overflows(c, n)
      <4>1. mem' = mem
        BY <1>1, <3>2 DEF Receive
      <4> QED
        BY <1>2, <1>3, <1>6, <3>1, <3>2, <4>1 DEF Zeros
    <3>3. CASE ~Overflows(c, n)
      <4>1. mem'[b] = [src |-> req[c].secret, len |-> n]
        BY <1>1, <1>2, <3>1, <3>3 DEF Receive, Written, Zeros, TypeOK
      <4>2. n <= Expected(c)
        BY <1>2, <1>3, <3>1, <3>3 DEF Overflows
      <4> QED
        BY <1>2, <1>3, <1>5, <1>6, <3>1, <3>3, <4>1, <4>2
    <3> QED
      BY <3>2, <3>3
  <2> QED
    BY <1>2, <1>7, <2>1, <2>2 DEF Kept, UploadBytes
<1> QED
  BY <1>2, <1>8, <1>9, <1>10 DEF Kept

(* The next piece goes behind what the upload has written before. *)
LEMMA KeptNext ==
  ASSUME TypeOK, Owned, Kept, NEW c \in Conns, NEW n \in 1..MAX_CHUNK,
         ahc_post_next(c, n)
  PROVE  Kept'
<1> USE DEF VALID_UNTIL_NOT_PUBLISHED, VALID_UNTIL_EMPTY
<1> DEFINE b == ctx[c].post_body.data
<1>1. /\ daemon # "stopped" /\ daemon' # "stopped" /\ c \in Uploaders
      /\ UNCHANGED <<blob_ids, blob_data, blob_valid_until, free_blocks>>
      /\ Receive(c, n, ctx[c].post_body)
  BY DEF ahc_post_next, Receiving, Called, Serving, Receive, Uploaders
<1>2. /\ ctx[c].id \in blob_ids /\ blob_data[ctx[c].id].data = b
      /\ ~Gettable(ctx[c].id)
      /\ b \in Blocks /\ b \notin free_blocks
  BY <1>1 DEF Owned, UploadsOwned, RowsOwned, Gettable
<1>3. /\ ctx[c].expected \in Nat /\ ctx[c].read \in Nat /\ n \in Nat \ {0}
      /\ Expected(c) = ctx[c].expected
      /\ ctx[c].expected = ctx[c].post_body.size
      /\ ctx[c].read <= ctx[c].expected
      /\ mem[b].len = ctx[c].read
      /\ ctx[c].read # 0 => mem[b].src = req[c].secret
  <2>1. ctx[c].expected \in Nat /\ ctx[c].read \in Nat /\ n \in Nat \ {0}
    BY StorageConstants, ServerConstants DEF TypeOK, Ctx
  <2> QED
    BY <1>1, <2>1 DEF Kept, UploadBytes, Expected, Uploaders
<1>4. /\ req' = req /\ fate' = fate
      /\ \A x \in Blocks \ {b} : mem'[x] = mem[x]
  BY <1>1 DEF Receive, TypeOK
<1>5. /\ ctx'[c].blob_send = ctx[c].blob_send
      /\ ctx'[c].post_body = ctx[c].post_body
      /\ ctx'[c].expected = Expected(c)
      /\ ctx'[c].read = ctx[c].read + (IF Overflows(c, n) THEN 0 ELSE n)
      /\ \A d \in Conns \ {c} : ctx'[d] = ctx[d]
  BY <1>1 DEF Receive, TypeOK, Ctx
<1>6. Senders' = Senders /\ Uploaders' = Uploaders
  BY <1>5 DEF Senders, Uploaders
<1>7. PublishedIsHeld' /\ ServableIsPublished' /\ SentIntact'
  <2>1. \A i \in Ids : Gettable(i)' = Gettable(i)
    BY <1>1 DEF Gettable
  <2>2. \A i \in blob_ids : Gettable(i) => blob_data[i].data \in Blocks \ {b}
    BY <1>1, <1>2 DEF Owned, RowsOwned
  <2>3. \A d \in Senders : /\ ctx'[d].blob_send = ctx[d].blob_send
                           /\ ctx[d].blob_send.data \in Blocks \ {b}
    BY <1>1, <1>2, <1>5 DEF Owned, LentOwned, Senders
  <2>4. blob_ids' \subseteq Ids
    BY <1>1 DEF TypeOK
  <2> HIDE DEF b
  <2> QED
    BY <1>1, <1>4, <1>6, <2>1, <2>2, <2>3, <2>4, OthersKept
<1>8. NoResidue'
  BY <1>1, <1>2, <1>4 DEF Kept, NoResidue, TypeOK
<1>9. UploadBytes'
  <2>1. ASSUME NEW d \in Uploaders, d # c
        PROVE  /\ ctx'[d] = ctx[d] /\ req'[d] = req[d]
               /\ mem'[ctx[d].post_body.data] = mem[ctx[d].post_body.data]
    <3>1. ctx[d].post_body.data \in Blocks \ {b}
      BY <1>1, <1>2, <2>1 DEF Owned, UploadsOwned, RowsOwned
    <3> QED
      BY <1>4, <1>5, <2>1, <3>1 DEF Uploaders
  <2>2. /\ ctx'[c].expected = ctx'[c].post_body.size
        /\ ctx'[c].read <= ctx'[c].expected
        /\ mem'[ctx'[c].post_body.data].len = ctx'[c].read
        /\ ctx'[c].read # 0 =>
             mem'[ctx'[c].post_body.data].src = req'[c].secret
    <3>1. CASE Overflows(c, n)
      <4>1. mem' = mem
        BY <1>1, <3>1 DEF Receive
      <4> QED
        BY <1>3, <1>4, <1>5, <3>1, <4>1
    <3>2. CASE ~Overflows(c, n)
      <4>1. mem'[b] = Written(mem[b], req[c].secret, ctx[c].read, n)
        BY <1>1, <1>2, <3>2 DEF Receive, TypeOK
      <4>2. mem'[b] = [src |-> req[c].secret, len |-> ctx[c].read + n]
        BY <1>3, <4>1 DEF Written
      <4>3. ctx[c].read + n <= ctx[c].expected
        BY <1>3, <3>2 DEF Overflows
      <4> QED
        BY <1>3, <1>4, <1>5, <3>2, <4>2, <4>3
    <3> QED
      BY <3>1, <3>2
  <2> QED
    BY <1>1, <1>6, <2>1, <2>2 DEF Kept, UploadBytes
<1> QED
  BY <1>1, <1>7, <1>8, <1>9 DEF Kept

(* A complete upload is published as it was received. *)
LEMMA KeptCommit ==
  ASSUME TypeOK, Owned, SecretsApart, Kept, NEW c \in Conns,
         ahc_post_commit(c)
  PROVE  Kept'
<1> USE DEF VALID_UNTIL_NOT_PUBLISHED, VALID_UNTIL_EMPTY
<1> DEFINE id == ctx[c].id
           s == req[c].secret
<1>1. /\ daemon # "stopped" /\ daemon' # "stopped" /\ phase[c] = "full"
      /\ req[c].kind = "post" /\ c \in Uploaders
      /\ ctx[c].read = ctx[c].expected
  BY DEF ahc_post_commit, Called, Serving, Complete, Uploaders
<1>2. /\ id \in blob_ids /\ id \in Ids /\ id = IdOf[s] /\ s \in Secrets
      /\ fate[s] = "sent" /\ blob_data[id] = ctx[c].post_body
      /\ ~Gettable(id)
  BY <1>1, PostRequest DEF Owned, UploadsOwned, SecretsApart, Uncommitted,
                           Gettable, TypeOK
<1>3. Intact(blob_data[id], s)
  <2>1. mem[blob_data[id].data] \in Content /\ ctx[c].post_body.size # 0
    BY <1>1, <1>2 DEF Owned, RowsOwned, TypeOK, Uploaders
  <2>2. mem[blob_data[id].data].len = blob_data[id].size
    BY <1>1, <1>2 DEF Kept, UploadBytes
  <2>3. mem[blob_data[id].data].src = s
    BY <1>1, <1>2, <2>1 DEF Kept, UploadBytes
  <2> QED
    BY <2>1, <2>2, <2>3 DEF Intact, Content
<1>4. now + BLOB_TTL_S # VALID_UNTIL_NOT_PUBLISHED
  BY ServerConstants, StorageConstants, ClockFits DEF TypeOK
<1>5. /\ UNCHANGED <<blob_ids, blob_data, free_blocks, mem, req>>
      /\ blob_valid_until'[id] # VALID_UNTIL_NOT_PUBLISHED
      /\ \A i \in blob_ids \ {id} : blob_valid_until'[i] = blob_valid_until[i]
  BY <1>2, <1>4 DEF ahc_post_commit, storage_blob_publish, TypeOK
<1>6. /\ ctx'[c].blob_send = ctx[c].blob_send
      /\ ctx'[c].post_body.size = 0
      /\ \A d \in Conns \ {c} : ctx'[d] = ctx[d]
  BY <1>2 DEF ahc_post_commit, Committed, NullBlk, TypeOK, Ctx
<1>7. /\ fate'[s] = "published"
      /\ \A t \in Secrets \ {s} : fate'[t] = fate[t]
  BY <1>2 DEF ahc_post_commit, TypeOK
<1>8. Senders' = Senders /\ Uploaders' = Uploaders \ {c}
  BY <1>6 DEF Senders, Uploaders
<1> HIDE DEF id, s
<1>9. PublishedIsHeld'
  <2> SUFFICES ASSUME NEW t \in Secrets, fate'[t] = "published"
               PROVE  /\ Gettable(IdOf[t])'
                      /\ Intact(blob_data[IdOf[t]], t)'
    BY DEF PublishedIsHeld
  <2>1. CASE t = s
    BY <1>2, <1>3, <1>5, <2>1 DEF Gettable, Intact
  <2>2. CASE t # s
    <3>1. Gettable(IdOf[t]) /\ Intact(blob_data[IdOf[t]], t)
      BY <1>7, <2>2 DEF Kept, PublishedIsHeld
    <3>2. IdOf[t] # id
      BY <1>2, <3>1
    <3> QED
      BY <1>5, <3>1, <3>2 DEF Gettable, Intact
  <2> QED
    BY <2>1, <2>2
<1>10. ServableIsPublished'
  <2> SUFFICES ASSUME NEW i \in blob_ids, Gettable(i)'
               PROVE  \E t \in Secrets : IdOf[t] = i /\ fate'[t] = "published"
    BY <1>5 DEF ServableIsPublished
  <2>1. CASE i = id
    BY <1>2, <1>7, <2>1
  <2>2. CASE i # id
    <3>1. Gettable(i)
      BY <1>5, <2>2 DEF Gettable
    <3>2. PICK t \in Secrets : IdOf[t] = i /\ fate[t] = "published"
      BY <1>1, <3>1, RowSecret
    <3> QED
      BY <1>7, <3>2
  <2> QED
    BY <2>1, <2>2
<1>11. SentIntact'
  <2>1. \A d \in Senders : ctx'[d].blob_send = ctx[d].blob_send
    BY <1>6 DEF Senders
  <2> QED
    BY <1>2, <1>5, <1>7, <1>8, <2>1, SentFrame
<1>12. NoResidue'
  BY <1>5 DEF Kept, NoResidue
<1>13. UploadBytes'
  BY <1>1, <1>5, <1>6, <1>8 DEF Kept, UploadBytes, Uploaders
<1> QED
  BY <1>1, <1>9, <1>10, <1>11, <1>12, <1>13 DEF Kept

(* Freeing blocks wipes each of them, with its own size, and no other. *)
LEMMA FreeWipes ==
  ASSUME TypeOK, NEW blks, storage_blob_free(blks),
         \A k, l \in blks : k.data = l.data => k = l,
         \A k \in blks : k.data \in Blocks /\ mem[k.data].len <= k.size
  PROVE  /\ \A k \in blks : mem'[k.data] = Zeros
         /\ \A b \in Blocks : (\A k \in blks : k.data # b) => mem'[b] = mem[b]
         /\ free_blocks' = free_blocks \cup {k.data : k \in blks}
<1>1. ASSUME NEW k \in blks
      PROVE  mem'[k.data] = Zeros
  <2>1. (CHOOSE l \in blks : l.data = k.data) = k
    OBVIOUS
  <2>2. mem'[k.data] = secure_zero(mem[k.data], k.size)
    BY <2>1 DEF storage_blob_free
  <2> QED
    BY <2>2 DEF secure_zero
<1> QED
  BY <1>1 DEF storage_blob_free

(* The reaper wipes what has expired and leaves the rest alone. *)
LEMMA KeptReaper ==
  ASSUME TypeOK, Owned, Kept, Reaper
  PROVE  Kept'
<1> USE DEF VALID_UNTIL_NOT_PUBLISHED, VALID_UNTIL_EMPTY
<1> DEFINE old == Expired(now)
           blks == {blob_data[i] : i \in old}
<1>1. /\ daemon # "stopped" /\ daemon' # "stopped"
      /\ UNCHANGED <<phase, req, ctx, blob_data>>
  BY DEF Reaper, Serving, serverVars, storage_reaper
<1>2. /\ blob_ids' = blob_ids \ old
      /\ \A i \in blob_ids' : blob_valid_until'[i] = blob_valid_until[i]
      /\ storage_blob_free(blks)
  BY DEF Reaper, storage_reaper, Erase, TypeOK
<1>3. \A i \in old : i \in blob_ids /\ Gettable(i)
  BY ServerConstants, StorageConstants, ClockFits
     DEF Expired, TypeOK, Gettable
<1>4. \A t \in Secrets :
        fate'[t] = IF /\ t \in {mem[blob_data[i].data].src : i \in old}
                      /\ fate[t] = "published"
                   THEN "expired" ELSE fate[t]
  BY DEF Reaper, Record
<1> HIDE DEF old
<1>5. \A i \in old :
        \E s \in Secrets : /\ IdOf[s] = i /\ fate[s] = "published"
                           /\ Intact(blob_data[i], s)
                           /\ mem[blob_data[i].data].src = s
                           /\ mem[blob_data[i].data].len = blob_data[i].size
  BY <1>1, <1>3, RowSecret, IntactUnique
<1>6. /\ \A i \in blob_ids : blob_data[i].data \in Blocks \ free_blocks
      /\ \A i, j \in blob_ids : blob_data[i].data = blob_data[j].data => i = j
  BY <1>1 DEF Owned, RowsOwned
<1>7. /\ \A i \in old : mem'[blob_data[i].data] = Zeros
      /\ \A b \in Blocks :
           (\A i \in old : blob_data[i].data # b) => mem'[b] = mem[b]
      /\ free_blocks' = free_blocks \cup {blob_data[i].data : i \in old}
  <2>1. \A k, l \in blks : k.data = l.data => k = l
    BY <1>3, <1>6
  <2>2. \A i \in old : /\ blob_data[i].data \in Blocks
                       /\ mem[blob_data[i].data].len <= blob_data[i].size
    <3> TAKE i \in old
    <3>1. i \in Ids /\ blob_data[i].size \in Nat
      BY <1>3, StorageConstants DEF TypeOK, Blk
    <3> QED
      BY <1>3, <1>5, <1>6, <3>1
  <2>3. \A k \in blks : k.data \in Blocks /\ mem[k.data].len <= k.size
    BY <2>2
  <2>4. /\ \A k \in blks : mem'[k.data] = Zeros
        /\ \A b \in Blocks : (\A k \in blks : k.data # b) => mem'[b] = mem[b]
        /\ free_blocks' = free_blocks \cup {k.data : k \in blks}
    <3> HIDE DEF blks
    <3> QED
      BY <1>2, <2>1, <2>3, FreeWipes
  <2> QED
    BY <2>4
<1> HIDE DEF blks
<1>8. Senders' = Senders /\ Uploaders' = Uploaders
  BY <1>1 DEF Senders, Uploaders
<1>9. \A i \in blob_ids \ old : mem'[blob_data[i].data] = mem[blob_data[i].data]
  BY <1>3, <1>6, <1>7
<1>10. PublishedIsHeld'
  <2> SUFFICES ASSUME NEW t \in Secrets, fate'[t] = "published"
               PROVE  /\ Gettable(IdOf[t])'
                      /\ Intact(blob_data[IdOf[t]], t)'
    BY DEF PublishedIsHeld
  <2>1. /\ fate[t] = "published"
        /\ t \notin {mem[blob_data[i].data].src : i \in old}
    BY <1>4
  <2>2. Gettable(IdOf[t]) /\ Intact(blob_data[IdOf[t]], t)
    BY <2>1 DEF Kept, PublishedIsHeld
  <2>3. IdOf[t] \notin old
    BY <2>1, <2>2, IntactUnique
  <2>4. IdOf[t] \in blob_ids \ old
    BY <2>2, <2>3 DEF Gettable
  <2> QED
    BY <1>1, <1>2, <1>9, <2>2, <2>4 DEF Gettable, Intact
<1>11. ServableIsPublished'
  <2> SUFFICES ASSUME NEW i \in blob_ids \ old, Gettable(i)'
               PROVE  \E t \in Secrets : IdOf[t] = i /\ fate'[t] = "published"
    BY <1>2 DEF ServableIsPublished
  <2>1. Gettable(i)
    BY <1>2 DEF Gettable
  <2>2. PICK t \in Secrets : IdOf[t] = i /\ fate[t] = "published"
    BY <1>1, <2>1, RowSecret
  <2>3. t \notin {mem[blob_data[j].data].src : j \in old}
    BY <1>5, <2>2
  <2> QED
    BY <1>4, <2>2, <2>3
<1>12. SentIntact'
  <2>1. \A d \in Senders : mem'[ctx[d].blob_send.data]
                             = mem[ctx[d].blob_send.data]
    BY <1>1, <1>3, <1>7 DEF Owned, LentOwned
  <2> QED
    BY <1>1, <1>4, <1>8, <2>1, SentFrame
<1>13. NoResidue'
  <2> SUFFICES ASSUME NEW b \in free_blocks' PROVE mem'[b] = Zeros
    BY DEF NoResidue
  <2>1. CASE b \in free_blocks
    <3>1. b \in Blocks /\ \A i \in old : blob_data[i].data # b
      BY <1>3, <1>6, <2>1 DEF TypeOK
    <3> QED
      BY <1>7, <2>1, <3>1 DEF Kept, NoResidue
  <2>2. CASE b \notin free_blocks
    BY <1>7, <2>2
  <2> QED
    BY <2>1, <2>2
<1>14. UploadBytes'
  <2>1. \A d \in Uploaders : mem'[ctx[d].post_body.data]
                               = mem[ctx[d].post_body.data]
    <3> TAKE d \in Uploaders
    <3>1. /\ ctx[d].id \in blob_ids /\ ~Gettable(ctx[d].id)
          /\ blob_data[ctx[d].id] = ctx[d].post_body
      BY <1>1 DEF Owned, UploadsOwned, Gettable
    <3>2. ctx[d].id \in blob_ids \ old
      BY <1>3, <3>1
    <3> QED
      BY <1>9, <3>1, <3>2
  <2> QED
    BY <1>1, <1>8, <2>1 DEF Kept, UploadBytes
<1> QED
  BY <1>1, <1>10, <1>11, <1>12, <1>13, <1>14 DEF Kept

(***************************************************************************)
(* A request ends: the block it owned, if any, is wiped and is nobody      *)
(* else's, and the row it removes, if any, was never readable.             *)
(***************************************************************************)
Freed(c, F, A) ==
  /\ \A b \in F : b \in Blocks /\ mem'[b] = Zeros
  /\ \A b \in Blocks \ F : mem'[b] = mem[b]
  /\ free_blocks' = free_blocks \cup F
  /\ blob_ids' = blob_ids \ A
  /\ \A i \in blob_ids \ A : /\ blob_data'[i] = blob_data[i]
                             /\ blob_valid_until'[i] = blob_valid_until[i]
                             /\ blob_data[i].data \in Blocks \ F
  /\ \A i \in A : c \in Uploaders /\ i = ctx[c].id /\ ~Gettable(i)
  /\ \A d \in Senders \ {c} : ctx[d].blob_send.data \in Blocks \ F
  /\ F \cap free_blocks = {}

(* req_done frees exactly what its request owns. *)
LEMMA DoneFrees ==
  ASSUME TypeOK, Owned, Kept, NEW c \in Conns, req_done(c)
  PROVE  \E F, A : Freed(c, F, A)
<1> USE DEF VALID_UNTIL_NOT_PUBLISHED, VALID_UNTIL_EMPTY
<1> DEFINE id == ctx[c].id
           aborted == IF MustAbort(c) THEN {id} \cap blob_ids ELSE {}
           sent == IF ctx[c].blob_send.size # 0 THEN {ctx[c].blob_send}
                   ELSE {}
           blks == {blob_data[i] : i \in aborted} \cup sent
<1>1. /\ daemon # "stopped" /\ storage_blob_abort(aborted)
      /\ storage_blob_free(blks)
  BY DEF req_done
<1>2. RowsOwned /\ LentOwned /\ UploadsOwned /\ Roles /\ UploadBytes
  BY <1>1 DEF Owned, Kept
<1>3. /\ blob_ids' = blob_ids \ aborted
      /\ \A i \in blob_ids \ aborted :
           /\ blob_data'[i] = blob_data[i]
           /\ blob_valid_until'[i] = blob_valid_until[i]
  <2> HIDE DEF aborted
  <2> QED
    BY <1>1 DEF storage_blob_abort, Erase, TypeOK
<1>4. CASE c \in Uploaders
  <2>1. /\ c \notin Senders /\ id \in blob_ids
        /\ blob_data[id] = ctx[c].post_body /\ ~Gettable(id)
    BY <1>2, <1>4 DEF Roles, UploadsOwned, Gettable
  <2>2. aborted = {id} /\ blks = {blob_data[id]}
    BY <1>4, <2>1 DEF MustAbort, Uploaders, Senders
  <2>3. mem[blob_data[id].data].len <= blob_data[id].size
    BY <1>2, <1>4, <2>1 DEF UploadBytes
  <2>4. blob_data[id].data \in Blocks
    BY <1>2, <2>1 DEF RowsOwned
  <2>5. storage_blob_free({blob_data[id]})
    BY <1>1, <2>2
  <2> HIDE DEF aborted, blks, sent
  <2>6. /\ mem'[blob_data[id].data] = Zeros
        /\ \A b \in Blocks \ {blob_data[id].data} : mem'[b] = mem[b]
        /\ free_blocks' = free_blocks \cup {blob_data[id].data}
    <3> DEFINE one == {blob_data[id]}
    <3>1. /\ \A k, l \in one : k.data = l.data => k = l
          /\ \A k \in one : k.data \in Blocks /\ mem[k.data].len <= k.size
      BY <2>3, <2>4
    <3>2. /\ \A k \in one : mem'[k.data] = Zeros
          /\ \A b \in Blocks : (\A k \in one : k.data # b) => mem'[b] = mem[b]
          /\ free_blocks' = free_blocks \cup {k.data : k \in one}
      <4> HIDE DEF one
      <4>1. storage_blob_free(one)
        BY <2>5 DEF one
      <4> QED
        BY <3>1, <4>1, FreeWipes
    <3> QED
      BY <3>2
  <2>7. Freed(c, {blob_data[id].data}, {id})
    BY <1>2, <1>3, <1>4, <2>1, <2>2, <2>4, <2>6
       DEF Freed, RowsOwned, LentOwned
  <2> QED
    BY <2>7
<1>5. CASE c \in Senders
  <2>1. c \notin Uploaders
    BY <1>2, <1>5 DEF Roles
  <2>2. aborted = {} /\ blks = {ctx[c].blob_send}
    BY <1>5, <2>1 DEF MustAbort, Uploaders, Senders
  <2>3. mem[ctx[c].blob_send.data].len = ctx[c].blob_send.size
    BY <1>5, SenderSecret, IntactUnique
  <2>4. ctx[c].blob_send.data \in Blocks /\ ctx[c].blob_send.size \in Nat
    BY <1>2, <1>5, StorageConstants DEF LentOwned, TypeOK, Ctx, Blk
  <2>5. storage_blob_free({ctx[c].blob_send})
    BY <1>1, <2>2
  <2> HIDE DEF aborted, blks, sent
  <2>6. /\ mem'[ctx[c].blob_send.data] = Zeros
        /\ \A b \in Blocks \ {ctx[c].blob_send.data} : mem'[b] = mem[b]
        /\ free_blocks' = free_blocks \cup {ctx[c].blob_send.data}
    <3> DEFINE one == {ctx[c].blob_send}
    <3>1. /\ \A k, l \in one : k.data = l.data => k = l
          /\ \A k \in one : k.data \in Blocks /\ mem[k.data].len <= k.size
      BY <2>3, <2>4
    <3>2. /\ \A k \in one : mem'[k.data] = Zeros
          /\ \A b \in Blocks : (\A k \in one : k.data # b) => mem'[b] = mem[b]
          /\ free_blocks' = free_blocks \cup {k.data : k \in one}
      <4> HIDE DEF one
      <4>1. storage_blob_free(one)
        BY <2>5 DEF one
      <4> QED
        BY <3>1, <4>1, FreeWipes
    <3> QED
      BY <3>2
  <2>7. Freed(c, {ctx[c].blob_send.data}, {})
    BY <1>2, <1>3, <1>5, <2>2, <2>4, <2>6 DEF Freed, RowsOwned, LentOwned
  <2> QED
    BY <2>7
<1>6. CASE c \notin Uploaders /\ c \notin Senders
  <2>1. aborted = {} /\ blks = {}
    BY <1>6 DEF MustAbort, Uploaders, Senders
  <2>2. free_blocks' = free_blocks /\ \A b \in Blocks : mem'[b] = mem[b]
    BY <1>1, <2>1 DEF storage_blob_free
  <2> HIDE DEF aborted, blks, sent
  <2>3. Freed(c, {}, {})
    BY <1>2, <1>3, <2>1, <2>2 DEF Freed, RowsOwned, LentOwned
  <2> QED
    BY <2>3
<1> QED
  BY <1>4, <1>5, <1>6

(* So what others own keeps its bytes when a request is done. *)
LEMMA KeptDone ==
  ASSUME TypeOK, Owned, Kept, NEW c \in Conns, req_done(c)
  PROVE  Kept'
<1> USE DEF VALID_UNTIL_NOT_PUBLISHED, VALID_UNTIL_EMPTY
<1>1. PICK F, A : Freed(c, F, A)
  BY DoneFrees
<1>2. /\ daemon # "stopped" /\ daemon' # "stopped"
      /\ \A t \in Secrets :
           fate'[t] = IF t \in Sending(c) /\ fate[t] = "taken" THEN "lost"
                      ELSE fate[t]
  BY DEF req_done, Record
<1>3. /\ ctx'[c].blob_send.size = 0 /\ ctx'[c].post_body.size = 0
      /\ \A d \in Conns \ {c} : ctx'[d] = ctx[d] /\ req'[d] = req[d]
  BY DEF req_done, ctxa_free, NullCtx, NullBlk, TypeOK
<1>4. Senders' = Senders \ {c} /\ Uploaders' = Uploaders \ {c}
  BY <1>3 DEF Senders, Uploaders
<1>5. PublishedIsHeld'
  <2> SUFFICES ASSUME NEW t \in Secrets, fate'[t] = "published"
               PROVE  /\ Gettable(IdOf[t])'
                      /\ Intact(blob_data[IdOf[t]], t)'
    BY DEF PublishedIsHeld
  <2>1. Gettable(IdOf[t]) /\ Intact(blob_data[IdOf[t]], t)
    BY <1>2 DEF Kept, PublishedIsHeld
  <2>2. IdOf[t] \in blob_ids \ A
    BY <1>1, <2>1 DEF Freed, Gettable
  <2> QED
    BY <1>1, <2>1, <2>2 DEF Freed, Gettable, Intact
<1>6. ServableIsPublished'
  <2> SUFFICES ASSUME NEW i \in blob_ids', Gettable(i)'
               PROVE  \E t \in Secrets : IdOf[t] = i /\ fate'[t] = "published"
    BY DEF ServableIsPublished
  <2>1. i \in blob_ids /\ Gettable(i)
    BY <1>1 DEF Freed, Gettable
  <2> QED
    BY <1>2, <2>1, RowSecret
<1>7. SentIntact'
  <2>1. \A d \in Senders' : /\ ctx'[d] = ctx[d] /\ req'[d] = req[d]
                            /\ mem'[ctx[d].blob_send.data]
                                 = mem[ctx[d].blob_send.data]
    BY <1>1, <1>3, <1>4 DEF Freed, Senders
  <2>2. ASSUME NEW d \in Senders', NEW t \in Secrets, Sending(d) = {t}
        PROVE  fate'[t] = fate[t]
    <3>1. c \in Senders => Sending(c) # {t}
      BY <1>4, <2>2 DEF Kept, SentIntact
    <3>2. t \notin Sending(c)
      BY <3>1 DEF Sending, Senders
    <3> QED
      BY <1>2, <3>2
  <2> QED
    BY <1>4, <2>1, <2>2, SentFrame
<1>8. NoResidue'
  BY <1>1 DEF Freed, Kept, NoResidue, TypeOK
<1>9. UploadBytes'
  <2>1. ASSUME NEW d \in Uploaders, d # c
        PROVE  /\ ctx'[d] = ctx[d] /\ req'[d] = req[d]
               /\ mem'[ctx[d].post_body.data] = mem[ctx[d].post_body.data]
    <3>1. ctx[d].id \in blob_ids /\ blob_data[ctx[d].id] = ctx[d].post_body
      BY <1>2 DEF Owned, UploadsOwned
    <3>2. ctx[d].id \notin A
      BY <1>1, <1>2, <2>1 DEF Freed, Owned, UploadsOwned
    <3> QED
      BY <1>1, <1>3, <2>1, <3>1, <3>2 DEF Freed, Uploaders
  <2> QED
    BY <1>2, <1>4, <2>1 DEF Kept, UploadBytes
<1> QED
  BY <1>2, <1>5, <1>6, <1>7, <1>8, <1>9 DEF Kept

(* When the store is wiped nothing is being sent, and nothing is left. *)
LEMMA KeptCleanup ==
  ASSUME TypeOK, Owned, Kept, cleanup
  PROVE  Kept'
<1>1. /\ daemon' = "stopped" /\ free_blocks' = {} /\ Senders' = {}
  BY DEF cleanup, storage_zero, serverVars, Quiet, Busy, Owned, Roles, Senders
<1>2. \A s \in Secrets : fate'[s] # "published"
  BY DEF cleanup
<1> QED
  BY <1>1, <1>2 DEF Kept, PublishedIsHeld, ServableIsPublished, SentIntact,
                    NoResidue

(* A stuttering step keeps every byte in its place. *)
LEMMA KeptUnchanged ==
  ASSUME Kept, UNCHANGED vars
  PROVE  Kept'
  BY DEF Kept, vars, storageVars, serverVars, PublishedIsHeld,
         ServableIsPublished, SentIntact, NoResidue, UploadBytes, Senders,
         Uploaders, Sending, Gettable, Intact, VALID_UNTIL_NOT_PUBLISHED,
         VALID_UNTIL_EMPTY

(* Every step keeps every byte in its place. *)
LEMMA KeptStep ==
  ASSUME DInv, Next
  PROVE  Kept'
<1> USE DEF DInv, IInv
<1>1. ASSUME NEW c \in Conns, QuietCall(c)
      PROVE  Kept'
  BY <1>1, KeptQuiet
<1>2. ASSUME NEW c \in Conns, ahc_post_skip(c)
      PROVE  Kept'
  BY <1>2, KeptUnchanged DEF ahc_post_skip
<1>3. CASE Tick \/ on_sigint \/ MHD_stop_daemon
  <2>1. daemon # "stopped" /\ daemon' # "stopped"
    BY <1>3 DEF Tick, on_sigint, MHD_stop_daemon, Serving
  <2>2. KeepsRows /\ KeepsBlocks /\ KeepsBytes /\ KeepsFate
    BY <1>3 DEF Tick, on_sigint, MHD_stop_daemon, storageVars, serverVars,
                KeepsRows, KeepsBlocks, KeepsBytes, KeepsFate
  <2>3. KeepsRoles
    BY <1>3, <2>1 DEF Tick, on_sigint, MHD_stop_daemon, serverVars, Owned,
                      Roles, Senders, Uploaders, KeepsRoles
  <2> QED
    BY <2>1, <2>2, <2>3, KeptFrame
<1>4. CASE Exited
  BY <1>4, KeptUnchanged DEF Exited
<1> QED
  BY <1>1, <1>2, <1>3, <1>4, KeptGet, KeptCreate, KeptNext, KeptCommit,
     KeptDone, KeptReaper, KeptCleanup DEF Next, Client, ahc, QuietCall

(* The bytes of every block are accounted for in every reachable state. *)
THEOREM DInvHolds == Spec => []DInv
<1>1. DInv /\ [Next]_vars => DInv'
  <2> SUFFICES ASSUME DInv, [Next]_vars PROVE DInv'
    OBVIOUS
  <2>1. CASE Next
    BY <2>1, TypeStep, OwnedStep, FreshStep, SecretsStep, KeptStep
       DEF DInv, IInv
  <2>2. CASE UNCHANGED vars
    <3>1. IInv'
      BY <2>2 DEF DInv, IInv, TypeOK, vars, storageVars, serverVars, Owned,
                  RowsOwned, LentOwned, UploadsOwned, RowsUploaded, NoLeak,
                  Roles, Senders, Uploaders, VALID_UNTIL_NOT_PUBLISHED,
                  VALID_UNTIL_EMPTY
    <3>2. FreshBodies' /\ SecretsApart'
      BY <2>2 DEF DInv, FreshBodies, SecretsApart, vars, serverVars
    <3> QED
      BY <2>2, <3>1, <3>2, KeptUnchanged DEF DInv
  <2> QED
    BY <2>1, <2>2
<1> QED
  BY <1>1, InitDInv, PTL DEF Spec

(* A committed secret stays in the table, whole and unaltered, until a GET  *)
(* takes it or it expires, however uploads, aborts, reads and the reaper    *)
(* interleave.                                                              *)
THEOREM PublishedCorrect == Spec => []PublishedIsHeld
<1>1. DInv => PublishedIsHeld
  BY DEF DInv, Kept
<1> QED
  BY <1>1, DInvHolds, PTL

(* Whatever GET can see was committed and not served before. *)
THEOREM ServableCorrect == Spec => []ServableIsPublished
<1>1. DInv => ServableIsPublished
  BY DEF DInv, Kept
<1> QED
  BY <1>1, DInvHolds, PTL

(* The block that MHD sends from holds the whole secret that was asked for  *)
(* until req_done, and no other connection sends the same secret.           *)
THEOREM SentCorrect == Spec => []SentIntact
<1>1. DInv => SentIntact
  BY DEF DInv, Kept
<1> QED
  BY <1>1, DInvHolds, PTL

(* Every block on the free list is zero: whichever way a block comes back,  *)
(* the wipe covers all that was written to it.                              *)
THEOREM ResidueCorrect == Spec => []NoResidue
<1>1. DInv => NoResidue
  BY DEF DInv, Kept
<1> QED
  BY <1>1, DInvHolds, PTL

(***************************************************************************)
(* The daemon implements OneTimeStore.  While it runs, what a GET would    *)
(* return is what was published, and what is lent is what the responses    *)
(* send: with this the history variable tells what a step does to the      *)
(* store.                                                                  *)
(***************************************************************************)
Published == {s \in Secrets : fate[s] = "published"}
BeingSent == {s \in Secrets : \E c \in Senders : Sending(c) = {s}}
Mapped == (daemon # "stopped" => Held = Published) /\ Lent = BeingSent

(* The parts of the data invariant that the refinement rests on. *)
LEMMA KeptMapped == Kept => Mapped
<1> SUFFICES ASSUME Kept PROVE Mapped
  OBVIOUS
<1>1. ASSUME daemon # "stopped", NEW s \in Secrets, Gettable(IdOf[s]),
             Intact(blob_data[IdOf[s]], s)
      PROVE  fate[s] = "published"
  <2>1. PICK t \in Secrets : /\ IdOf[t] = IdOf[s] /\ fate[t] = "published"
                             /\ Intact(blob_data[IdOf[s]], t)
    BY <1>1, RowSecret DEF Gettable
  <2>2. s = t
    BY <1>1, <2>1, IntactUnique
  <2> QED
    BY <2>1, <2>2
<1>2. daemon # "stopped" => Held = Published
  BY <1>1 DEF Held, Published, Kept, PublishedIsHeld
<1>3. ASSUME NEW c \in Senders, NEW s \in Secrets
      PROVE  Intact(ctx[c].blob_send, s) <=> Sending(c) = {s}
  <2>1. PICK t \in Secrets : Intact(ctx[c].blob_send, t) /\ Sending(c) = {t}
    BY SenderSecret
  <2>2. Intact(ctx[c].blob_send, s) => s = t
    BY <2>1, IntactUnique
  <2>3. Sending(c) = {s} => s = t
    BY <2>1
  <2> QED
    BY <2>1, <2>2, <2>3
<1>4. Lent = BeingSent
  BY <1>3 DEF Lent, BeingSent
<1> QED
  BY <1>2, <1>4 DEF Mapped

(* A step that publishes nothing, takes nothing and ends no response is no  *)
(* step of the store.                                                       *)
LEMMA Stutters ==
  ASSUME Mapped, Mapped', daemon # "stopped", daemon' # "stopped",
         \A s \in Secrets :
           /\ fate'[s] = "published" <=> fate[s] = "published"
           /\ fate'[s] \in {"new", "sent"} <=> fate[s] \in {"new", "sent"},
         Senders' = Senders, \A c \in Senders : Sending(c)' = Sending(c)
  PROVE  UNCHANGED Store!vars
<1>1. Published' = Published /\ BeingSent' = BeingSent /\ Spent' = Spent
  BY DEF Published, BeingSent, Spent
<1> QED
  BY <1>1 DEF Mapped, Store!vars

(* A step that leaves blocks, bytes and fates alone is invisible. *)
LEMMA QuietStutters ==
  ASSUME Mapped, Mapped', daemon # "stopped", daemon' # "stopped",
         KeepsBlocks, KeepsBytes, KeepsFate
  PROVE  UNCHANGED Store!vars
<1>1. Senders' = Senders /\ \A c \in Senders : Sending(c)' = Sending(c)
  BY DEF KeepsBlocks, KeepsBytes, Senders, Sending
<1>2. \A s \in Secrets :
        /\ fate'[s] = "published" <=> fate[s] = "published"
        /\ fate'[s] \in {"new", "sent"} <=> fate[s] \in {"new", "sent"}
  BY DEF KeepsFate
<1> QED
  BY <1>1, <1>2, Stutters

(* Receiving a piece of body writes to no block that is being sent. *)
LEMMA ReceiveStutters ==
  ASSUME TypeOK, Owned, Mapped, Mapped', NEW c \in Conns,
         NEW n \in 1..MAX_CHUNK, ahc_post_first(c, n) \/ ahc_post_next(c, n)
  PROVE  UNCHANGED Store!vars
<1>1. /\ daemon # "stopped" /\ daemon' # "stopped" /\ Receiving(c)
      /\ LentOwned /\ UploadsOwned /\ RowsOwned
  BY DEF ahc_post_first, ahc_post_next, Receiving, Called, Serving, Receive,
         Owned
<1>2. PICK blk : /\ Receive(c, n, blk)
                 /\ \A d \in Senders : ctx[d].blob_send.data # blk.data
  <2>1. CASE ahc_post_first(c, n)
    BY <1>1, <2>1 DEF ahc_post_first, Creatable, balloc, LentOwned
  <2>2. CASE ahc_post_next(c, n)
    BY <1>1, <2>2 DEF ahc_post_next, UploadsOwned, LentOwned, Uploaders
  <2> QED
    BY <2>1, <2>2
<1>3. /\ fate' = fate
      /\ \A x \in Blocks : x # blk.data => mem'[x] = mem[x]
  BY <1>2 DEF Receive, TypeOK
<1>4. \A d \in Conns : ctx'[d].blob_send = ctx[d].blob_send
  BY <1>2 DEF Receive, TypeOK, Ctx
<1>5. Senders' = Senders
  BY <1>4 DEF Senders
<1>6. \A d \in Senders : Sending(d)' = Sending(d)
  <2> TAKE d \in Senders
  <2>1. mem'[ctx[d].blob_send.data] = mem[ctx[d].blob_send.data]
    BY <1>1, <1>2, <1>3 DEF LentOwned
  <2>2. ctx'[d].blob_send = ctx[d].blob_send
    BY <1>4 DEF Senders
  <2> QED
    BY <2>1, <2>2 DEF Sending
<1> QED
  BY <1>1, <1>3, <1>5, <1>6, Stutters

(* GET takes the one secret of the row from the held to the lent ones. *)
LEMMA GetReads ==
  ASSUME TypeOK, Owned, Kept, Mapped, Mapped', NEW c \in Conns, ahc_get(c)
  PROVE  \E s \in Secrets : Store!Read(s)
<1> DEFINE id == req[c].id
<1>1. /\ daemon # "stopped" /\ daemon' # "stopped"
      /\ phase[c] \in {"body", "full"}
      /\ id \in blob_ids /\ id \in Ids /\ Gettable(id)
  BY DEF ahc_get, Called, Serving, Gettable, TypeOK
<1>2. PICK s \in Secrets : /\ IdOf[s] = id /\ fate[s] = "published"
                           /\ Intact(blob_data[id], s)
  BY <1>1, RowSecret
<1>3. mem[blob_data[id].data].src = s
  BY <1>2 DEF Intact
<1>4. /\ fate'[s] = "taken"
      /\ \A t \in Secrets \ {s} : fate'[t] = fate[t]
  BY <1>2, <1>3 DEF ahc_get, Record
<1>5. /\ mem' = mem /\ ctx'[c].blob_send = blob_data[id]
      /\ \A d \in Conns \ {c} : ctx'[d] = ctx[d]
  BY DEF ahc_get, storage_blob_get, TypeOK, Ctx
<1>6. c \notin Senders /\ blob_data[id].size # 0
  BY <1>1 DEF Owned, Roles, RowsOwned
<1>7. Senders' = Senders \cup {c} /\ Sending(c)' = {s}
  BY <1>3, <1>5, <1>6 DEF Senders, Sending
<1>8. \A d \in Senders : Sending(d)' = Sending(d)
  BY <1>5, <1>6 DEF Senders, Sending
<1>9. /\ s \in Published /\ Published' = Published \ {s}
      /\ Spent' = Spent
  BY <1>2, <1>4 DEF Published, Spent
<1>10. BeingSent' = BeingSent \cup {s}
  BY <1>7, <1>8 DEF BeingSent
<1> QED
  BY <1>1, <1>9, <1>10 DEF Mapped, Store!Read

(* Committing publishes a secret that never was readable, under an          *)
(* identifier no readable secret has.                                       *)
LEMMA CommitPublishes ==
  ASSUME TypeOK, Owned, SecretsApart, Mapped, Mapped', NEW c \in Conns,
         ahc_post_commit(c)
  PROVE  \E s \in Secrets : Store!Publish(s)
<1> DEFINE id == ctx[c].id
           s == req[c].secret
<1>1. /\ daemon # "stopped" /\ daemon' # "stopped" /\ phase[c] = "full"
      /\ req[c].kind = "post" /\ c \in Uploaders
  BY DEF ahc_post_commit, Called, Serving, Complete, Uploaders
<1>2. /\ id \in blob_ids /\ id = IdOf[s] /\ s \in Secrets
      /\ fate[s] = "sent" /\ ~Gettable(id)
  BY <1>1, PostRequest DEF Owned, UploadsOwned, SecretsApart, Uncommitted,
                           Gettable
<1>3. /\ fate'[s] = "published"
      /\ \A t \in Secrets \ {s} : fate'[t] = fate[t]
  BY <1>2 DEF ahc_post_commit, TypeOK
<1>4. mem' = mem /\ \A d \in Conns : ctx'[d].blob_send = ctx[d].blob_send
  BY DEF ahc_post_commit, storage_blob_publish, Committed, TypeOK, Ctx
<1>5. Senders' = Senders /\ \A d \in Senders : Sending(d)' = Sending(d)
  BY <1>4 DEF Senders, Sending
<1> HIDE DEF s
<1>6. /\ s \notin Spent
      /\ Published' = Published \cup {s} /\ Spent' = Spent \cup {s}
  BY <1>2, <1>3 DEF Published, Spent
<1>7. BeingSent' = BeingSent
  BY <1>5 DEF BeingSent
<1>8. \A t \in Held : IdOf[t] # IdOf[s]
  BY <1>2 DEF Held
<1>9. Store!Publish(s)
  BY <1>1, <1>6, <1>7, <1>8 DEF Mapped, Store!Publish
<1> QED
  BY <1>2, <1>9

(* The end of a response releases its secret; the end of any other request, *)
(* the abort of an upload included, concerns no readable secret.            *)
LEMMA DoneReleases ==
  ASSUME TypeOK, Owned, Kept, Mapped, Mapped', NEW c \in Conns, req_done(c)
  PROVE  (\E s \in Secrets : Store!Release(s)) \/ UNCHANGED Store!vars
<1>1. PICK F, A : Freed(c, F, A)
  BY DoneFrees
<1>2. /\ daemon # "stopped" /\ daemon' # "stopped"
      /\ \A t \in Secrets :
           fate'[t] = IF t \in Sending(c) /\ fate[t] = "taken" THEN "lost"
                      ELSE fate[t]
  BY DEF req_done, Record
<1>3. /\ ctx'[c].blob_send.size = 0
      /\ \A d \in Conns \ {c} : ctx'[d] = ctx[d]
  BY DEF req_done, ctxa_free, NullCtx, NullBlk, TypeOK
<1>4. Senders' = Senders \ {c}
  BY <1>3 DEF Senders
<1>5. \A d \in Senders' : Sending(d)' = Sending(d)
  <2> TAKE d \in Senders'
  <2>1. d \in Senders \ {c} /\ ctx'[d] = ctx[d]
    BY <1>3, <1>4 DEF Senders
  <2>2. mem'[ctx[d].blob_send.data] = mem[ctx[d].blob_send.data]
    BY <1>1, <2>1 DEF Freed
  <2> QED
    BY <2>1, <2>2 DEF Sending
<1>6. \A t \in Secrets :
        /\ fate'[t] = "published" <=> fate[t] = "published"
        /\ fate'[t] \in {"new", "sent"} <=> fate[t] \in {"new", "sent"}
  BY <1>2
<1>7. CASE c \in Senders
  <2>1. PICK s \in Secrets : Sending(c) = {s}
    BY <1>7, SenderSecret
  <2>2. \A d \in Senders' : Sending(d) # {s}
    BY <1>4, <1>7, <2>1 DEF Kept, SentIntact
  <2>3. s \in BeingSent /\ BeingSent' = BeingSent \ {s}
    <3>1. \A t \in Secrets : t # s => Sending(c) # {t}
      BY <2>1
    <3>2. ASSUME NEW t \in Secrets
          PROVE  t \in BeingSent' <=> t \in BeingSent /\ t # s
      BY <1>4, <1>5, <2>2, <3>1 DEF BeingSent
    <3>3. BeingSent \subseteq Secrets /\ BeingSent' \subseteq Secrets
      BY DEF BeingSent
    <3>4. s \in BeingSent
      BY <1>7, <2>1 DEF BeingSent
    <3> QED
      BY <3>2, <3>3, <3>4
  <2>4. Published' = Published /\ Spent' = Spent
    BY <1>6 DEF Published, Spent
  <2> QED
    BY <1>2, <2>3, <2>4 DEF Mapped, Store!Release
<1>8. CASE c \notin Senders
  BY <1>2, <1>4, <1>5, <1>6, <1>8, Stutters
<1> QED
  BY <1>7, <1>8

(* The reaper discards; it writes to no block that is being sent. *)
LEMMA ReaperDiscards ==
  ASSUME TypeOK, Owned, Mapped, Mapped', Reaper
  PROVE  \E S \in SUBSET Held : Store!Discard(S)
<1> DEFINE gone == {s \in Published : fate'[s] # "published"}
<1>1. daemon # "stopped" /\ daemon' # "stopped" /\ ctx' = ctx
  BY DEF Reaper, Serving, serverVars
<1>2. \A t \in Secrets :
        \/ fate'[t] = fate[t]
        \/ fate[t] = "published" /\ fate'[t] = "expired"
  BY DEF Reaper, Record
<1>3. Senders' = Senders
  BY <1>1 DEF Senders
<1>4. \A d \in Senders : Sending(d)' = Sending(d)
  <2> TAKE d \in Senders
  <2>1. /\ ctx[d].blob_send.data \in Blocks
        /\ \A i \in Expired(now) :
             blob_data[i].data # ctx[d].blob_send.data
    BY <1>1 DEF Owned, LentOwned, Expired
  <2>2. mem'[ctx[d].blob_send.data] = mem[ctx[d].blob_send.data]
    BY <2>1 DEF Reaper, storage_reaper, storage_blob_free
  <2> QED
    BY <1>1, <2>2 DEF Sending
<1>5. Published' = Published \ gone /\ Spent' = Spent
  BY <1>2 DEF Published, Spent
<1>6. BeingSent' = BeingSent
  BY <1>3, <1>4 DEF BeingSent
<1>7. gone \in SUBSET Held
  BY <1>1 DEF Mapped
<1>8. Store!Discard(gone)
  <2> HIDE DEF gone
  <2> QED
    BY <1>1, <1>5, <1>6 DEF Mapped, Store!Discard
<1> QED
  BY <1>7, <1>8

(* The end of the process discards all that is left, and nothing is lent. *)
LEMMA CleanupDiscards ==
  ASSUME TypeOK, Owned, Mapped, Mapped', cleanup
  PROVE  Store!Discard(Held)
<1>1. /\ daemon = "stopping" /\ ctx' = ctx /\ blob_ids' = {} /\ Busy = {}
  BY DEF cleanup, storage_zero, serverVars, Quiet
<1>2. Senders = {} /\ Senders' = {}
  BY <1>1 DEF Busy, Owned, Roles, Senders
<1>3. Held' = {}
  BY <1>1 DEF Held, Gettable
<1>4. BeingSent' = BeingSent
  BY <1>2 DEF BeingSent
<1>5. Spent' = Spent
  BY DEF Spent, cleanup
<1> QED
  BY <1>3, <1>4, <1>5 DEF Mapped, Store!Discard

(* Every call of the daemon is one step of the store, or none. *)
LEMMA StoreStep ==
  ASSUME DInv, Mapped, Mapped', Next
  PROVE  Store!Next \/ UNCHANGED Store!vars
<1> USE DEF DInv, IInv
<1>1. ASSUME NEW c \in Conns, QuietCall(c)
      PROVE  UNCHANGED Store!vars
  BY <1>1, QuietKeeps, QuietBytes, QuietStutters
<1>2. CASE Tick \/ on_sigint \/ MHD_stop_daemon
  <2>1. daemon # "stopped" /\ daemon' # "stopped"
    BY <1>2 DEF Tick, on_sigint, MHD_stop_daemon, Serving
  <2>2. KeepsBlocks /\ KeepsBytes /\ KeepsFate
    BY <1>2 DEF Tick, on_sigint, MHD_stop_daemon, storageVars, serverVars,
                KeepsBlocks, KeepsBytes, KeepsFate
  <2> QED
    BY <2>1, <2>2, QuietStutters
<1>3. ASSUME UNCHANGED vars
      PROVE  UNCHANGED Store!vars
  BY <1>3 DEF vars, storageVars, serverVars, Store!vars, Held, Lent, Spent,
              Gettable, Intact, Senders, VALID_UNTIL_NOT_PUBLISHED,
              VALID_UNTIL_EMPTY
<1>4. ASSUME NEW c \in Conns, ahc_get(c) \/ ahc_post_commit(c) \/ req_done(c)
      PROVE  Store!Next \/ UNCHANGED Store!vars
  BY <1>4, GetReads, CommitPublishes, DoneReleases DEF Store!Next
<1>5. CASE Reaper
  BY <1>5, ReaperDiscards DEF Store!Next
<1>6. CASE cleanup
  BY <1>6, CleanupDiscards DEF Store!Next
<1>7. (\E c \in Conns : ahc_post_skip(c)) \/ Exited => UNCHANGED vars
  BY DEF ahc_post_skip, Exited
<1> QED
  BY <1>1, <1>2, <1>3, <1>4, <1>5, <1>6, <1>7, ReceiveStutters
     DEF Next, Client, ahc, QuietCall

(* The daemon implements the one-time store, for every set of connections   *)
(* and secrets: a secret is readable at most once, alone under its          *)
(* identifier, and not any more once ahc has handed it to a response.       *)
THEOREM OneTimeCorrect == Spec => OneTime
<1>1. Init => Store!Init
  BY DEF Init, storage_init, Store!Init, Held, Lent, Spent, Gettable, Senders,
         NullCtx, NullBlk
<1>2. DInv /\ DInv' /\ [Next]_vars => [Store!Next]_(Store!vars)
  <2> SUFFICES ASSUME DInv, DInv', [Next]_vars
               PROVE  Store!Next \/ UNCHANGED Store!vars
    OBVIOUS
  <2>1. CASE Next
    <3>1. Mapped /\ Mapped'
      <4>1. (Kept => Mapped)'
        BY KeptMapped, PTL
      <4> QED
        BY <4>1, KeptMapped DEF DInv
    <3> QED
      BY <2>1, <3>1, StoreStep
  <2>2. CASE UNCHANGED vars
    BY <2>2 DEF vars, storageVars, serverVars, Store!vars, Held, Lent, Spent,
                Gettable, Intact, Senders, VALID_UNTIL_NOT_PUBLISHED,
                VALID_UNTIL_EMPTY
  <2> QED
    BY <2>1, <2>2
<1> QED
  BY <1>1, <1>2, DInvHolds, PTL DEF Spec, OneTime, Store!Spec

(* A published row disappears only by the GET that sends it, by expiry, or  *)
(* when the process ends: no abort, duplicate or refused upload removes it. *)
THEOREM OnlyGetOrExpiryCorrect == Spec => OnlyGetOrExpiry
<1> DEFINE Why(id) ==
      \/ \E c \in Conns : /\ phase'[c] # phase[c]
                          /\ ctx'[c].blob_send = blob_data[id]
      \/ blob_valid_until[id] < now
      \/ daemon' = "stopped"
<1>1. ASSUME DInv, Next, NEW id \in blob_ids, Gettable(id),
             id \notin blob_ids'
      PROVE  Why(id)
  <2>1. ASSUME NEW c \in Conns, ahc_get(c)
        PROVE  Why(id)
    <3>1. id = req[c].id
      BY <1>1, <2>1 DEF ahc_get, storage_blob_get, Erase
    <3>2. ctx'[c].blob_send = blob_data[id]
      BY <1>1, <2>1, <3>1 DEF ahc_get, DInv, IInv, TypeOK, Ctx
    <3>3. phase'[c] # phase[c]
      BY <1>1, <2>1 DEF ahc_get, Called, send_response, DInv, IInv, TypeOK
    <3> QED
      BY <3>2, <3>3
  <2>2. ASSUME NEW c \in Conns, req_done(c)
        PROVE  FALSE
    <3>1. PICK F, A : Freed(c, F, A)
      BY <2>2, <1>1, DoneFrees DEF DInv, IInv
    <3> QED
      BY <1>1, <3>1 DEF Freed
  <2>3. CASE Reaper
    BY <1>1, <2>3 DEF Reaper, storage_reaper, Erase, Expired
  <2>4. CASE cleanup
    BY <2>4 DEF cleanup
  <2>5. ASSUME NEW c \in Conns, QuietCall(c)
        PROVE  FALSE
    BY <1>1, <2>5, QuietKeeps DEF DInv, IInv, KeepsRows
  <2>6. ASSUME NEW c \in Conns, NEW n \in 1..MAX_CHUNK,
               ahc_post_first(c, n) \/ ahc_post_next(c, n)
        PROVE  FALSE
    BY <1>1, <2>6 DEF ahc_post_first, ahc_post_next, storage_blob_create
  <2>7. ASSUME NEW c \in Conns, ahc_post_commit(c) \/ ahc_post_skip(c)
        PROVE  FALSE
    BY <1>1, <2>7 DEF ahc_post_commit, ahc_post_skip, storage_blob_publish,
                      vars, storageVars
  <2>8. CASE Tick \/ on_sigint \/ MHD_stop_daemon \/ Exited
    BY <1>1, <2>8 DEF Tick, on_sigint, MHD_stop_daemon, Exited, vars,
                      storageVars
  <2> QED
    BY <1>1, <2>1, <2>2, <2>3, <2>4, <2>5, <2>6, <2>7, <2>8
       DEF Next, Client, ahc, QuietCall
<1>2. DInv /\ [Next]_vars =>
        [\A id \in blob_ids :
           Gettable(id) /\ id \notin blob_ids' => Why(id)]_vars
  <2> SUFFICES ASSUME DInv, Next
               PROVE  \A id \in blob_ids :
                        Gettable(id) /\ id \notin blob_ids' => Why(id)
    OBVIOUS
  <2> HIDE DEF Why
  <2> QED
    BY <1>1
<1> QED
  BY <1>2, DInvHolds, PTL DEF Spec, OnlyGetOrExpiry
=============================================================================
