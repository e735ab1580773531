# A TLA+ verification of Ad Nihilum

Ad Nihilum hands a secret from one person to another exactly once. A browser
encrypts the secret and POSTs the ciphertext under an identifier; a small daemon
written in C keeps it in memory until one GET takes it or an hour has passed. This
directory models the daemon, from start-up to exit, and the pages of the sender and
the recipient in TLA+, checks small instances of the models with TLC, and proves most
of the results for every instance with TLAPS.

File and line references are to the repository (`src/`).

## 1. The system

| component | state | operations | interacts with |
|---|---|---|---|
| blob store (`storage.c`) | rows: identifier, block, expiry; counter of free slots | create, publish, abort, get, free, reaper, zero | called by the handler and the event loop |
| hash table (`linear_probing.h`, top of `storage.c`) | three parallel arrays of slots | lookup, find free slot, erase | used by the store only |
| bucket allocator (`balloc.h`) | one free list per power-of-two size | `balloc`, `bfree` | used by the store only |
| request handler (`ahc`, `req_done` in `server.c`) | one `req_ctx_t` per request | called by libmicrohttpd (MHD) for headers, each piece of body, the end, the completion | store, context pool, rate limiter |
| context pool (`ctxalloc.h`) | free list of `req_ctx_t` | alloc, free | handler |
| rate limiter (`debouncer.h`) | table of address and next permitted millisecond | `debouncer_allow_key` | asked once per request |
| start-up, event loop, shutdown (`main`) | stop flag, timer, epoll timeout, certificate and key | start-up steps, MHD_run, reaper, MHD_stop_daemon, wiping | all of the above |
| static files and translations (`server.c`) | the files, one translated copy per language, where each page has its two marks | load, measure, translate, find the marks, overwrite them on `GET /` | start-up, handler |
| statistics and status page (`server.c`) | counters | count, print | handler |
| sender page (`client-send.js`) | text, password, lock, link, button | encrypt, POST, copy | HTTP, page scrubbing |
| receiver page (`client-receive.js`) | pending secret | GET, decrypt, decrypt with password | HTTP, page scrubbing |
| tools, logging, `qrcode.js` | - | - | outside the service |

The daemon has one thread. What makes it hard is that a request is not one call:
MHD calls `ahc` when the headers are in, for each piece of the body, and at the end,
calls `req_done` when the request is over for whatever reason, and in between serves
other connections, while the event loop runs the reaper and a signal may end it all.
State that the handler looked at in one call is used in a later one; a block that
was handed to MHD is read by it over many loop turns. Below the store, a removal
from the hash table moves other rows, while the reaper holds a list of what it found
before. The free lists of both allocators run through the memory they hand out. The
clocks are 32 bits wide. The loop itself depends on a timer, on timeouts that MHD asks
for, and on a flag that a signal sets between any two steps. The pages are
asynchronous: between two awaits the user may type or click again, an animation frame
may scrub the page, or the page may be put into the browser's back/forward cache, and
by then the daemon may no longer have the secret.

What correctness means, per component:

- store and handler: a committed secret is held, unaltered, until one GET takes it
  or it expires; nothing else can be read; a secret is readable once; a block has one
  owner at a time; no secret byte survives in free memory; expired blobs go away;
- hash table: it is a map, whatever the order of insertions and removals, and every
  removal terminates;
- allocators: a request is denied only when no block of its class is left, no block
  is handed out twice or lost, and the list inside the blocks survives their use;
- rate limiter: one request per window and address, and no refusal otherwise;
- loop: the reaper runs every interval and a signal ends the loop within one,
  whatever the clients do; a connection that stalls is let go;
- start-up and shutdown: whichever step fails, no key and no secret is left in memory,
  and no response is under way when the store is wiped;
- static files: the two passes of the translation agree on every size, each language
  serves the file with its keys replaced and nothing else changed, and what `GET /`
  overwrites is a mark;
- sender page: the link shown leads to the text shown, and the page never stays locked;
- receiver page: a secret that has arrived stays readable while the user stays, and
  none is left in a page that is put away.

The list of what can go wrong, line by line, is under `hazards` in `PROJECT.json`.

## 2. The modules

    OneTimeStore      what the service promises about a secret (abstract)
      ^ refines
    Server            ahc, req_done, reaper, shutdown, on top of
      Storage         storage.c and balloc.h as their callers see them
    KeyMap            a map (abstract)
      ^ refines
    HTable            the hash table of storage.c / linear_probing.h, slot by slot
    Pool              items that are available or handed out (abstract)
      ^ refines
    BAlloc, CtxAlloc  the free lists of balloc.h and ctxalloc.h
    Main              main(): start-up, event loop, cleanup
    Assets            loading, translating and serving the static files
    Debouncer         debouncer.h
    Client            a window with one of the two pages, made of
      ClientSend      client-send.js
      ClientReceive   client-receive.js
    MC*               instances for TLC

and the modules of the proofs, which TLAPS checks:

    ServerProofs          types, ownership of blocks, slots and contexts counted
    ServerDataProofs      what the blocks hold; the refinement of OneTimeStore
    HTableProofs          the table, the loop of lp_erase; the refinement of KeyMap
    AllocProofs           both allocators; the refinements of Pool
    MainProofs            the times of the loop, the ways out of main
    DebouncerProofs       the rate limiter
    AssetsProofs          the translated files, the search for the marks
    ClientProofs          the receiver's page, the sender's page, a window with either

Where a step of the code has a plausible slip, the module has a variant of the
definition beside it (`lockTextarea_AsksAgain` beside `lockTextarea`). No specification
uses the variants; with one in place of the original TLC finds the property violated
that `PROJECT.json` lists with it under `mutants`.

**Storage** keeps rows as functions on identifiers (`blob_data`,
`blob_valid_until`), the set `blob_ids` of present rows, `htable_free`, the set
`free_blocks`, and the content `mem` of each block. The content of a block is
abstracted to whose bytes it holds and how many of them, so that a partial, mixed,
foreign or unwiped block can be told from a good one. `secure_zero` clears the
*requested* size, as the code does, so bytes beyond it would survive. `bindex` is
the code's arithmetic. One operator is one function of `storage.c`.

**Server** adds per connection the request, the phase MHD is in (`idle`, `headers`,
`body`, `full`: the body is over, `reply`, `closing`: `req_done` is due) and the
`req_ctx_t`. `Accept`, `BodyEnd`, `Sent` and `Drop` are MHD and the clients
(external). The calls of `ahc` are split by the branch they take: `ahc_first` (context
and rate limiter), `ahc_other`, `ahc_get`, `ahc_get_not_found`, and for POST
`ahc_post_bad_length`, `_duplicate`, `_oom`, `_first`, `_next`, `_skip`, `_refuse`,
`_commit`. `send_response` may fail at any call, and does when MHD is still receiving
the body; the handler then returns `MHD_NO` and MHD closes the connection. The verdict of the
rate limiter is a free choice here. `fate` is a history variable: what became of each
secret. A secret stands for one POST; two secrets may share an identifier.

**HTable** has the three arrays, the home slot of every key as a variable chosen
once (any hash function), and a removal in progress (`call`): each iteration of the
loop in `lp_erase` is a step, and so is each identifier of the reaper's list. `now`
may advance between the steps. Blocks are named after the key they were created
for, so that a block ending up under another key is seen. What the reaper's scan
gathers is the sequence of the expired keys in the order of their slots. That only
an unpublished row is published or aborted is not asked by `storage.c`; it is what the
handlers keep to (`UploadOwnsRow` of Server).

**BAlloc** lays the arenas and the array of `bucket_t` out in memory as `binit` does;
an address is an offset. What matters of an item is its first word: the next pointer
while the item is free, a secret or zero bytes while it is held. Holders write and wipe
it, so the order of wiping and `bfree` decides whether the list survives. `bindex` is
computed modulo `2^WIDTH`, once to allocate and again to free. **CtxAlloc** is the same
for the pool of contexts, whose next pointer shares its memory with the `req_ctx_t`.
Both implement **Pool**, which is the form in which Storage (`free_blocks`) and Server
(the number of contexts in use) have them.

**Main** follows `main` from the arguments to the exit code. `pc` says where it stands;
each step of start-up may fail and goes to the cleanup or returns, as in the code. Time
is relative (until the timer expires, since a connection was heard of) and passes only
in `epoll_wait`, so that the loop has no bound on its length. MHD appears as
`MHD_run` (serves who is ready, closes who was silent too long) and
`MHD_get_timeout64`; both are external. `since` is history. The store and the contexts
are reduced to whether they hold a secret: Server has what they do to requests.

**Assets** has the files as sequences of bytes that lie end to end in memory, so that
a read behind one sees the next. The measuring and the writing pass, the search for the
marks in chunks, and the overwriting by `serve_root` are the code's loops as recursive
functions on addresses. `find_16` is the AVX2 variant, whose chunks are two marks long; the
ARM variant (chunks of one mark) and the build without either are not modelled.

**Debouncer** has the table, the sweep pointer, and unwrapped time; the code sees
it modulo `CLOCK`. `granted` and `decision` are history.

**ClientReceive** is one page. `recv` says at which await `tryToReceiveSecret`
stands, `dec` the same for each call of `decryptPendingSecretWithPassword`; `bytes`
is whether the arrays of the pending secret still hold it. WebCrypto copies its
arguments when called, so the salt and the ciphertext are read in different steps.
What the cryptography computes is reduced to whether it succeeds. `SlowFrames` says
whether a promise may settle before the first animation frame. `raced` is history: the
answer came before a frame that was due, or two decryptions overlapped.

**ClientSend** is the other page. `sends` says at which await each call of `sendSecret`
stands and what it took from the fields; the calls share the fields, the lock
(`readonly`, `originalReadonly`, `disabled`) and the link (`generated`, `label`). A link
is what it leads to. `lockTextarea` dispatches an input event whether it locks or unlocks,
and the handler, `clearGeneratedState`, takes the link away unless
`suppressGeneratedStateReset` is set. So the synchronous parts of `sendSecret` around it
are steps of their own: `sendSecret` locks, `inputEvent` is the handler, `begin` the code
up to the first await; at the end `unlock` sets the flag and unlocks, `inputEvent` follows,
and `restore` drops the flag. Scripts run to completion: while a call is at one of these
steps (`Synchronous`) nothing else runs. An edit by the user, or the scrubbing, runs the
same handler within its own action. `accepted` is history: what the daemon last accepted,
until an edit, another call or a scrubbing. **Client** is a window that shows either page.

## 3. The runs

| run | instance | checks |
|---|---|---|
| `server_safety` | 3 clients, connection limit 2, 2 secrets under 1 identifier, 1 block in each of 2 buckets, lengths missing/2/3/too large, pieces of 1-2 bytes | `TypeOK`, `BlockOwnership`, `UploadOwnsRow`, `PublishedIsHeld`, `ServableIsPublished`, `SentIntact`, `NoResidue`, `ContextForEach`, `OnlyGetOrExpiry`, `OneTime` |
| `server_two_ids` | 2 clients, 2 identifiers, 2 blocks in one bucket | `SlotsCounted` |
| `server_liveness` | 2 clients, 1 identifier, fairness | `ExpiredVanishes` |
| `htable_safety` | 4 keys in 4 slots, all 256 hash functions | `AllReachable`, `LoopKeepsPaths`, `EmptySlots`, `ReaperFinds`, `ImplementsMap`, `CallsAdvance` |
| `alloc_safety` | buckets of 4 and 8 bytes, sizes 2, 4 and 5; 4 contexts | `ListsIntact`, `HeldApart`, `ImplementsPool`, `ImplementsContexts` |
| `main_loop` | 2 connections, reaper every 3, timeout 6, 2 events per wait, fairness | `EndsClean`, `ReaperOnTime`, `StopsInTime`, `LateAtMostTwice`, `StalledCloses` |
| `assets_safety` | 2 languages, 2 keys, a page of up to 4 pieces and a file of up to 1, marks of 2 bytes, chunks of 4 | `InBounds`, `Translated`, `MarksFound` |
| `debouncer_safety` | 3 addresses, 2 entries, window 3, clock modulo 8, 10 ms | `OncePerWindow`, `OneEntryPerKey` |
| `debouncer_wrap` | clock modulo 16, 20 ms | `RefusedOnlyInWindow` is **violated** |
| `client_pages` | 3 overlapping decryptions, late frames; 2 overlapping sends, 3 texts of which 1 too large, 1 password; fairness | `CardForPending`, `NothingLeftBehind`, `SecretKeptInOrder`, `LinkIsForText`, `NeverStuck`, `ResultStays`, `AnswersUser` |
| `receive_background` | one decryption at a time, late frames | `SecretKept` is **violated** |
| `receive_overlap` | two overlapping decryptions | `TryAgain` is **violated** |

Why the bounds are enough:

- three clients and two connections give a duplicate upload, a reader, and a client
  who waits for a context to come free. Two secrets under one identifier make every race
  between an upload and the remains of another happen; under two identifiers with
  one bucket the blocks are recycled from one to the other, and the reaper finds
  two rows at once;
- lengths 2 and 3 are the smallest and the largest legal ones and fall into
  different buckets in `server_safety`; with pieces of one and two bytes a body may
  be short, exact, or too long in any piece;
- with a lifetime of one second and a clock of two, a blob can be read before, at and
  after its expiry, with the reaper before or after. The bound on the clock also
  keeps it below the sentinels of `blob_valid_until` (`ClockFits`: 136 years of uptime);
- four keys fill the four slots: probe paths wrap, overlap, and become as long as
  the table, and no empty slot ends the removal loop;
- sizes 2, 4 and 5 lie below the smallest bucket, at its size, and just above it, the
  places where the shift of `bindex` changes its value; `HELD_MAX` is chosen so that the
  larger bucket can be emptied and of the smaller one enough is held to permute its list;
- in `main_loop` the connection timeout is twice the reaper's interval, as 10 seconds
  are to 5 in the code. Two connections let one stay silent while the other speaks;
  nothing bounds how long the loop runs;
- in `assets_safety` the pieces are keys, text, something that begins like a key, and
  the byte of a mark, two of which in a row are one. Four of them put marks inside chunks,
  across their ends and into the rest, and a key first, last, or next to another. Values
  are shorter and longer than their keys;
- in `debouncer_safety` the clock wraps, and three addresses force evictions;
- the receiver's page has no bound but the number of overlapping calls; two are enough
  for one to clear what the other still needs. Its six kinds of blob fail at each of the
  places where one can fail, and the network and WebCrypto may fail at every await of
  `tryToReceiveSecret` and `sendSecret`; of a decryption, which only reads what is pending,
  the password decides. For the sender two calls and two texts give a link to
  another text than the one shown, and the third is refused by its size.

**Findings.** Three statements of the repository are not what the code does. An address
that was last seen between 24.8 and 49.7 days ago, and whose entry was not evicted, is
refused although it has been silent for weeks (`debouncer.h:70`): the signed difference
has turned positive and a refusal does not refresh the entry. On the recipient's page,
the scrubbing at load waits for an animation frame, which a tab opened in the background
gets only when it is first looked at: by then the secret has been fetched, and the frame
wipes it (`client-shared.js:187`). And a second Enter while a password is being tried
lets the slower call fail on arrays the faster one has cleared, and replace the opened
secret by "That password did not work" (`client-receive.js:243`). `SecretKeptInOrder`
shows that these two are all there is: without a late frame and without overlapping
calls a secret that has arrived stays.

**Worth knowing.** What the models show beside the properties:

- a GET removes the blob before the answer is sent (`server.c:1090`), so an interrupted
  read destroys a secret nobody saw. The repository's README says both that the blob
  "disappears after one successful read" (line 17) and that it is "deleted immediately
  after first GET" (line 301); the code, and OneTimeStore, are the second;
- `storage_blob_get` does not look at the expiry (`storage.c:366`), so a blob may be
  served past its hour until the reaper's next run, at most five seconds later;
- an address evicted from the rate limiter's table is no longer limited, so
  `OncePerWindow` speaks of tracked addresses;
- `epoll_wait` begins its whole timeout again after each event of the timer, and MHD is
  only run when it has events or nothing at all happened (`server.c:1540`). A timeout
  longer than the timer's 5 seconds never elapses: without traffic a stalled connection
  is not looked at, hence the condition in `StalledCloses`. And the timeout is left as it
  was when the last connection is gone, so that a 0 makes the loop spin until the next
  event of MHD;
- `translate_file` copies the byte behind a key unexamined (`server.c:396`). A key right
  behind another stays untranslated, and a key at the very end of a file would be followed
  by one byte more than was allocated. The files of the repository have neither
  (`Tail_`, `Adjacent`);
- overlapping calls of `sendSecret` (Ctrl+Enter works in a locked text area) may show
  the link of the first beside a text edited since, hence `overlapped` in
  `LinkIsForText`. What holds however calls overlap is `ResultStays`: the link of the last
  secret the daemon accepted stays until an edit, a new call or the scrubbing.

`SentIntact` is also what the order of the cleanup is for: `cleanup` waits for
`MHD_stop_daemon` to have completed every request (`Quiet`, MHD's contract), and a variant
that does not (`Quiet_TooEarly`) wipes a block under a response.

**Fairness.** `FairSpec` of Server assumes that the reaper's timer keeps firing
(a periodic timerfd, read on every event), that the loop sees `stop_main_loop` after
a signal (the same timer ends every `epoll_wait` within 5 seconds), that MHD completes a
request it is closing, and that `MHD_stop_daemon` closes all connections. Nothing is
assumed of clients, of the progress of uploads, or of MHD's connection timeout.
`main_loop` shows what the first two assumptions rest on (`ReaperOnTime`,
`StopsInTime`) from one alone: the thread goes on, and time passes while it waits.
`Fairness` of ClientReceive assumes that WebCrypto answers and that frames are painted
while the page is shown; it assumes nothing of the network or the user. The sender's
page and the hash table need none: that a removal ends is the action property
`CallsAdvance`, each step of a call being nearer to its end than the one before.

Deadlock is checked in every run; a stopped daemon stutters in `Exited`.

## 4. What is proved

Every safety property and every refinement that a run checks is proved for every
value of the constants. The theorems assume what the
modules assume of their constants, which TLC evaluates on every run: the null values
are not members of their sets (`StorageConstants`, `ServerConstants`, `HTableConstants`,
`DebouncerConstants`), sizes and periods are positive, and

- `ClockFits`: the clock stays below the sentinels of `blob_valid_until`;
- `BAllocConstants`: `1 << k` is an `int`, so that no exponent exceeds 30, `count *
  item_size` an `unsigned`, so that the two exponents add up to less than 32, and no size
  is 0 or 1, of which `balloc.h` says that it must never be asked for;
- `DebouncerConstants`: a window is less than half of what the clock counts;
- `TailConstant`: the last byte of a file is in no key. Keys are names between two `@`, and
  the files end with a newline, a semicolon or the last byte of a PNG. A file that ended
  with a key would have its size measured one way and be written another;
- `KeysConstant`: every language has the same keys, each one once, and a key has `@` at its
  two ends and nowhere else. `translations.py` accepts only names of letters, digits and
  underscores, keeps them in a dictionary and writes `@name@` for each language in turn;
- `PiecesConstant`: a file is given by its pieces, cut where a key begins and behind it, so
  that no key begins inside a text. This restricts the notation and no file: cutting at the
  first key, and then at the first one behind it, yields such pieces.

| module | theorem | states |
|---|---|---|
| ServerProofs | `TypeCorrect` | `Spec => []TypeOK` |
| | `OwnershipCorrect` | `Spec => []BlockOwnership` |
| | `UploadsCorrect` | `Spec => []UploadOwnsRow` |
| | `SlotsCorrect` | `Spec => []SlotsCounted` |
| | `PoolCorrect` | `Spec => []ContextForEach` |
| ServerDataProofs | `PublishedCorrect` | `Spec => []PublishedIsHeld` |
| | `ServableCorrect` | `Spec => []ServableIsPublished` |
| | `SentCorrect` | `Spec => []SentIntact` |
| | `ResidueCorrect` | `Spec => []NoResidue` |
| | `OneTimeCorrect` | `Spec => OneTime` |
| | `OnlyGetOrExpiryCorrect` | `Spec => OnlyGetOrExpiry` |
| HTableProofs | `ReachableCorrect` | `Spec => []AllReachable` |
| | `PathsCorrect` | `Spec => []LoopKeepsPaths` |
| | `EmptyCorrect` | `Spec => []EmptySlots` |
| | `ReaperFindsCorrect` | `Spec => []ReaperFinds` |
| | `AdvanceCorrect` | `Spec => CallsAdvance` |
| | `MapCorrect` | `Spec => ImplementsMap` |
| AllocProofs | `ListsCorrect` | `Spec => []ListsIntact` |
| | `HeldApartCorrect` | `Spec => []HeldApart` |
| | `PoolOfBlocksCorrect` | `Spec => ImplementsPool` |
| | `ContextsCorrect` | `CtxSpec => ImplementsContexts` |
| MainProofs | `ReaperCorrect` | `Spec => []ReaperOnTime` |
| | `StopCorrect` | `Spec => []StopsInTime` |
| | `LateCorrect` | `Spec => []LateAtMostTwice` |
| | `ExitCorrect` | `Spec => []EndsClean` |
| DebouncerProofs | `WindowCorrect` | `Spec => []OncePerWindow` |
| | `OneEntryCorrect` | `Spec => []OneEntryPerKey` |
| AssetsProofs | `InBoundsCorrect` | `Spec => []InBounds` |
| | `MarksFoundCorrect` | `Spec => []MarksFound` |
| | `TranslatedCorrect` | `Spec => []Translated` |
| ClientProofs | `CardCorrect` | `Spec => []CardForPending` |
| | `PutAwayClean` | `Spec => []NothingLeftBehind` |
| | `KeptInOrder` | `Spec => []SecretKeptInOrder` |
| | `NeverStuckCorrect` | `SendSpec => []NeverStuck` |
| | `LinkCorrect` | `SendSpec => []LinkIsForText` |
| | `ResultStaysCorrect` | `SendSpec => []ResultStays` |
| | `WindowReceives`, `WindowSends` | the same six of `ClientSpec` |

Hardly one of these is inductive. The invariants that are, and why they are needed:

**ServerProofs.** That the free list only ever receives blocks depends on who owns
what; that a GET does not lend a block twice depends on rows having distinct blocks;
that `req_done` frees the right row depends on an uploader's identifier naming a row
that is unpublished and has its own block; and that the reaper leaves uploads alone
depends on the clock staying below the sentinel. The invariant is `IInv == TypeOK /\
Owned`, where `Owned` has six parts:

- `RowsOwned`: the block of a row is not free, not null, and no other row's;
- `LentOwned`: the same for the blocks lent to responses, which are also in no row;
- `UploadsOwned`, `RowsUploaded`: uploads in progress and unpublished rows correspond;
- `NoLeak`: every block is free, in a row, or lent;
- `Roles`: only a GET in `reply` or `closing` lends, only a POST past its headers
  uploads; without it a step of a GET could be a step of an uploader.

There is one lemma per action that touches rows, blocks or contexts and one frame lemma
for all that do not. `PoolInv` says of the contexts that the requests that have one are
among the connections MHD has let in, and are past their first call: so the pool has one
for each first call.

**ServerDataProofs.** `DInv` adds to `IInv` what the blocks hold. `UploadBytes`: the
block of an upload holds as many bytes as were counted, all of them its own, and the
size to be wiped is the size that was expected; `FreshBodies`: an upload without a block
begins at the first byte; `SecretsApart`: no two requests carry the same secret, and
until its commit a secret was never readable. With these the four properties `Kept` is
made of are inductive together: the commit publishes a block that `UploadBytes` says is
whole, and the wipe clears it because the two sizes agree. The refinement maps the
published rows to what is held, the responses under way to what is lent and `fate` to
what is spent; each handler is shown to be one step of OneTimeStore or none
(`QuietStutters`).

**HTableProofs.** `TableInv` says that a key is in one slot with its own block, that no
probe path has a gap, where the loop of `lp_erase` stands and that only rows it has not
yet examined have the hole on their path, that what the reaper gathered is in the table
once, and that the counter is exact. That is not enough for a full table, where no empty
slot ends the loop: it stops where it began, and a row moved early could have a slot on
its path that becomes the hole later. What prevents this is the *cut*: some slot is on no
probe path. The key that fills the last slot found it empty, so that no path led across
it. `\E c \in Slots : Cut(c)` is part of the invariant, and the loop never moves the hole
beyond the cut.

**AllocProofs.** Both allocators keep their lists in the memory of what is free, so the
lemmas `ListKept`, `ListPop`, `ListPush` and `ListEmpty` about such lists serve both.
`List(w, h, n, S)` says that the words `w` followed from `h` visit each member of `S` once
in `n` steps and then end. `CtxInv` and `AllocInv` say that of every free list, and
`AllocInv` that no two holders have the same item and each one of the bucket that `bindex`
finds again when it is freed. The rest is arithmetic: `PowerDoubles` and `PowerAdds`, from
the library's theorem on the number of subsets; `ArenaStarts`: all arenas are equally
large; `Log`, `Mask` and `Index`: the shifts and masks of `bindex` give the smallest bucket
that is large enough; `ItemsApart`. The recursive functions `ArenaStart` and `Node` are
shown to be what they should be by naming a function that satisfies their equation and
comparing the two at the least argument at which they would differ.

**MainProofs.** `TimerExact` ties the time since the last reap to the timer, `StopInv`
says that a signal which missed its wait came after the last reap, and `LateInv` how long
ago MHD was run in terms of the wait under way: this wait is the first since then, or it
began when the timer was read. `BootInv` has what is in memory at each step of start-up.

**DebouncerProofs.** `TableInv`: probe paths have no gap, no address has two entries, and
an entry holds the end of the window of the last time its address was allowed, as the clock
shows it. `Wraps` is the arithmetic of the clock: the wrapped difference of two times less
than a window apart is their difference.

**AssetsProofs.** `AInv` says, for each stage of start-up, where every file lies: the ones
translated in what was written so far, the others in the memory they were read into, and
that as much was written as the first pass measured of the files before. It rests on two
lemmas about the code's loops. `PassesAgree`: what `translate_file` writes is as long as
`get_translated_file_size` says, because no key that is found reaches the last byte of the
file (`Progress`), so that the byte copied behind it is one of the file. `SearchFinds`: the
search in chunks finds what a search of the whole page finds. The recursive functions are
shown to exist by extending them address by address (`DownwardFunction`, `UpwardFunction`),
and compared at the last address at which they would differ.

`TInv`, on top of it, says what the memory holds: each file has the place the first pass
gave it and the bytes `translate_file` yields for the file as it was read; once the server
serves, these bytes except those under the marks of its own language, and the marks lie in
the page (`FoundInPage`), so that overwriting them touches no other language's files
(`Apart`). What `translate_file` yields is `TranslatesWell`. The scan stands at the
beginning of a piece after every piece: over a text it finds no key and copies byte by byte
(`ScanText`); at a key it finds this one and no other, because a shorter key would end with
an `@` in the middle of the longer (`KeyFound`), and the byte it copies unexamined is the
first of the next piece, which is a text (`ScanKey`). Therefore the bytes written are the
pieces' values, end to end (`ScanTranslates`), which is what `FlattenSeq` lays out
(`FlattenIs`).

**ClientProofs.** `PInv` adds that a secret is never shown with a
tone (`SecretHasNoTone`; the scrubbing passes over toned texts), that a finished call has
cleared its keys (`KeysCleared`), and what holds before the first step. `KInv` says what
"in order" means between the steps: no frame is due, one decryption is under way at most,
and the secret is pending while it is. `SInv` of the sender has `LockInv`: what was
remembered of the lock is that there was none, so unlocking unlocks, and a locked page has
a call under way; `ThreadInv`: one call at a time is between two awaits, and the flag is
set exactly while one has unlocked and not ended, so that the event of an unlocking finds it
set and every other event finds it dropped (`EventEffect`); `AcceptedInv` and `LabelInv`:
what was accepted is shown, and the button says so; and `OneCall`: a call that waits holds
the text shown, which the lock keeps from being edited.

TLC has checked the invariants on the instances of section 3 before they were proved
(`Lists` in the form of `ListsIntact`).

**Only model-checked:**

- liveness: `ExpiredVanishes`, `StalledCloses`, `AnswersUser`. Fairness is out of the
  prover's reach.

## 5. What is not modelled

- Statistics and the status page: counters that are printed and nothing reads back.
- The text of responses, header parsing and the decoding of identifiers: a request
  arrives as one of a few kinds. `asset_find`, a read-only lookup.
- The contents of arguments, certificate and key files: Main has whether a step
  succeeded and what it left in memory.
- `log_`: output only. Its use in a signal handler is listed as a hazard.
- libmicrohttpd itself: modelled by what `server.c` relies on. Builds with `TAILSCALE`,
  which start it without a connection timeout.
- The cryptography of the pages: WebCrypto is third-party, and the properties need only
  whether a call succeeds. Scrolling, popups and the QR image.
- `qrcode.js` (third-party), the benchmark and build tools.

## 6. Plan

Every part of the service that keeps state is modelled, the statistics apart, and every
safety property is proved. What is left is outside the prover's reach: the liveness
properties stay with TLC.
