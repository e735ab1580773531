------------------------------ MODULE CtxAlloc ------------------------------
(***************************************************************************)
(* The pool of request contexts of ctxalloc.h.  The free list runs through *)
(* the blocks themselves: a block is a union of the next pointer and of    *)
(* the req_ctx_t, and the list is all there is to tell a free block.       *)
(***************************************************************************)
EXTENDS Integers, FiniteSets

CONSTANT REQUESTS_MAX  \* blocks of the pool

ASSUME CtxAllocConstants == REQUESTS_MAX \in Nat \ {0}

VARIABLES
  free_list,  \* the first free block
  available,  \* how many blocks the pool counts as free
  next,       \* what each block holds, read as the next pointer
  given,      \* the blocks that requests have
  refused     \* history: whether the latest call returned NULL

ctxVars == <<free_list, available, next, given, refused>>

Contexts == 0..(REQUESTS_MAX - 1)

(* Zero bytes, which are the null pointer, and the fields of a request. *)
NIL == -1
REQUEST == -2

ctxa_init ==
  /\ free_list = 0
  /\ available = REQUESTS_MAX
  /\ next = [i \in Contexts |-> IF i < REQUESTS_MAX - 1 THEN i + 1 ELSE NIL]

(* Variant: the block is cleared before its next pointer is read. *)
ctxa_alloc_ClearFirst ==
  IF free_list = NIL
  THEN refused' = TRUE /\ UNCHANGED <<free_list, available, next, given>>
  ELSE /\ free_list' = NIL
       /\ available' = available - 1
       /\ next' = [next EXCEPT ![free_list] = NIL]
       /\ given' = given \cup {free_list}
       /\ refused' = FALSE

ctxa_alloc ==
  IF free_list = NIL
  THEN refused' = TRUE /\ UNCHANGED <<free_list, available, next, given>>
  ELSE /\ free_list' = next[free_list]
       /\ available' = available - 1
       /\ next' = [next EXCEPT ![free_list] = NIL]
       /\ given' = given \cup {free_list}
       /\ refused' = FALSE

(* The handler fills in the context. *)
Use(c) ==
  /\ c \in given
  /\ next' = [next EXCEPT ![c] = REQUEST]
  /\ UNCHANGED <<free_list, available, given, refused>>

(* Variant: the block becomes the head without being linked to the rest. *)
ctxa_free_Unlinked(c) ==
  /\ c \in given
  /\ free_list' = c
  /\ available' = available + 1
  /\ given' = given \ {c}
  /\ refused' = FALSE
  /\ UNCHANGED next

ctxa_free(c) ==
  /\ c \in given
  /\ next' = [next EXCEPT ![c] = free_list]
  /\ free_list' = c
  /\ available' = available + 1
  /\ given' = given \ {c}
  /\ refused' = FALSE

CtxInit ==
  /\ ctxa_init
  /\ given = {}
  /\ refused = FALSE

CtxNext ==
  \/ ctxa_alloc
  \/ \E c \in given : Use(c) \/ ctxa_free(c)

CtxSpec == CtxInit /\ [][CtxNext]_ctxVars

-----------------------------------------------------------------------------
CP == INSTANCE Pool WITH
       Items <- Contexts,
       ClassOf <- [c \in Contexts |-> 0],
       available <- Contexts \ given,
       last <- [asked |-> 0, ok |-> ~refused]

(***************************************************************************)
(* The pool implements the contexts of Server: NULL is returned only when  *)
(* every context is in use.                                                *)
(***************************************************************************)
ImplementsContexts == CP!Spec
=============================================================================
