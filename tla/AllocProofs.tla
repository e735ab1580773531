---------------------------- MODULE AllocProofs ----------------------------
(***************************************************************************)
(* Proofs about the two allocators, for every number of contexts and every *)
(* layout of buckets.  Both keep a free list inside of the free blocks, so *)
(* that the proofs share what is said here about such lists.               *)
(***************************************************************************)
EXTENDS BAlloc, CtxAlloc, FiniteSetTheorems, WellFoundedInduction, TLAPS

(* s walks the list that begins at h and runs through the words w: it has n *)
(* nodes, which are the members of S, each once, and then it ends.          *)
Walk(w, h, n, S, s) ==
  /\ s \in [0..n -> S \cup {NIL}]
  /\ s[0] = h /\ s[n] = NIL
  /\ \A k \in 0..(n - 1) : s[k] \in S /\ w[s[k]] = s[k + 1]
  /\ \A k, m \in 0..(n - 1) : s[k] = s[m] => k = m
  /\ \A x \in S : \E k \in 0..(n - 1) : s[k] = x

List(w, h, n, S) == \E s : Walk(w, h, n, S, s)

-----------------------------------------------------------------------------
(* A list depends only on the words of its nodes. *)
LEMMA ListKept ==
  ASSUME NEW w, NEW v, NEW h, NEW n \in Nat, NEW S, List(w, h, n, S),
         \A x \in S : v[x] = w[x]
  PROVE  List(v, h, n, S)
BY DEF List, Walk

(* The count, the head and the members agree on when a list is empty. *)
LEMMA ListEmpty ==
  ASSUME NEW w, NEW h, NEW n \in Nat, NEW S, NIL \notin S, List(w, h, n, S)
  PROVE  /\ n = 0 <=> h = NIL
         /\ n = 0 <=> S = {}
         /\ n # 0 => h \in S
<1>1. PICK s : Walk(w, h, n, S, s)
  BY DEF List
<1>2. CASE n = 0
  BY <1>1, <1>2 DEF Walk
<1>3. CASE n # 0
  BY <1>1, <1>3 DEF Walk
<1> QED
  BY <1>2, <1>3

(* The head is taken off, and its word tells the new head. *)
LEMMA ListPop ==
  ASSUME NEW w, NEW v, NEW h, NEW n \in Nat, NEW S, NIL \notin S,
         List(w, h, n, S), n # 0, \A x \in S \ {h} : v[x] = w[x]
  PROVE  List(v, w[h], n - 1, S \ {h})
<1>1. PICK s : Walk(w, h, n, S, s)
  BY DEF List
<1> DEFINE t == [k \in 0..(n - 1) |-> s[k + 1]]
<1>2. \A k \in 0..(n - 1) : t[k] = s[k + 1]
  OBVIOUS
<1>3. /\ h = s[0] /\ s[n] = NIL
      /\ \A k \in 0..(n - 1) : s[k] \in S /\ w[s[k]] = s[k + 1]
      /\ \A k, m \in 0..(n - 1) : s[k] = s[m] => k = m
      /\ \A x \in S : \E k \in 0..(n - 1) : s[k] = x
  BY <1>1 DEF Walk
<1>4. \A k \in 0..(n - 2) : k + 1 \in 0..(n - 1) /\ k \in 0..(n - 1)
  OBVIOUS
<1>5. \A k \in 0..(n - 2) : s[k + 1] \in S \ {h}
  BY <1>3, <1>4
<1>6. t \in [0..(n - 1) -> (S \ {h}) \cup {NIL}]
  <2>1. ASSUME NEW k \in 0..(n - 1)
        PROVE  s[k + 1] \in (S \ {h}) \cup {NIL}
    <3>1. k \in 0..(n - 2) \/ k + 1 = n
      OBVIOUS
    <3> QED
      BY <1>3, <1>5, <3>1
  <2> QED
    BY <2>1
<1> HIDE DEF t
<1>7. t[0] = w[h] /\ t[n - 1] = NIL
  <2>1. 0 \in 0..(n - 1) /\ n - 1 \in 0..(n - 1) /\ n - 1 + 1 = n
    OBVIOUS
  <2> QED
    BY <1>2, <1>3, <2>1
<1>8. \A k \in 0..(n - 2) : t[k] \in S \ {h} /\ v[t[k]] = t[k + 1]
  <2>1. ASSUME NEW k \in 0..(n - 2)
        PROVE  t[k] \in S \ {h} /\ v[t[k]] = t[k + 1]
    <3>1. t[k] = s[k + 1] /\ t[k + 1] = s[(k + 1) + 1]
      BY <1>2, <1>4, <2>1
    <3>2. w[s[k + 1]] = s[(k + 1) + 1]
      BY <1>3, <1>4, <2>1
    <3> QED
      BY <1>5, <2>1, <3>1, <3>2
  <2> QED
    BY <2>1
<1>9. \A k, m \in 0..(n - 2) : t[k] = t[m] => k = m
  <2>1. ASSUME NEW k \in 0..(n - 2), NEW m \in 0..(n - 2), t[k] = t[m]
        PROVE  k + 1 = m + 1
    BY <1>2, <1>3, <1>4, <2>1
  <2> QED
    BY <2>1
<1>10. \A x \in S \ {h} : \E k \in 0..(n - 2) : t[k] = x
  <2>1. ASSUME NEW x \in S \ {h}
        PROVE  \E k \in 0..(n - 2) : t[k] = x
    <3>1. PICK k \in 0..(n - 1) : s[k] = x
      BY <1>3
    <3>2. k # 0
      BY <1>3, <3>1
    <3>3. k - 1 \in 0..(n - 2) /\ k - 1 \in 0..(n - 1) /\ (k - 1) + 1 = k
      BY <3>2
    <3> QED
      BY <1>2, <3>1, <3>3
  <2> QED
    BY <2>1
<1> QED
  <2>1. n - 1 - 1 = n - 2
    OBVIOUS
  <2>2. Walk(v, w[h], n - 1, S \ {h}, t)
    BY <1>6, <1>7, <1>8, <1>9, <1>10, <2>1 DEF Walk
  <2> QED
    BY <2>2 DEF List

(* A block is put in front, and its word points to the old head. *)
LEMMA ListPush ==
  ASSUME NEW w, NEW v, NEW h, NEW n \in Nat, NEW S, NEW b, b \notin S,
         List(w, h, n, S), v[b] = h, \A x \in S : v[x] = w[x]
  PROVE  List(v, b, n + 1, S \cup {b})
<1>1. PICK s : Walk(w, h, n, S, s)
  BY DEF List
<1> DEFINE t == [k \in 0..(n + 1) |-> IF k = 0 THEN b ELSE s[k - 1]]
<1>2. t[0] = b /\ \A k \in 0..n : t[k + 1] = s[k]
  OBVIOUS
<1>3. /\ h = s[0] /\ s[n] = NIL /\ s \in [0..n -> S \cup {NIL}]
      /\ \A k \in 0..(n - 1) : s[k] \in S /\ w[s[k]] = s[k + 1]
      /\ \A k, m \in 0..(n - 1) : s[k] = s[m] => k = m
      /\ \A x \in S : \E k \in 0..(n - 1) : s[k] = x
  BY <1>1 DEF Walk
<1>4. t \in [0..(n + 1) -> (S \cup {b}) \cup {NIL}]
  BY <1>3
<1> HIDE DEF t
<1>5. t[n + 1] = NIL
  BY <1>2, <1>3
<1>6. ASSUME NEW k \in 0..n
      PROVE  t[k] \in S \cup {b} /\ v[t[k]] = t[k + 1]
  <2>1. CASE k = 0
    BY <1>2, <1>3, <2>1
  <2>2. CASE k # 0
    <3>1. k - 1 \in 0..(n - 1) /\ (k - 1) + 1 = k
      BY <2>2
    <3>2. t[k] = s[k - 1] /\ t[k + 1] = s[k]
      BY <1>2, <3>1
    <3>3. s[k - 1] \in S /\ w[s[k - 1]] = s[k]
      BY <1>3, <3>1
    <3> QED
      BY <3>2, <3>3
  <2> QED
    BY <2>1, <2>2
<1>7. ASSUME NEW k \in 0..n, k # 0
      PROVE  k - 1 \in 0..(n - 1) /\ t[k] = s[k - 1] /\ t[k] \in S
  <2>1. k - 1 \in 0..(n - 1) /\ (k - 1) + 1 = k
    BY <1>7
  <2>2. t[k] = s[k - 1]
    BY <1>2, <2>1
  <2> QED
    BY <1>3, <2>1, <2>2
<1>8. ASSUME NEW k \in 0..n, NEW m \in 0..n, t[k] = t[m]
      PROVE  k = m
  <2>1. CASE k # 0 /\ m # 0
    <3>1. k - 1 = m - 1
      BY <1>3, <1>7, <1>8, <2>1
    <3> QED
      BY <3>1
  <2> QED
    BY <1>2, <1>7, <1>8, <2>1
<1>9. ASSUME NEW x \in S \cup {b}
       PROVE  \E k \in 0..n : t[k] = x
  <2>1. CASE x \in S
    <3>1. PICK k \in 0..(n - 1) : s[k] = x
      BY <1>3, <2>1
    <3>2. k + 1 \in 0..n /\ k \in 0..n
      OBVIOUS
    <3> QED
      BY <1>2, <3>1, <3>2
  <2> QED
    BY <1>2, <2>1
<1> QED
  <2>1. n + 1 - 1 = n
    OBVIOUS
  <2>2. Walk(v, b, n + 1, S \cup {b}, t)
    BY <1>2, <1>4, <1>5, <1>6, <1>8, <1>9, <2>1 DEF Walk
  <2> QED
    BY <2>2 DEF List

-----------------------------------------------------------------------------
(* The free list of ctxalloc.h holds the contexts that no request has. *)
CtxInv ==
  /\ available \in Nat
  /\ next \in [Contexts -> Contexts \cup {NIL, REQUEST}]
  /\ given \subseteq Contexts
  /\ refused \in BOOLEAN
  /\ List(next, free_list, available, Contexts \ given)

(* A context is a number, and no number is the null pointer. *)
LEMMA ContextNumbers ==
  /\ NIL \notin Contexts /\ REQUEST \notin Contexts /\ 0 \in Contexts
BY CtxAllocConstants DEF Contexts, NIL, REQUEST

(* ctxa_init links every context to the one behind it. *)
LEMMA CtxInitInv == CtxInit => CtxInv
<1> SUFFICES ASSUME CtxInit PROVE CtxInv
  OBVIOUS
<1>1. REQUESTS_MAX \in Nat /\ REQUESTS_MAX > 0
  BY CtxAllocConstants
<1>2. next \in [Contexts -> Contexts \cup {NIL, REQUEST}]
  BY <1>1 DEF CtxInit, ctxa_init, Contexts
<1> DEFINE s == [k \in 0..REQUESTS_MAX |-> IF k < REQUESTS_MAX THEN k ELSE NIL]
<1>3. Walk(next, 0, REQUESTS_MAX, Contexts, s)
  <2>1. /\ s \in [0..REQUESTS_MAX -> Contexts \cup {NIL}]
        /\ s[0] = 0 /\ s[REQUESTS_MAX] = NIL
        /\ \A k \in Contexts : s[k] = k
    BY <1>1 DEF Contexts
  <2>2. \A k \in Contexts : next[k] = s[k + 1]
    BY <1>1 DEF CtxInit, ctxa_init, Contexts
  <2> HIDE DEF s
  <2> QED
    BY <2>1, <2>2 DEF Walk, Contexts
<1>4. List(next, free_list, available, Contexts)
  BY <1>3 DEF List, CtxInit, ctxa_init
<1> QED
  BY <1>1, <1>2, <1>4 DEF CtxInv, CtxInit, ctxa_init

(* The free list survives every call and whatever a request writes. *)
LEMMA CtxStepInv == CtxInv /\ [CtxNext]_ctxVars => CtxInv'
<1> SUFFICES ASSUME CtxInv, [CtxNext]_ctxVars PROVE CtxInv'
  OBVIOUS
<1> USE DEF CtxInv
<1>0. NIL \notin Contexts \ given
  BY ContextNumbers
<1>1. CASE ctxa_alloc
  <2>1. CASE free_list = NIL
    BY <1>1, <2>1 DEF ctxa_alloc
  <2>2. CASE free_list # NIL
    <3>1. /\ free_list' = next[free_list] /\ available' = available - 1
          /\ next' = [next EXCEPT ![free_list] = NIL]
          /\ given' = given \cup {free_list} /\ refused' = FALSE
      BY <1>1, <2>2 DEF ctxa_alloc
    <3>2. available # 0 /\ free_list \in Contexts \ given
      BY <1>0, <2>2, ListEmpty
    <3>3. \A x \in (Contexts \ given) \ {free_list} : next'[x] = next[x]
      BY <3>1
    <3>4. List(next', free_list', available', (Contexts \ given) \ {free_list})
      BY <1>0, <3>1, <3>2, <3>3, ListPop
    <3>5. (Contexts \ given) \ {free_list} = Contexts' \ given'
      BY <3>1 DEF Contexts
    <3>6. /\ available' \in Nat /\ given' \subseteq Contexts
          /\ next' \in [Contexts -> Contexts \cup {NIL, REQUEST}]
      BY <3>1, <3>2
    <3> QED
      BY <3>1, <3>4, <3>5, <3>6 DEF Contexts, NIL, REQUEST
  <2> QED
    BY <2>1, <2>2
<1>2. ASSUME NEW c \in given, Use(c)
      PROVE  CtxInv'
  <2>1. /\ next' = [next EXCEPT ![c] = REQUEST]
        /\ UNCHANGED <<free_list, available, given, refused>>
    BY <1>2 DEF Use
  <2>2. List(next', free_list, available, Contexts \ given)
    <3>1. \A x \in Contexts \ given : next'[x] = next[x]
      BY <1>2, <2>1
    <3> QED
      BY <3>1, ListKept
  <2>3. next' \in [Contexts -> Contexts \cup {NIL, REQUEST}]
    BY <2>1
  <2> QED
    BY <2>1, <2>2, <2>3 DEF Contexts, NIL, REQUEST
<1>3. ASSUME NEW c \in given, ctxa_free(c)
      PROVE  CtxInv'
  <2>1. /\ next' = [next EXCEPT ![c] = free_list] /\ free_list' = c
        /\ available' = available + 1 /\ given' = given \ {c}
        /\ refused' = FALSE
    BY <1>3 DEF ctxa_free
  <2>2. c \in Contexts /\ c \notin Contexts \ given
    OBVIOUS
  <2>3. free_list \in Contexts \cup {NIL}
    BY <1>0, ListEmpty
  <2>4. next' \in [Contexts -> Contexts \cup {NIL, REQUEST}]
    BY <2>1, <2>3
  <2>5. next'[c] = free_list /\ \A x \in Contexts \ given : next'[x] = next[x]
    BY <2>1, <2>2
  <2>6. List(next', c, available + 1, (Contexts \ given) \cup {c})
    BY <2>2, <2>5, ListPush
  <2>7. (Contexts \ given) \cup {c} = Contexts' \ given'
    BY <2>1, <2>2 DEF Contexts
  <2>8. available' \in Nat /\ given' \subseteq Contexts
    BY <2>1
  <2>9. List(next', free_list', available', Contexts' \ given')
    BY <2>1, <2>6, <2>7
  <2> QED
    BY <2>1, <2>4, <2>8, <2>9 DEF Contexts, NIL, REQUEST
<1>4. CASE UNCHANGED ctxVars
  BY <1>4 DEF ctxVars, Contexts, NIL, REQUEST
<1> QED
  BY <1>1, <1>2, <1>3, <1>4 DEF CtxNext

(* Every step of the pool is one that the contexts of Server may take. *)
LEMMA CtxStepMaps ==
  CtxInv /\ [CtxNext]_ctxVars =>
    [CP!Next]_<<Contexts \ given, [asked |-> 0, ok |-> ~refused]>>
<1> SUFFICES ASSUME CtxInv, [CtxNext]_ctxVars
             PROVE  [CP!Next]_<<Contexts \ given,
                                [asked |-> 0, ok |-> ~refused]>>
  OBVIOUS
<1> USE DEF CtxInv
<1>0. NIL \notin Contexts \ given
  BY ContextNumbers
<1>1. 0 \in {[c \in Contexts |-> 0][x] : x \in Contexts}
  BY ContextNumbers
<1>2. CP!OfClass(0) = Contexts \ given
  BY DEF CP!OfClass
<1>3. CASE ctxa_alloc
  <2>1. CASE free_list = NIL
    <3>1. Contexts \ given = {}
      BY <1>0, <2>1, ListEmpty
    <3>2. refused' = TRUE /\ given' = given
      BY <1>3, <2>1 DEF ctxa_alloc
    <3>3. CP!Deny(0)
      BY <1>2, <3>1, <3>2 DEF CP!Deny, Contexts
    <3> QED
      BY <1>1, <3>3 DEF CP!Next
  <2>2. CASE free_list # NIL
    <3>1. free_list \in Contexts \ given
      BY <1>0, <2>2, ListEmpty
    <3>2. refused' = FALSE /\ given' = given \cup {free_list}
      BY <1>3, <2>2 DEF ctxa_alloc
    <3>3. (Contexts \ given)' = (Contexts \ given) \ {free_list}
      BY <3>2 DEF Contexts
    <3>4. CP!Take(0)
      BY <1>2, <3>1, <3>2, <3>3 DEF CP!Take
    <3> QED
      BY <1>1, <3>4 DEF CP!Next
  <2> QED
    BY <2>1, <2>2
<1>4. ASSUME NEW c \in given, ctxa_free(c)
      PROVE  CP!Next
  <2>1. refused' = FALSE /\ given' = given \ {c} /\ c \in Contexts
    BY <1>4 DEF ctxa_free
  <2>2. (Contexts \ given)' = (Contexts \ given) \cup {c}
    BY <2>1 DEF Contexts
  <2>3. CP!Give(c)
    BY <2>1, <2>2 DEF CP!Give, CP!None
  <2> QED
    BY <2>1, <2>3 DEF CP!Next
<1>5. CASE UNCHANGED ctxVars \/ \E c \in given : Use(c)
  BY <1>5 DEF ctxVars, Use, Contexts
<1> QED
  BY <1>3, <1>4, <1>5 DEF CtxNext

(***************************************************************************)
(* ctxa_alloc and ctxa_free implement a pool of REQUESTS_MAX contexts, for *)
(* every REQUESTS_MAX: no context is handed out twice, and NULL is         *)
(* returned only when every context is in use, whatever requests wrote     *)
(* into the blocks that the free list runs through.                        *)
(***************************************************************************)
THEOREM ContextsCorrect == CtxSpec => ImplementsContexts
<1>1. CtxInit => CP!Init
  BY DEF CtxInit, CP!Init, CP!None
<1> QED
  BY <1>1, CtxInitInv, CtxStepInv, CtxStepMaps, PTL
  DEF CtxSpec, ImplementsContexts, CP!Spec

-----------------------------------------------------------------------------
(* Every set of numbers that is not empty has a least one. *)
LEMMA Least ==
  ASSUME NEW S, S \subseteq Nat, S # {}
  PROVE  \E n \in S : \A m \in S : n <= m
<1> DEFINE R == OpToRel(<, Nat)
<1>1. IsWellFoundedOn(R, Nat)
  BY NatLessThanWellFounded
<1>2. PICK x \in S : \A y \in S : ~(<<y, x>> \in R)
  <2> HIDE DEF R
  <2> QED
    BY <1>1, WFMin
<1>3. \A y \in S : ~(y < x)
  BY <1>2 DEF OpToRel
<1> QED
  BY <1>3

(* 2^n is the number of the subsets of a set of n. *)
LEMMA PowerCounts ==
  ASSUME NEW n \in Nat
  PROVE  /\ IsFiniteSet(1..n) /\ IsFiniteSet(SUBSET (1..n))
         /\ Cardinality(SUBSET (1..n)) = 2^n
         /\ 2^n \in Nat
<1>1. IsFiniteSet(1..n) /\ Cardinality(1..n) = n
  BY FS_Interval
<1>2. IsFiniteSet(SUBSET (1..n)) /\ Cardinality(SUBSET (1..n)) = 2^n
  BY <1>1, FS_SUBSET
<1>3. Cardinality(SUBSET (1..n)) \in Nat
  BY <1>2, FS_CardinalityType
<1> QED
  BY <1>1, <1>2, <1>3

(* Half of the subsets have the last member, and half have not. *)
LEMMA PowerDoubles ==
  ASSUME NEW n \in Nat
  PROVE  2^(n + 1) = 2 * 2^n
<1> DEFINE A == SUBSET (1..n)
           B == {x \cup {n + 1} : x \in A}
           f == [x \in A |-> x \cup {n + 1}]
<1>1. IsFiniteSet(A) /\ Cardinality(A) = 2^n /\ 2^n \in Nat
  BY PowerCounts
<1>2. n + 1 \in Nat /\ n + 1 \notin 1..n /\ 1..(n + 1) = (1..n) \cup {n + 1}
  OBVIOUS
<1>3. A \cap B = {}
  BY <1>2
<1>4. SUBSET (1..(n + 1)) = A \cup B
  <2>1. ASSUME NEW y \in SUBSET (1..(n + 1))
        PROVE  y \in A \cup B
    <3>1. CASE n + 1 \in y
      <4>1. y \ {n + 1} \in A /\ y = (y \ {n + 1}) \cup {n + 1}
        BY <1>2, <2>1, <3>1
      <4> QED
        BY <4>1
    <3>2. CASE n + 1 \notin y
      BY <1>2, <2>1, <3>2
    <3> QED
      BY <3>1, <3>2
  <2>2. ASSUME NEW y \in A \cup B
        PROVE  y \in SUBSET (1..(n + 1))
    BY <1>2, <2>2
  <2> QED
    BY <2>1, <2>2
<1>5. f \in Bijection(A, B)
  <2>1. f \in [A -> B]
    OBVIOUS
  <2>2. ASSUME NEW x \in A, NEW y \in A, f[x] = f[y]
        PROVE  x = y
    <3>1. x \cup {n + 1} = y \cup {n + 1}
      BY <2>2
    <3>2. n + 1 \notin x /\ n + 1 \notin y
      BY <1>2, <2>2
    <3> QED
      BY <3>1, <3>2
  <2>3. \A b \in B : \E x \in A : f[x] = b
    OBVIOUS
  <2> HIDE DEF A, B, f
  <2>4. f \in Injection(A, B)
    BY <2>1, <2>2 DEF Injection, IsInjective
  <2>5. f \in Surjection(A, B)
    BY <2>1, <2>3 DEF Surjection
  <2> QED
    BY <2>4, <2>5 DEF Bijection
<1>6. IsFiniteSet(B) /\ Cardinality(B) = 2^n
  <2>1. ExistsBijection(A, B)
    BY <1>5 DEF ExistsBijection
  <2> QED
    BY <1>1, <2>1, FS_Bijection
<1>7. Cardinality(SUBSET (1..(n + 1))) = 2^(n + 1)
  BY <1>2, PowerCounts
<1> HIDE DEF A, B
<1>8. Cardinality(A \cup B) = 2^n + 2^n - 0
  BY <1>1, <1>3, <1>6, FS_Union, FS_EmptySet
<1>9. 2^(n + 1) = 2^n + 2^n - 0
  BY <1>4, <1>7, <1>8, Zenon
<1> QED
  BY <1>1, <1>9

(* Powers of two are positive. *)
LEMMA PowerPositive ==
  ASSUME NEW n \in Nat
  PROVE  2^n > 0
<1> DEFINE S == {k \in Nat : ~(2^k > 0)}
<1>1. CASE S = {}
  BY <1>1
<1>2. CASE S # {}
  <2>1. PICK k \in S : \A m \in S : k <= m
    <3> HIDE DEF S
    <3> QED
      BY <1>2, Least DEF S
  <2>2. k \in Nat /\ 2^k \in Nat /\ ~(2^k > 0)
    BY <2>1, PowerCounts
  <2>3. k = 0 => 2^k = 1
    OBVIOUS
  <2>4. k # 0
    BY <2>2, <2>3
  <2>5. k - 1 \in Nat /\ (k - 1) + 1 = k /\ k - 1 < k
    BY <2>2, <2>4
  <2>6. 2^(k - 1) \in Nat /\ 2^k = 2 * 2^(k - 1)
    BY <2>5, PowerCounts, PowerDoubles
  <2>7. k - 1 \in S
    BY <2>2, <2>5, <2>6
  <2> QED
    BY <2>1, <2>5, <2>7
<1> QED
  BY <1>1, <1>2

(* A larger exponent gives a larger power, at least twice as large. *)
LEMMA PowerGrows ==
  ASSUME NEW m \in Nat, NEW n \in Nat
  PROVE  /\ m < n => 2 * 2^m <= 2^n
         /\ m <= n => 2^m <= 2^n
<1> DEFINE S == {k \in Nat : m < k /\ ~(2 * 2^m <= 2^k)}
<1>0. 2^m \in Nat /\ 2^n \in Nat /\ 2^m > 0
  BY PowerCounts, PowerPositive
<1>1. S = {}
  <2>0. SUFFICES ASSUME S # {} PROVE FALSE
    OBVIOUS
  <2>1. PICK k \in S : \A l \in S : k <= l
    <3> HIDE DEF S
    <3> QED
      BY <2>0, Least DEF S
  <2>2. k \in Nat /\ m < k /\ ~(2 * 2^m <= 2^k)
    BY <2>1
  <2>3. k - 1 \in Nat /\ (k - 1) + 1 = k /\ k - 1 < k
    BY <2>2
  <2>4. 2^(k - 1) \in Nat /\ 2^k = 2 * 2^(k - 1)
    BY <2>3, PowerCounts, PowerDoubles
  <2>5. CASE k - 1 = m
    <3>1. 2^k = 2 * 2^m
      BY <2>4, <2>5, Zenon
    <3> QED
      BY <1>0, <2>2, <3>1
  <2>6. CASE m < k - 1
    <3>1. k - 1 \in S
      BY <1>0, <2>2, <2>3, <2>4, <2>6
    <3> QED
      BY <2>1, <2>3, <3>1
  <2> QED
    BY <2>2, <2>3, <2>5, <2>6
<1>2. m < n => 2 * 2^m <= 2^n
  BY <1>1
<1>3. m = n => 2^m = 2^n
  OBVIOUS
<1> QED
  BY <1>0, <1>2, <1>3

(* Exponents add up. *)
LEMMA PowerAdds ==
  ASSUME NEW m \in Nat, NEW n \in Nat
  PROVE  2^m * 2^n = 2^(m + n)
<1> DEFINE S == {k \in Nat : 2^m * 2^k # 2^(m + k)}
<1>0. 2^m \in Nat
  BY PowerCounts
<1>1. S = {}
  <2>0. SUFFICES ASSUME S # {} PROVE FALSE
    OBVIOUS
  <2>1. PICK k \in S : \A l \in S : k <= l
    <3> HIDE DEF S
    <3> QED
      BY <2>0, Least DEF S
  <2>2. k \in Nat /\ 2^m * 2^k # 2^(m + k)
    BY <2>1
  <2>3. CASE k = 0
    <3>1. 2^k = 1
      BY <2>3
    <3>2. m + k = m
      BY <2>3
    <3>3. 2^(m + k) = 2^m
      BY <3>2
    <3> QED
      BY <1>0, <2>2, <3>1, <3>3
  <2>4. CASE k # 0
    <3>1. /\ k - 1 \in Nat /\ (k - 1) + 1 = k /\ k - 1 < k
          /\ m + (k - 1) \in Nat /\ (m + (k - 1)) + 1 = m + k
      BY <2>2, <2>4
    <3>2. /\ 2^k = 2 * 2^(k - 1) /\ 2^(k - 1) \in Nat
          /\ 2^(m + k) = 2 * 2^(m + (k - 1)) /\ 2^(m + (k - 1)) \in Nat
      BY <3>1, PowerDoubles, PowerCounts
    <3>3. 2^m * 2^(k - 1) = 2^(m + (k - 1))
      <4>1. k - 1 \notin S
        BY <2>1, <2>2, <3>1
      <4> QED
        BY <3>1, <4>1
    <3>4. \A x, y, z \in Nat : x * y = z => x * (2 * y) = 2 * z
      OBVIOUS
    <3> QED
      BY <1>0, <2>2, <3>2, <3>3, <3>4
  <2> QED
    BY <2>3, <2>4
<1> QED
  BY <1>1

-----------------------------------------------------------------------------
(* The constants of balloc.h are numbers. *)
LEMMA Layout ==
  /\ BLOB_ALLOC_LOG_OF_SIZE_MIN \in Nat /\ BLOB_LOG_OF_SIZE_MAX \in Nat
  /\ BLOB_ALLOC_LOG_OF_SIZE_MIN <= BLOB_LOG_OF_SIZE_MAX
  /\ BLOB_LOG_OF_SIZE_MAX <= 30
  /\ BUCKETS_COUNT \in Nat /\ BUCKETS_COUNT > 0
  /\ BUCKETS_COUNT = BLOB_LOG_OF_SIZE_MAX - BLOB_ALLOC_LOG_OF_SIZE_MIN + 1
  /\ Buckets = 0..(BUCKETS_COUNT - 1) /\ Buckets \subseteq Nat
  /\ Sizes \subseteq Nat
<1>1. /\ BLOB_ALLOC_LOG_OF_SIZE_MIN \in Nat /\ BLOB_LOG_OF_SIZE_MAX \in 0..30
      /\ BLOB_ALLOC_LOG_OF_SIZE_MIN <= BLOB_LOG_OF_SIZE_MAX
  BY BAllocConstants
<1>2. 2^BLOB_LOG_OF_SIZE_MAX \in Nat
  <2>1. BLOB_LOG_OF_SIZE_MAX \in Nat
    BY <1>1
  <2> QED
    BY <2>1, PowerCounts
<1>3. Sizes \subseteq Nat
  BY <1>2, BAllocConstants
<1> QED
  BY <1>1, <1>3 DEF BUCKETS_COUNT, Buckets

(* What one arena takes: as much as every other. *)
Arena == 2^(BLOB_LOG_OF_SIZE_MAX + BLOB_ALLOC_LOG_OF_SIZE_MIN)

(* Capacity and item size are powers whose exponents add up to the same. *)
LEMMA ArenaSize ==
  /\ Arena \in Nat /\ Arena > 0
  /\ \A i \in Buckets :
       /\ bbucket_capacity(i) \in Nat /\ bbucket_capacity(i) > 0
       /\ bbucket_item_size_max(i) \in Nat /\ bbucket_item_size_max(i) > 0
       /\ bbucket_capacity(i) * bbucket_item_size_max(i) = Arena
<1>1. BLOB_LOG_OF_SIZE_MAX + BLOB_ALLOC_LOG_OF_SIZE_MIN \in Nat
  BY Layout
<1>2. Arena \in Nat /\ Arena > 0
  BY <1>1, PowerCounts, PowerPositive DEF Arena
<1>3. ASSUME NEW i \in Buckets
      PROVE  /\ bbucket_capacity(i) \in Nat /\ bbucket_capacity(i) > 0
             /\ bbucket_item_size_max(i) \in Nat /\ bbucket_item_size_max(i) > 0
             /\ bbucket_capacity(i) * bbucket_item_size_max(i) = Arena
  <2>1. /\ BLOB_LOG_OF_SIZE_MAX - i \in Nat
        /\ BLOB_ALLOC_LOG_OF_SIZE_MIN + i \in Nat
        /\ (BLOB_LOG_OF_SIZE_MAX - i) + (BLOB_ALLOC_LOG_OF_SIZE_MIN + i)
             = BLOB_LOG_OF_SIZE_MAX + BLOB_ALLOC_LOG_OF_SIZE_MIN
    BY <1>3, Layout
  <2>2. 2^(BLOB_LOG_OF_SIZE_MAX - i) * 2^(BLOB_ALLOC_LOG_OF_SIZE_MIN + i)
          = 2^((BLOB_LOG_OF_SIZE_MAX - i) + (BLOB_ALLOC_LOG_OF_SIZE_MIN + i))
    BY <2>1, PowerAdds
  <2>3. /\ 2^(BLOB_LOG_OF_SIZE_MAX - i) \in Nat
        /\ 2^(BLOB_LOG_OF_SIZE_MAX - i) > 0
        /\ 2^(BLOB_ALLOC_LOG_OF_SIZE_MIN + i) \in Nat
        /\ 2^(BLOB_ALLOC_LOG_OF_SIZE_MIN + i) > 0
    BY <2>1, PowerCounts, PowerPositive
  <2> QED
    BY <2>1, <2>2, <2>3, Zenon
    DEF bbucket_capacity, bbucket_item_size_max, Arena
<1> QED
  BY <1>2, <1>3

(* So the loop of binit puts the arenas at the multiples of that. *)
LEMMA ArenaStarts == \A i \in 0..BUCKETS_COUNT : ArenaStart[i] = i * Arena
<1> DEFINE D == 0..BUCKETS_COUNT
           F == [i \in D |-> i * Arena]
           Unfolds(f) == f = [i \in D |->
                     IF i = 0 THEN 0
                     ELSE f[i - 1] + bbucket_capacity(i - 1)
                                       * bbucket_item_size_max(i - 1)]
<1>1. ASSUME NEW i \in D, i # 0
      PROVE  /\ i - 1 \in D /\ i - 1 \in Buckets
             /\ bbucket_capacity(i - 1) * bbucket_item_size_max(i - 1) = Arena
  <2>1. i - 1 \in D /\ i - 1 \in Buckets
    BY <1>1, Layout
  <2> QED
    BY <2>1, ArenaSize
<1>2. Unfolds(F)
  <2>1. ASSUME NEW i \in D
        PROVE  i * Arena = IF i = 0 THEN 0
                           ELSE F[i - 1] + bbucket_capacity(i - 1)
                                             * bbucket_item_size_max(i - 1)
    <3>1. CASE i = 0
      BY <3>1, ArenaSize
    <3>2. CASE i # 0
      <4>1. F[i - 1] = (i - 1) * Arena
        BY <1>1, <2>1, <3>2
      <4>2. i * Arena = (i - 1) * Arena + Arena
        BY ArenaSize, Layout
      <4> QED
        BY <1>1, <2>1, <3>2, <4>1, <4>2
    <3> QED
      BY <3>1, <3>2
  <2> QED
    BY <2>1, Zenon
<1>3. Unfolds(ArenaStart)
  <2> HIDE DEF F
  <2> QED
    BY <1>2, Zenon DEF ArenaStart
<1>4. {i \in D : ArenaStart[i] # i * Arena} = {}
  <2> DEFINE S == {i \in D : ArenaStart[i] # i * Arena}
  <2>1. SUFFICES ASSUME S # {} PROVE FALSE
    OBVIOUS
  <2>2. PICK k \in S : \A l \in S : k <= l
    <3>1. S \subseteq Nat
      BY Layout
    <3> HIDE DEF S
    <3> QED
      BY <2>1, <3>1, Least
  <2>3. k \in D /\ ArenaStart[k] # k * Arena
    BY <2>2
  <2>4. CASE k = 0
    <3>1. ArenaStart[k] = 0
      BY <1>3, <2>3, <2>4, Zenon
    <3> QED
      BY <2>3, <2>4, <3>1, ArenaSize
  <2>5. CASE k # 0
    <3>1. ArenaStart[k] = ArenaStart[k - 1]
            + bbucket_capacity(k - 1) * bbucket_item_size_max(k - 1)
      BY <1>3, <2>3, <2>5, Zenon
    <3>2. k - 1 \in D /\ ~(k <= k - 1)
      BY <1>1, <2>3, <2>5, Layout
    <3>3. ArenaStart[k - 1] = (k - 1) * Arena
      BY <2>2, <3>2
    <3>4. k * Arena = (k - 1) * Arena + Arena
      BY <2>3, ArenaSize, Layout
    <3> QED
      BY <1>1, <2>3, <2>5, <3>1, <3>3, <3>4
  <2> QED
    BY <2>4, <2>5
<1> QED
  BY <1>4

-----------------------------------------------------------------------------
(* ilog2_u64 is the exponent of the largest power that is not larger. *)
LEMMA Log ==
  ASSUME NEW x \in Nat, x > 0, NEW m \in Nat, m <= 30, x < 2^m
  PROVE  /\ ilog2_u64(x) \in Nat /\ ilog2_u64(x) < m
         /\ 2^ilog2_u64(x) <= x /\ x < 2^(ilog2_u64(x) + 1)
<1> DEFINE S == {j \in Nat : x < 2^(j + 1)}
<1>1. m # 0
  <2>1. m = 0 => 2^m = 1
    OBVIOUS
  <2>2. 2^m \in Nat
    BY PowerCounts
  <2> QED
    BY <2>1, <2>2
<1>2. m - 1 \in S
  <2>1. m - 1 \in Nat /\ (m - 1) + 1 = m
    BY <1>1
  <2> QED
    BY <2>1
<1>3. PICK k \in S : \A l \in S : k <= l
  <2> HIDE DEF S
  <2> QED
    BY <1>2, Least DEF S
<1>4. k \in 0..30 /\ x < 2^(k + 1)
  <2>1. k \in Nat /\ x < 2^(k + 1)
    BY <1>3
  <2>2. k <= m - 1
    BY <1>2, <1>3
  <2> QED
    BY <2>1, <2>2
<1>5. 2^k <= x
  <2>1. CASE k = 0
    <3>1. 2^k = 1
      BY <2>1
    <3> QED
      BY <3>1
  <2>2. CASE k # 0
    <3>1. k - 1 \in Nat /\ (k - 1) + 1 = k /\ ~(k <= k - 1) /\ k \in Nat
      BY <1>4, <2>2
    <3>2. k - 1 \notin S
      BY <1>3, <3>1
    <3>3. ~(x < 2^k)
      BY <3>1, <3>2
    <3>4. 2^k \in Nat
      BY <3>1, PowerCounts
    <3> QED
      BY <3>3, <3>4
  <2> QED
    BY <2>1, <2>2
<1>6. PICK c \in 0..30 : /\ c = ilog2_u64(x)
                         /\ 2^c <= x /\ x < 2^(c + 1)
  <2>1. /\ ilog2_u64(x) \in 0..30
        /\ 2^ilog2_u64(x) <= x /\ x < 2^(ilog2_u64(x) + 1)
    BY <1>4, <1>5, Zenon DEF ilog2_u64
  <2> QED
    BY <2>1, Zenon
<1>7. c \in Nat /\ 2^c \in Nat /\ 2^m \in Nat
  <2>1. c \in Nat
    OBVIOUS
  <2> QED
    BY <2>1, PowerCounts
<1>8. c < m
  <2>1. m <= c => 2^m <= 2^c
    BY <1>7, PowerGrows
  <2> QED
    BY <1>6, <1>7, <2>1
<1> QED
  BY <1>6, <1>7, <1>8, Zenon

(* The arithmetic of bindex takes what is negative to 0. *)
LEMMA Mask ==
  ASSUME NEW M \in Nat, M > 0, NEW d \in Int, -M <= d, d < M
  PROVE  (IF (((d % (2 * M)) \div M) - 1) % (2 * M) = 0 THEN 0
          ELSE d % (2 * M)) = IF d < 0 THEN 0 ELSE d
<1>0. PICK N \in Nat : N = 2 * M
  OBVIOUS
<1>1. CASE d < 0
  <2>1. PICK e \in Nat : e = d + N /\ M <= e /\ e < N
    BY <1>0, <1>1
  <2>2. d % N = e
    BY <1>0, <1>1, <2>1
  <2>3. e \div M = 1
    BY <1>0, <2>1
  <2>4. (1 - 1) % N = 0
    BY <1>0
  <2> QED
    BY <1>0, <1>1, <2>2, <2>3, <2>4
<1>2. CASE d >= 0
  <2>1. d % N = d
    BY <1>0, <1>2
  <2>2. d \div M = 0
    BY <1>2
  <2>3. (0 - 1) % N = N - 1
    BY <1>0
  <2> QED
    BY <1>0, <1>2, <2>1, <2>2, <2>3
<1> QED
  BY <1>1, <1>2

(* bindex is the smallest bucket whose items hold the size. *)
LEMMA Index ==
  ASSUME NEW size \in Sizes
  PROVE  /\ bindex(size) \in Buckets
         /\ size <= bbucket_item_size_max(bindex(size))
         /\ \A j \in Buckets :
              size <= bbucket_item_size_max(j) => bindex(size) <= j
<1>1. PICK lo \in Nat, hi \in Nat : /\ lo = BLOB_ALLOC_LOG_OF_SIZE_MIN
                                    /\ hi = BLOB_LOG_OF_SIZE_MAX
                                    /\ lo <= hi /\ hi <= 30
  BY Layout
<1>2. PICK M \in Nat : M = 2^(WIDTH - 1) /\ 2^WIDTH = 2 * M /\ hi < M
  <2>1. WIDTH - 1 \in Nat /\ (WIDTH - 1) + 1 = WIDTH
    BY BAllocConstants
  <2>2. 2^(WIDTH - 1) \in Nat /\ 2^WIDTH = 2 * 2^(WIDTH - 1)
    BY <2>1, PowerCounts, PowerDoubles
  <2> QED
    BY <1>1, <2>2, BAllocConstants
<1>3. size \in Nat /\ size >= 2 /\ size <= 2^hi /\ 2^hi \in Nat
  <2>1. 2^hi \in Nat
    BY PowerCounts
  <2>2. size \in 2..2^hi
    BY <1>1, BAllocConstants
  <2> QED
    BY <2>1, <2>2
<1>4. PICK l \in Nat : /\ l = ilog2_u64(size - 1) /\ l < hi
                       /\ 2^l <= size - 1 /\ size - 1 < 2^(l + 1)
  <2>1. size - 1 \in Nat /\ size - 1 > 0 /\ size - 1 < 2^hi
    BY <1>3
  <2> QED
    BY <1>1, <2>1, Log
<1>5. PICK d \in Int : d = l - lo + 1 /\ -M <= d /\ d < M
  BY <1>1, <1>2, <1>4
<1>6. bindex(size) = IF d < 0 THEN 0 ELSE d
  <2>1. bindex(size) =
          IF (((d % (2 * M)) \div M) - 1) % (2 * M) = 0 THEN 0
          ELSE d % (2 * M)
    BY <1>1, <1>2, <1>4, <1>5, Zenon DEF bindex
  <2>2. M > 0
    BY <1>1, <1>2
  <2> QED
    BY <1>5, <2>1, <2>2, Mask
<1>7. 2^l \in Nat /\ 2^(l + 1) \in Nat /\ size <= 2^(l + 1)
  <2>1. l + 1 \in Nat
    OBVIOUS
  <2>2. 2^l \in Nat /\ 2^(l + 1) \in Nat
    BY <2>1, PowerCounts
  <2> QED
    BY <1>3, <1>4, <2>2
<1>8. CASE d < 0
  <2>1. bindex(size) = 0
    BY <1>6, <1>8
  <2>2. size <= bbucket_item_size_max(0)
    <3>1. l + 1 \in Nat /\ l + 1 <= lo /\ lo + 0 = lo
      BY <1>5, <1>8
    <3>2. 2^(l + 1) <= 2^lo /\ 2^lo \in Nat
      BY <3>1, PowerGrows, PowerCounts
    <3>3. bbucket_item_size_max(0) = 2^lo
      BY <1>1, <3>1, Zenon DEF bbucket_item_size_max
    <3> QED
      BY <1>3, <1>7, <3>2, <3>3
  <2>3. 0 \in Buckets /\ \A j \in Buckets : 0 <= j
    BY Layout
  <2> QED
    BY <2>1, <2>2, <2>3
<1>9. CASE d >= 0
  <2>1. bindex(size) = d
    BY <1>5, <1>6, <1>9
  <2>2. d \in Buckets
    BY <1>1, <1>4, <1>5, <1>9, Layout
  <2>3. size <= bbucket_item_size_max(d)
    <3>1. lo + d = l + 1
      BY <1>5
    <3>2. bbucket_item_size_max(d) = 2^(l + 1)
      BY <1>1, <3>1, Zenon DEF bbucket_item_size_max
    <3> QED
      BY <1>7, <3>2
  <2>4. ASSUME NEW j \in Buckets, size <= bbucket_item_size_max(j)
        PROVE  d <= j
    <3>1. j \in Nat /\ lo + j \in Nat
      BY <2>4, Layout
    <3>2. bbucket_item_size_max(j) = 2^(lo + j) /\ 2^(lo + j) \in Nat
      <4>1. bbucket_item_size_max(j) = 2^(lo + j)
        BY <1>1, Zenon DEF bbucket_item_size_max
      <4> QED
        BY <3>1, <4>1, PowerCounts
    <3>3. lo + j <= l => 2^(lo + j) <= 2^l
      BY <3>1, PowerGrows
    <3>4. ~(lo + j <= l)
      BY <1>3, <1>4, <1>7, <2>4, <3>2, <3>3
    <3> QED
      BY <1>5, <3>1, <3>4
  <2> QED
    BY <2>1, <2>2, <2>3, <2>4
<1> QED
  BY <1>5, <1>8, <1>9

-----------------------------------------------------------------------------
(* Steps of a size z that k and m take from the same start. *)
LEMMA Multiples ==
  ASSUME NEW z \in Nat, z > 0, NEW k \in Nat, NEW m \in Nat
  PROVE  /\ k * z \in Nat
         /\ k < m => k * z + z <= m * z
         /\ k * z = m * z => k = m
<1>1. k * z \in Nat /\ m * z \in Nat
  OBVIOUS
<1>2. \A a, b \in Nat : a < b => a * z + z <= b * z
  <2>1. ASSUME NEW a \in Nat, NEW b \in Nat, a < b
        PROVE  a * z + z <= b * z
    <3>1. PICK e \in Nat : b = a + 1 + e
      <4>1. b - a - 1 \in Nat /\ b = a + 1 + (b - a - 1)
        BY <2>1
      <4> QED
        BY <4>1
    <3>2. b * z = a * z + z + e * z
      BY <3>1
    <3>3. e * z \in Nat /\ a * z \in Nat
      OBVIOUS
    <3> QED
      BY <3>2, <3>3
  <2> QED
    BY <2>1
<1>3. k < m => k * z # m * z
  BY <1>1, <1>2
<1>4. m < k => k * z # m * z
  BY <1>1, <1>2
<1> QED
  BY <1>1, <1>2, <1>3, <1>4

(* Where an item lies: inside of its bucket's arena. *)
LEMMA ItemPlace ==
  ASSUME NEW i \in Buckets, NEW x \in ItemsOf(i)
  PROVE  /\ x \in Nat /\ i * Arena \in Nat
         /\ i * Arena <= x
         /\ x + bbucket_item_size_max(i) <= i * Arena + Arena
         /\ \E k \in 0..(bbucket_capacity(i) - 1) :
              x = i * Arena + k * bbucket_item_size_max(i)
<1>1. PICK z \in Nat, c \in Nat : /\ z = bbucket_item_size_max(i) /\ z > 0
                                  /\ c = bbucket_capacity(i) /\ c > 0
                                  /\ c * z = Arena
  BY ArenaSize
<1>2. ArenaStart[i] = i * Arena /\ i * Arena \in Nat
  <2>1. i \in 0..BUCKETS_COUNT /\ i \in Nat
    BY Layout
  <2> QED
    BY <2>1, ArenaStarts, ArenaSize
<1>3. PICK k \in 0..(c - 1) : x = i * Arena + k * z
  BY <1>1, <1>2 DEF ItemsOf
<1>4. k * z \in Nat /\ k * z + z <= c * z
  BY <1>1, Multiples
<1>5. \A a, b, e \in Nat : /\ a <= a + b
                           /\ b + z <= e => (a + b) + z <= a + e
  BY <1>1
<1>6. x \in Nat /\ i * Arena <= x /\ x + z <= i * Arena + Arena
  BY <1>1, <1>2, <1>3, <1>4, <1>5, ArenaSize
<1> QED
  BY <1>1, <1>2, <1>3, <1>6

(* So no two items overlap, and no two arenas. *)
LEMMA ItemsApart ==
  ASSUME NEW i \in Buckets, NEW j \in Buckets,
         NEW x \in ItemsOf(i), NEW y \in ItemsOf(j)
  PROVE  /\ i # j => x # y
         /\ x # y => \/ x + bbucket_item_size_max(i) <= y
                     \/ y + bbucket_item_size_max(j) <= x
<1>1. PICK u \in Nat, v \in Nat, z \in Nat, t \in Nat, A \in Nat :
        /\ u = i * Arena /\ v = j * Arena /\ A = Arena /\ A > 0
        /\ z = bbucket_item_size_max(i) /\ z > 0
        /\ t = bbucket_item_size_max(j) /\ t > 0
  BY ItemPlace, ArenaSize
<1>2. /\ x \in Nat /\ u <= x /\ x + z <= u + A
      /\ y \in Nat /\ v <= y /\ y + t <= v + A
  BY <1>1, ItemPlace
<1>3. i \in Nat /\ j \in Nat
  BY Layout
<1>4. (i < j => u + A <= v) /\ (j < i => v + A <= u)
  BY <1>1, <1>3, Multiples
<1>5. CASE i # j
  BY <1>1, <1>2, <1>3, <1>4, <1>5
<1>6. CASE i = j
  <2>1. PICK k \in Nat, m \in Nat : x = u + k * z /\ y = u + m * z
    <3>1. bbucket_capacity(i) \in Nat
      BY ArenaSize
    <3> QED
      BY <1>1, <1>6, <3>1, ItemPlace
  <2>2. PICK p \in Nat, q \in Nat : /\ p = k * z /\ q = m * z
                                    /\ k < m => p + z <= q
                                    /\ m < k => q + z <= p
                                    /\ k = m => p = q
    <3>1. z \in Nat /\ z > 0
      BY <1>1
    <3>2. k * z \in Nat /\ m * z \in Nat
      BY <3>1, Multiples
    <3>3. k < m => k * z + z <= m * z
      BY <3>1, Multiples
    <3>4. m < k => m * z + z <= k * z
      BY <3>1, Multiples
    <3> QED
      BY <3>2, <3>3, <3>4
  <2>3. x = u + p /\ y = u + q /\ t = z
    BY <1>1, <1>6, <2>1, <2>2
  <2> QED
    BY <1>1, <1>6, <2>2, <2>3
<1> QED
  BY <1>5, <1>6

(* Every item has one bucket, and is no null pointer. *)
LEMMA ItemBucket ==
  /\ Items \subseteq Nat /\ NULL \notin Items
  /\ \A i \in Buckets :
       /\ ItemsOf(i) \subseteq Items
       /\ ArenaStart[i] \in ItemsOf(i)
       /\ \A x \in ItemsOf(i) : BucketOf[x] = i
<1>1. Items \subseteq Nat
  BY ItemPlace DEF Items
<1>2. ASSUME NEW i \in Buckets
      PROVE  ItemsOf(i) \subseteq Items
  BY <1>2 DEF Items
<1>3. ASSUME NEW i \in Buckets, NEW x \in ItemsOf(i)
      PROVE  BucketOf[x] = i
  <2>1. x \in Items
    BY <1>2, <1>3
  <2>2. \A j \in Buckets : x \in ItemsOf(j) => j = i
    BY <1>3, ItemsApart
  <2>3. BucketOf[x] = CHOOSE j \in Buckets : x \in ItemsOf(j)
    BY <2>1, Zenon DEF BucketOf
  <2> QED
    BY <1>3, <2>2, <2>3, Zenon
<1>4. ASSUME NEW i \in Buckets
      PROVE  ArenaStart[i] \in ItemsOf(i)
  <2>1. 0 \in 0..(bbucket_capacity(i) - 1)
    BY <1>4, ArenaSize
  <2>2. ArenaStart[i] + 0 * bbucket_item_size_max(i) = ArenaStart[i]
    <3>1. i \in Nat /\ i \in 0..BUCKETS_COUNT
      BY <1>4, Layout
    <3>2. ArenaStart[i] \in Nat
      BY <3>1, ArenaStarts, ArenaSize
    <3> QED
      BY <1>4, <3>2, ArenaSize
  <2> QED
    BY <2>1, <2>2 DEF ItemsOf
<1> QED
  BY <1>1, <1>2, <1>3, <1>4 DEF NULL

-----------------------------------------------------------------------------
(* The items of a bucket that nobody holds. *)
FreeOf(i) == ItemsOf(i) \ {blk.data : blk \in held}

(* No two holders have the same item, and each has one of its own bucket.   *)
HeldOnce == \A a, b \in held : a.data = b.data => a = b
HeldRight == \A blk \in held : blk.data \in ItemsOf(bindex(blk.size))

(* The list of a bucket, with the length that is counted, is its free items. *)
Lists == \A i \in Buckets : List(word, next_free[i], free[i], FreeOf(i))

AllocInv == TypeOK /\ HeldOnce /\ HeldRight /\ Lists

(* What is no pointer is no item. *)
LEMMA FreeNumbers ==
  ASSUME NEW i \in Buckets
  PROVE  FreeOf(i) \subseteq Items /\ NIL \notin FreeOf(i) /\ NIL = NULL
BY ItemBucket DEF FreeOf, NIL, NULL

(* binit links every item to the one before it, from the last to the first. *)
LEMMA AllocInit == Init => AllocInv
<1> SUFFICES ASSUME Init PROVE AllocInv
  OBVIOUS
<1>1. ASSUME NEW i \in Buckets
      PROVE  /\ free[i] \in Nat
             /\ next_free[i] \in Items
             /\ List(word, next_free[i], free[i], ItemsOf(i))
  <2>1. PICK z \in Nat, c \in Nat : /\ z = bbucket_item_size_max(i) /\ z > 0
                                    /\ c = bbucket_capacity(i) /\ c > 0
    BY <1>1, ArenaSize
  <2>2. PICK a \in Nat : a = ArenaStart[i]
    <3>1. ArenaStart[i] \in ItemsOf(i)
      BY <1>1, ItemBucket
    <3> QED
      BY <1>1, <3>1, ItemBucket
  <2>3. ItemsOf(i) = {a + k * z : k \in 0..(c - 1)}
    BY <2>1, <2>2 DEF ItemsOf
  <2>4. next_free[i] = a + (c - 1) * z /\ free[i] = c
    BY <1>1, <2>1, <2>2 DEF Init, binit
  <2>5. ASSUME NEW k \in 0..(c - 1)
        PROVE  word[a + k * z] = IF k = 0 THEN NULL ELSE a + (k - 1) * z
    <3>1. PICK x \in Items : /\ x = a + k * z
                             /\ x \in ItemsOf(i) /\ BucketOf[x] = i
      BY <1>1, <2>3, <2>5, ItemBucket
    <3>2. word[x] = IF x = a THEN NULL ELSE x - z
      BY <2>1, <2>2, <3>1 DEF Init, binit
    <3>3. PICK p \in Nat : p = k * z
      BY <2>1, Multiples
    <3>4. x = a <=> k = 0
      <4>1. k \in Nat /\ 0 * z = 0
        BY <2>1
      <4>2. k * z = 0 * z => k = 0
        BY <2>1, <4>1, Multiples
      <4> QED
        BY <2>1, <3>1, <3>3, <4>1, <4>2
    <3>5. x - z = a + (k - 1) * z
      <4>1. (k - 1) * z = p - z
        BY <2>1, <3>3
      <4> QED
        BY <3>1, <3>3, <4>1
    <3> QED
      BY <3>1, <3>2, <3>4, <3>5
  <2> DEFINE s == [k \in 0..c |-> IF k < c THEN a + (c - 1 - k) * z ELSE NULL]
  <2>6. \A k \in 0..(c - 1) : c - 1 - k \in 0..(c - 1)
    OBVIOUS
  <2>7. \A k \in 0..(c - 1) : s[k] = a + (c - 1 - k) * z
    OBVIOUS
  <2>8. \A k \in 0..(c - 1) : s[k] \in ItemsOf(i)
    BY <2>3, <2>6, <2>7
  <2>9. s[c] = NULL /\ s[0] = next_free[i]
    <3>1. c - 1 - 0 = c - 1 /\ 0 \in 0..(c - 1) /\ ~(c < c) /\ c \in 0..c
      BY <2>1
    <3> QED
      BY <2>4, <2>7, <3>1
  <2>10. s \in [0..c -> ItemsOf(i) \cup {NULL}]
    <3>1. ASSUME NEW k \in 0..c
          PROVE  s[k] \in ItemsOf(i) \cup {NULL}
      <4>1. k \in 0..(c - 1) \/ k = c
        OBVIOUS
      <4> QED
        BY <2>8, <2>9, <4>1
    <3>2. s = [k \in 0..c |-> s[k]]
      OBVIOUS
    <3> HIDE DEF s
    <3> QED
      BY <3>1, <3>2
  <2> HIDE DEF s
  <2>11. ASSUME NEW k \in 0..(c - 1)
         PROVE  word[s[k]] = s[k + 1]
    <3>1. word[s[k]] = IF c - 1 - k = 0 THEN NULL
                       ELSE a + (c - 1 - k - 1) * z
      BY <2>5, <2>6, <2>7
    <3>2. CASE c - 1 - k = 0
      BY <2>9, <3>1, <3>2
    <3>3. CASE c - 1 - k # 0
      <4>1. k + 1 \in 0..(c - 1) /\ c - 1 - k - 1 = c - 1 - (k + 1)
        BY <3>3
      <4> QED
        BY <2>7, <3>1, <3>3, <4>1
    <3> QED
      BY <3>2, <3>3
  <2>12. ASSUME NEW k \in 0..(c - 1), NEW m \in 0..(c - 1), s[k] = s[m]
         PROVE  k = m
    <3>1. PICK e \in Nat, f \in Nat : e = c - 1 - k /\ f = c - 1 - m
      OBVIOUS
    <3>2. e * z \in Nat /\ f * z \in Nat /\ (e * z = f * z => e = f)
      BY <2>1, Multiples
    <3>3. a + e * z = a + f * z
      BY <2>7, <2>12, <3>1
    <3>4. e * z = f * z
      BY <3>2, <3>3
    <3> QED
      BY <3>1, <3>2, <3>4
  <2>13. ASSUME NEW x \in ItemsOf(i)
         PROVE  \E k \in 0..(c - 1) : s[k] = x
    <3>1. PICK k \in 0..(c - 1) : x = a + k * z
      BY <2>3, <2>13
    <3>2. c - 1 - k \in 0..(c - 1) /\ c - 1 - (c - 1 - k) = k
      OBVIOUS
    <3> QED
      BY <2>7, <3>1, <3>2
  <2>14. Walk(word, next_free[i], free[i], ItemsOf(i), s)
    BY <2>4, <2>8, <2>9, <2>10, <2>11, <2>12, <2>13 DEF Walk, NIL, NULL
  <2>15. next_free[i] \in ItemsOf(i)
    <3>1. 0 \in 0..(c - 1)
      BY <2>1
    <3> QED
      BY <2>8, <2>9, <3>1
  <2> QED
    BY <1>1, <2>4, <2>14, <2>15, ItemBucket DEF List
<1>2. held = {} /\ last = NoCall
  BY DEF Init
<1>3. Lists
  <2>1. \A i \in Buckets : FreeOf(i) = ItemsOf(i)
    BY <1>2 DEF FreeOf
  <2> QED
    BY <1>1, <2>1 DEF Lists
<1>4. word \in [Items -> Items \cup {NULL, SECRET}]
  <2>1. ASSUME NEW a \in Items
        PROVE  word[a] \in Items \cup {NULL}
    <3>1. PICK i \in Buckets : a \in ItemsOf(i)
      BY <2>1 DEF Items
    <3>2. PICK s : Walk(word, next_free[i], free[i], ItemsOf(i), s)
      BY <1>1, <3>1 DEF List
    <3>3. PICK k \in 0..(free[i] - 1) : s[k] = a /\ word[a] = s[k + 1]
      BY <3>1, <3>2 DEF Walk
    <3>4. k + 1 \in 0..free[i]
      BY <1>1, <3>1
    <3>5. s[k + 1] \in ItemsOf(i) \cup {NULL}
      BY <3>2, <3>4 DEF Walk, NIL, NULL
    <3> QED
      BY <3>1, <3>3, <3>5, ItemBucket
  <2>2. word = [a \in Items |-> word[a]]
    BY DEF Init, binit
  <2> QED
    BY <2>1, <2>2
<1>5. next_free \in [Buckets -> Items \cup {NULL}] /\ free \in [Buckets -> Nat]
  <2>1. /\ next_free = [i \in Buckets |-> next_free[i]]
        /\ free = [i \in Buckets |-> free[i]]
    BY DEF Init, binit
  <2> QED
    BY <1>1, <2>1
<1>6. TypeOK
  BY <1>2, <1>4, <1>5 DEF TypeOK, NoCall
<1> QED
  BY <1>2, <1>3, <1>6 DEF AllocInv, HeldOnce, HeldRight

(* balloc takes the head of one list and leaves the others alone. *)
LEMMA AllocStep ==
  ASSUME AllocInv, NEW size \in Sizes, balloc(size)
  PROVE  AllocInv'
<1> USE DEF AllocInv
<1>1. PICK i \in Buckets : i = bindex(size)
  BY Index
<1>2. free[i] \in Nat /\ NIL \notin FreeOf(i) /\ FreeOf(i) \subseteq Items
  BY FreeNumbers DEF TypeOK
<1>3. CASE free[i] = 0
  <2>1. /\ last' = [size |-> size, ok |-> FALSE]
        /\ UNCHANGED <<next_free, free, word, held>>
    BY <1>1, <1>3 DEF balloc
  <2> QED
    BY <2>1 DEF TypeOK, HeldOnce, HeldRight, Lists, FreeOf
<1>4. CASE free[i] # 0
  <2>1. PICK h : h = next_free[i]
    OBVIOUS
  <2>2. /\ next_free' = [next_free EXCEPT ![i] = word[h]]
        /\ free' = [free EXCEPT ![i] = @ - 1]
        /\ held' = held \cup {[data |-> h, size |-> size]}
        /\ last' = [size |-> size, ok |-> TRUE] /\ word' = word
    BY <1>1, <1>4, <2>1 DEF balloc
  <2>3. List(word, h, free[i], FreeOf(i))
    BY <2>1 DEF Lists
  <2>4. h \in FreeOf(i) /\ h \in ItemsOf(i) /\ h \in Items
    <3>1. h \in FreeOf(i)
      BY <1>2, <1>4, <2>3, ListEmpty
    <3> QED
      BY <1>2, <3>1 DEF FreeOf
  <2>5. {b.data : b \in held'} = {b.data : b \in held} \cup {h}
    <3> DEFINE new == [data |-> h, size |-> size]
    <3>1. new.data = h /\ held' = held \cup {new}
      BY <2>2
    <3> HIDE DEF new
    <3> QED
      BY <3>1
  <2>6. ASSUME NEW j \in Buckets
        PROVE  FreeOf(j)' = IF j = i THEN FreeOf(i) \ {h} ELSE FreeOf(j)
    <3>1. FreeOf(j)' = FreeOf(j) \ {h}
      BY <2>5 DEF FreeOf
    <3>2. j # i => h \notin FreeOf(j)
      BY <2>4, <2>6, ItemsApart DEF FreeOf
    <3> QED
      BY <3>1, <3>2
  <2>7. List(word, word[h], free[i] - 1, FreeOf(i) \ {h})
    BY <1>2, <1>4, <2>3, ListPop
  <2>8. word[h] \in Items \cup {NULL}
    <3>1. free[i] - 1 \in Nat /\ NIL \notin FreeOf(i) \ {h}
      BY <1>2, <1>4
    <3>2. word[h] = NIL \/ word[h] \in FreeOf(i) \ {h}
      BY <2>7, <3>1, ListEmpty
    <3> QED
      BY <1>2, <3>2, FreeNumbers
  <2>9. Lists'
    <3>1. ASSUME NEW j \in Buckets
          PROVE  List(word', next_free'[j], free'[j], FreeOf(j)')
      <4>1. CASE j = i
        <5>1. next_free'[j] = word[h] /\ free'[j] = free[i] - 1
          BY <2>2, <4>1 DEF TypeOK
        <5> QED
          BY <2>2, <2>6, <2>7, <4>1, <5>1
      <4>2. CASE j # i
        <5>1. next_free'[j] = next_free[j] /\ free'[j] = free[j]
          BY <2>2, <4>2 DEF TypeOK
        <5> QED
          BY <2>2, <2>6, <4>2, <5>1 DEF Lists
      <4> QED
        BY <4>1, <4>2
    <3> QED
      BY <3>1 DEF Lists
  <2>10. TypeOK'
    <3>1. free[i] - 1 \in Nat
      BY <1>2, <1>4
    <3>2. /\ next_free' \in [Buckets -> Items \cup {NULL}]
          /\ free' \in [Buckets -> Nat]
      BY <2>2, <2>8, <3>1 DEF TypeOK
    <3>3. held' \subseteq [data : Items, size : Sizes]
      BY <2>2, <2>4 DEF TypeOK
    <3> QED
      BY <2>2, <3>2, <3>3 DEF TypeOK
  <2>11. HeldOnce' /\ HeldRight'
    <3>1. h \notin {b.data : b \in held}
      BY <2>4 DEF FreeOf
    <3>2. HeldOnce'
      BY <2>2, <3>1 DEF HeldOnce
    <3>3. HeldRight'
      BY <1>1, <2>2, <2>4 DEF HeldRight
    <3> QED
      BY <3>2, <3>3
  <2> QED
    BY <2>9, <2>10, <2>11
<1> QED
  BY <1>3, <1>4

(* A secret is written where no list runs. *)
LEMMA WriteStep ==
  ASSUME AllocInv, NEW blk \in held, Write(blk)
  PROVE  AllocInv'
<1> USE DEF AllocInv
<1>1. /\ word' = [word EXCEPT ![blk.data] = SECRET]
      /\ UNCHANGED <<next_free, free, held, last>>
  BY DEF Write
<1>2. blk.data \in Items
  BY DEF TypeOK
<1>3. TypeOK'
  <2>1. word' \in [Items -> Items \cup {NULL, SECRET}]
    BY <1>1, <1>2 DEF TypeOK
  <2> QED
    BY <1>1, <2>1 DEF TypeOK
<1>4. ASSUME NEW i \in Buckets
      PROVE  List(word', next_free[i], free[i], FreeOf(i))
  <2>1. \A x \in FreeOf(i) : word'[x] = word[x]
    BY <1>1, FreeNumbers DEF FreeOf, TypeOK
  <2>2. free[i] \in Nat /\ List(word, next_free[i], free[i], FreeOf(i))
    BY DEF TypeOK, Lists
  <2> QED
    BY <2>1, <2>2, ListKept
<1>5. Lists'
  BY <1>1, <1>4 DEF Lists, FreeOf
<1> QED
  BY <1>1, <1>3, <1>5 DEF HeldOnce, HeldRight

(* storage_blob_free puts the block in front of the list it came from. *)
LEMMA FreeStep ==
  ASSUME AllocInv, NEW blk \in held, storage_blob_free(blk)
  PROVE  AllocInv'
<1> USE DEF AllocInv
<1>1. PICK i \in Buckets, x \in Items : /\ i = bindex(blk.size)
                                        /\ x = blk.data /\ x \in ItemsOf(i)
  <2>1. blk.data \in Items /\ blk.size \in Sizes
    BY DEF TypeOK
  <2> QED
    BY <2>1, Index DEF HeldRight
<1>2. PICK h \in Items \cup {NULL} : h = next_free[i]
  BY DEF TypeOK
<1>3. /\ word' = [[word EXCEPT ![x] = NULL] EXCEPT ![x] = h]
      /\ next_free' = [next_free EXCEPT ![i] = x]
      /\ free' = [free EXCEPT ![i] = @ + 1]
      /\ held' = held \ {blk} /\ last' = NoCall
  BY <1>1, <1>2 DEF storage_blob_free, bfree, secure_zero
<1>4. /\ word'[x] = h /\ \A y \in Items \ {x} : word'[y] = word[y]
      /\ word' \in [Items -> Items \cup {NULL, SECRET}]
  BY <1>3 DEF TypeOK
<1>5. {b.data : b \in held'} = {b.data : b \in held} \ {x}
  BY <1>1, <1>3 DEF HeldOnce
<1>6. ASSUME NEW j \in Buckets
      PROVE  FreeOf(j)' = IF j = i THEN FreeOf(i) \cup {x} ELSE FreeOf(j)
  <2>1. CASE j = i
    BY <1>1, <1>5, <2>1 DEF FreeOf
  <2>2. CASE j # i
    <3>1. x \notin ItemsOf(j)
      BY <1>1, <1>6, <2>2, ItemsApart
    <3> QED
      BY <1>5, <2>2, <3>1 DEF FreeOf
  <2> QED
    BY <2>1, <2>2
<1>7. x \notin FreeOf(i)
  BY <1>1 DEF FreeOf
<1>8. ASSUME NEW j \in Buckets
      PROVE  List(word', next_free'[j], free'[j], FreeOf(j)')
  <2>1. free[j] \in Nat /\ List(word, next_free[j], free[j], FreeOf(j))
    BY <1>8 DEF TypeOK, Lists
  <2>2. x \notin FreeOf(j)
    BY <1>1 DEF FreeOf
  <2>3. \A y \in FreeOf(j) : word'[y] = word[y]
    BY <1>4, <1>8, <2>2, FreeNumbers
  <2>4. CASE j = i
    <3>1. next_free'[j] = x /\ free'[j] = free[j] + 1
      BY <1>3, <2>4 DEF TypeOK
    <3>2. List(word', x, free[j] + 1, FreeOf(j) \cup {x})
      BY <1>2, <1>4, <2>1, <2>2, <2>3, <2>4, ListPush
    <3> QED
      BY <1>6, <2>4, <3>1, <3>2
  <2>5. CASE j # i
    <3>1. next_free'[j] = next_free[j] /\ free'[j] = free[j]
      BY <1>3, <2>5 DEF TypeOK
    <3>2. List(word', next_free[j], free[j], FreeOf(j))
      BY <2>1, <2>3, ListKept
    <3> QED
      BY <1>6, <2>5, <3>1, <3>2
  <2> QED
    BY <2>4, <2>5
<1>9. Lists'
  BY <1>8 DEF Lists
<1>10. TypeOK'
  <2>1. free[i] + 1 \in Nat
    BY DEF TypeOK
  <2>2. /\ next_free' \in [Buckets -> Items \cup {NULL}]
        /\ free' \in [Buckets -> Nat]
    BY <1>3, <2>1 DEF TypeOK
  <2> QED
    BY <1>3, <1>4, <2>2 DEF TypeOK, NoCall
<1> QED
  BY <1>3, <1>9, <1>10 DEF HeldOnce, HeldRight

(* The free lists of every bucket are whole in every reachable state. *)
THEOREM AllocInvHolds == Spec => []AllocInv
<1>1. AllocInv /\ [Next]_vars => AllocInv'
  <2>1. ASSUME AllocInv, UNCHANGED vars
        PROVE  AllocInv'
    BY <2>1 DEF vars, AllocInv, TypeOK, HeldOnce, HeldRight, Lists, FreeOf
  <2> QED
    BY <2>1, AllocStep, WriteStep, FreeStep DEF Next
<1> QED
  BY <1>1, AllocInit, PTL DEF Spec

-----------------------------------------------------------------------------
(* The nodes that Node counts off are the ones of the walk. *)
LEMMA NodeWalks ==
  ASSUME TypeOK, NEW i \in Buckets, NEW s,
         Walk(word, next_free[i], free[i], FreeOf(i), s)
  PROVE  \A n \in 0..free[i] : Node(i)[n] = s[n]
<1> DEFINE Unfolds(f) == f = [n \in Nat |->
                     IF n = 0 THEN next_free[i]
                     ELSE IF f[n - 1] \in Items THEN word[f[n - 1]] ELSE NULL]
           F == [n \in Nat |-> IF n <= free[i] THEN s[n] ELSE NULL]
<1>1. free[i] \in Nat /\ FreeOf(i) \subseteq Items /\ NULL \notin Items
  BY FreeNumbers, ItemBucket DEF TypeOK
<1>2. /\ s[0] = next_free[i] /\ s[free[i]] = NULL
      /\ \A k \in 0..(free[i] - 1) : s[k] \in FreeOf(i) /\ word[s[k]] = s[k + 1]
  BY DEF Walk, NIL, NULL
<1>3. Unfolds(F)
  <2>1. ASSUME NEW n \in Nat
        PROVE  (IF n <= free[i] THEN s[n] ELSE NULL) =
                 IF n = 0 THEN next_free[i]
                 ELSE IF F[n - 1] \in Items THEN word[F[n - 1]] ELSE NULL
    <3>1. CASE n = 0
      BY <1>1, <1>2, <3>1
    <3>2. CASE n # 0 /\ n <= free[i]
      <4>1. /\ n - 1 \in Nat /\ n - 1 <= free[i] /\ (n - 1) + 1 = n
            /\ n - 1 \in 0..(free[i] - 1)
        BY <1>1, <3>2
      <4>2. F[n - 1] = s[n - 1]
        BY <4>1
      <4>3. s[n - 1] \in Items /\ word[s[n - 1]] = s[n]
        BY <1>1, <1>2, <4>1
      <4> QED
        BY <3>2, <4>2, <4>3
    <3>3. CASE n > free[i]
      <4>1. /\ n # 0 /\ n - 1 \in Nat
            /\ n - 1 = free[i] \/ ~(n - 1 <= free[i])
        BY <1>1, <3>3
      <4>2. F[n - 1] = NULL
        BY <1>2, <4>1
      <4> QED
        BY <1>1, <3>3, <4>1, <4>2
    <3> QED
      BY <1>1, <3>1, <3>2, <3>3
  <2> QED
    BY <2>1, Zenon
<1>4. Unfolds(Node(i))
  <2> HIDE DEF F
  <2> QED
    BY <1>3, Zenon DEF Node
<1> DEFINE S == {n \in 0..free[i] : Node(i)[n] # s[n]}
<1>5. S = {}
  <2>1. SUFFICES ASSUME S # {} PROVE FALSE
    OBVIOUS
  <2>2. PICK k \in S : \A l \in S : k <= l
    <3>1. S \subseteq Nat
      BY <1>1
    <3> HIDE DEF S
    <3> QED
      BY <2>1, <3>1, Least
  <2>3. k \in 0..free[i] /\ k \in Nat /\ Node(i)[k] # s[k]
    BY <1>1, <2>2
  <2>4. CASE k = 0
    <3>1. Node(i)[k] = next_free[i]
      BY <1>4, <2>3, <2>4, Zenon
    <3> QED
      BY <1>2, <2>3, <2>4, <3>1
  <2>5. CASE k # 0
    <3>1. Node(i)[k] = IF Node(i)[k - 1] \in Items THEN word[Node(i)[k - 1]]
                       ELSE NULL
      BY <1>4, <2>3, <2>5, Zenon
    <3>2. /\ k - 1 \in 0..free[i] /\ k - 1 \in 0..(free[i] - 1)
          /\ (k - 1) + 1 = k /\ ~(k <= k - 1)
      BY <1>1, <2>3, <2>5
    <3>3. Node(i)[k - 1] = s[k - 1]
      BY <2>2, <3>2
    <3>4. s[k - 1] \in Items /\ word[s[k - 1]] = s[k]
      BY <1>1, <1>2, <3>2
    <3> QED
      BY <2>3, <3>1, <3>3, <3>4
  <2> QED
    BY <2>4, <2>5
<1> QED
  BY <1>5

(***************************************************************************)
(* The counter of each bucket and the list that runs through its free      *)
(* items agree, whatever holders write: balloc never follows the bytes of  *)
(* a secret, and never finds the end of the list while it counts items.    *)
(***************************************************************************)
THEOREM ListsCorrect == Spec => []ListsIntact
<1>1. AllocInv => ListsIntact
  <2> SUFFICES ASSUME AllocInv, NEW i \in Buckets
               PROVE  /\ Node(i)[free[i]] = NULL
                      /\ Listed(i) = FreeOf(i)
                      /\ Cardinality(Listed(i)) = free[i]
    BY DEF ListsIntact, FreeOf
  <2> USE DEF AllocInv
  <2>1. PICK s : Walk(word, next_free[i], free[i], FreeOf(i), s)
    BY DEF Lists, List
  <2>2. PICK n \in Nat : n = free[i]
    BY DEF TypeOK
  <2>3. \A k \in 0..n : Node(i)[k] = s[k]
    BY <2>1, <2>2, NodeWalks
  <2>4. Node(i)[n] = NULL
    BY <2>1, <2>2, <2>3 DEF Walk, NIL, NULL
  <2> DEFINE D == 0..(n - 1)
             f == [k \in D |-> s[k]]
  <2>5. Listed(i) = {s[k] : k \in D}
    <3>1. \A k \in D : Node(i)[k] = s[k]
      BY <2>3
    <3> QED
      BY <2>2, <3>1 DEF Listed
  <2>6. {s[k] : k \in D} = FreeOf(i)
    BY <2>1, <2>2 DEF Walk
  <2>7. f \in Bijection(D, FreeOf(i))
    <3>1. f \in [D -> FreeOf(i)]
      BY <2>6
    <3>2. \A k, m \in D : f[k] = f[m] => k = m
      BY <2>1, <2>2 DEF Walk
    <3>3. \A x \in FreeOf(i) : \E k \in D : f[k] = x
      BY <2>6
    <3> HIDE DEF D, f
    <3>4. f \in Injection(D, FreeOf(i))
      BY <3>1, <3>2 DEF Injection, IsInjective
    <3>5. f \in Surjection(D, FreeOf(i))
      BY <3>1, <3>3 DEF Surjection
    <3> QED
      BY <3>4, <3>5 DEF Bijection
  <2>8. IsFiniteSet(D) /\ Cardinality(D) = n
    <3>1. IsFiniteSet(0..(n - 1))
          /\ Cardinality(0..(n - 1)) = IF 0 > n - 1 THEN 0 ELSE n - 1 - 0 + 1
      BY FS_Interval
    <3> QED
      BY <3>1
  <2>9. Cardinality(FreeOf(i)) = n
    <3> HIDE DEF D, f
    <3>1. ExistsBijection(D, FreeOf(i))
      BY <2>7 DEF ExistsBijection
    <3> QED
      BY <2>8, <3>1, FS_Bijection
  <2> QED
    BY <2>2, <2>4, <2>5, <2>6, <2>9
<1> QED
  BY <1>1, AllocInvHolds, PTL

(***************************************************************************)
(* No byte that a holder may write belongs to another holder, to the       *)
(* pointer of a free item or to the bucket_t array: bindex never returns a *)
(* bucket whose items are too small, and arenas and items never overlap.   *)
(***************************************************************************)
THEOREM HeldApartCorrect == Spec => []HeldApart
<1>1. AllocInv => HeldApart
  <2> SUFFICES ASSUME AllocInv, NEW blk \in held
               PROVE  /\ \A b \in Bytes(blk) : 0 <= b /\ b < buckets
                      /\ \A other \in held \ {blk} :
                           Bytes(blk) \cap Bytes(other) = {}
                      /\ Bytes(blk) \cap (Items \ {o.data : o \in held}) = {}
    BY DEF HeldApart
  <2> USE DEF AllocInv
  <2>1. ASSUME NEW o \in held
        PROVE  /\ bindex(o.size) \in Buckets /\ o.data \in Nat
               /\ o.data \in ItemsOf(bindex(o.size))
               /\ o.size \in Nat
               /\ o.size <= bbucket_item_size_max(bindex(o.size))
               /\ bbucket_item_size_max(bindex(o.size)) \in Nat
               /\ bbucket_item_size_max(bindex(o.size)) > 0
    <3>1. o.data \in Items /\ o.size \in Sizes
      BY <2>1 DEF TypeOK
    <3> QED
      BY <2>1, <3>1, Index, ItemBucket, ArenaSize, Layout DEF HeldRight
  <2>2. PICK i \in Buckets, x \in Nat, n \in Nat, z \in Nat :
          /\ x = blk.data /\ x \in ItemsOf(i) /\ n = blk.size
          /\ z = bbucket_item_size_max(i) /\ n <= z /\ i = bindex(blk.size)
    BY <2>1
  <2>3. Bytes(blk) = x..(x + n - 1)
    BY <2>2 DEF Bytes
  <2>4. ASSUME NEW b \in Bytes(blk)
        PROVE  0 <= b /\ b < buckets
    <3>1. b \in Nat /\ b < x + z
      BY <2>2, <2>3, <2>4
    <3>2. PICK A \in Nat, u \in Nat, v \in Nat :
            /\ A = Arena /\ A > 0 /\ u = i * Arena
            /\ v = BUCKETS_COUNT * Arena /\ x + z <= u + A
      <4>1. BUCKETS_COUNT * Arena \in Nat /\ Arena \in Nat /\ Arena > 0
        BY ArenaSize, Layout
      <4>2. i * Arena \in Nat /\ x + z <= i * Arena + Arena
        BY <2>2, ItemPlace
      <4> QED
        BY <4>1, <4>2
    <3>3. u + A <= v
      <4>1. i \in Nat /\ BUCKETS_COUNT \in Nat /\ i < BUCKETS_COUNT
        BY Layout
      <4> QED
        BY <3>2, <4>1, Multiples
    <3>4. buckets = v
      <4>1. ArenaStart[BUCKETS_COUNT] = v
        BY <3>2, ArenaStarts, Layout
      <4>2. PICK w \in Nat : w = BUCKET_T_SIZE * BUCKETS_COUNT
        BY BAllocConstants, Layout
      <4>3. buckets = (w + v) - w
        BY <4>1, <4>2, Zenon DEF buckets, bfootprint, buckets_data_size
      <4> QED
        BY <4>3
    <3> QED
      BY <3>1, <3>2, <3>3, <3>4
  <2>5. ASSUME NEW other \in held \ {blk}
        PROVE  Bytes(blk) \cap Bytes(other) = {}
    <3>1. PICK j \in Buckets, y \in Nat, m \in Nat, t \in Nat :
            /\ y = other.data /\ y \in ItemsOf(j) /\ m = other.size
            /\ t = bbucket_item_size_max(j) /\ m <= t
      BY <2>1, <2>5
    <3>2. x # y
      BY <2>2, <2>5, <3>1 DEF HeldOnce
    <3>3. x + z <= y \/ y + t <= x
      BY <2>2, <3>1, <3>2, ItemsApart
    <3>4. Bytes(other) = y..(y + m - 1)
      BY <3>1 DEF Bytes
    <3>5. ASSUME NEW b \in Int, x <= b, b < x + n, y <= b, b < y + m
          PROVE  FALSE
      BY <2>2, <3>1, <3>3, <3>5
    <3>6. \A b \in Bytes(blk) : b \in Int /\ x <= b /\ b < x + n
      BY <2>3
    <3>7. \A b \in Bytes(other) : b \in Int /\ y <= b /\ b < y + m
      BY <3>4
    <3> QED
      BY <3>5, <3>6, <3>7
  <2>6. ASSUME NEW y \in Items, y \notin {o.data : o \in held}
        PROVE  y \notin Bytes(blk)
    <3>1. PICK j \in Buckets : y \in ItemsOf(j)
      BY <2>6 DEF Items
    <3>2. x # y
      BY <2>2, <2>6
    <3>3. PICK t \in Nat : t = bbucket_item_size_max(j) /\ t > 0
      BY ArenaSize
    <3>4. y \in Nat /\ (x + z <= y \/ y + t <= x)
      BY <2>2, <2>6, <3>1, <3>2, <3>3, ItemsApart, ItemBucket
    <3> QED
      BY <2>2, <2>3, <3>3, <3>4
  <2> QED
    BY <2>4, <2>5, <2>6
<1> QED
  BY <1>1, AllocInvHolds, PTL

-----------------------------------------------------------------------------
(* The class that a request asks the pool for is the bucket of bindex. *)
LEMMA FitIsIndex ==
  ASSUME NEW size \in Sizes
  PROVE  SmallestFit(size) = bindex(size)
<1>1. PICK i \in Buckets : i = bindex(size)
  BY Index
<1>2. /\ size <= bbucket_item_size_max(i)
      /\ \A j \in Buckets : size <= bbucket_item_size_max(j) => i <= j
  BY <1>1, Index
<1>3. ASSUME NEW k \in Buckets, size <= bbucket_item_size_max(k),
             \A j \in Buckets : size <= bbucket_item_size_max(j) => k <= j
      PROVE  k = i
  <2>1. i <= k /\ k <= i
    BY <1>2, <1>3
  <2> QED
    BY <2>1, Layout
<1>4. SmallestFit(size) = i
  BY <1>2, <1>3, Zenon DEF SmallestFit
<1> QED
  BY <1>1, <1>4

(* What the pool sees of the allocator. *)
Available == Items \ {blk.data : blk \in held}
Last == [asked |-> IF last.size = 0 THEN 0 ELSE SmallestFit(last.size),
         ok |-> last.ok]

(* Every step of the allocator is a step of the pool, or none. *)
LEMMA AllocStepMaps ==
  AllocInv /\ AllocInv' /\ [Next]_vars => [P!Next]_<<Available, Last>>
<1> SUFFICES ASSUME AllocInv, AllocInv', [Next]_vars
             PROVE  [P!Next]_<<Available, Last>>
  OBVIOUS
<1> USE DEF AllocInv
<1>1. ASSUME NEW size \in Sizes, balloc(size)
      PROVE  P!Next
  <2>1. PICK i \in Buckets : i = bindex(size)
    BY <1>1, Index
  <2>2. i \in {BucketOf[x] : x \in Items}
    BY ItemBucket
  <2>3. P!OfClass(i) = FreeOf(i)
    <3>1. P!OfClass(i) = {x \in Available : BucketOf[x] = i}
      BY DEF P!OfClass, Available
    <3>2. \A x \in Items : BucketOf[x] = i <=> x \in ItemsOf(i)
      BY ItemBucket DEF Items
    <3>3. ItemsOf(i) \subseteq Items
      BY ItemBucket
    <3> QED
      BY <3>1, <3>2, <3>3 DEF Available, FreeOf
  <2>4. SmallestFit(size) = i /\ size # 0
    BY <1>1, <2>1, FitIsIndex, BAllocConstants
  <2>5. /\ free[i] \in Nat /\ NIL \notin FreeOf(i)
        /\ List(word, next_free[i], free[i], FreeOf(i))
    BY FreeNumbers DEF TypeOK, Lists
  <2>6. CASE free[i] = 0
    <3>1. last' = [size |-> size, ok |-> FALSE] /\ held' = held
      BY <1>1, <2>1, <2>6 DEF balloc
    <3>2. FreeOf(i) = {}
      BY <2>5, <2>6, ListEmpty
    <3>3. Last' = [asked |-> i, ok |-> FALSE]
      BY <2>4, <3>1 DEF Last
    <3>4. P!Deny(i)
      BY <2>3, <3>1, <3>2, <3>3 DEF P!Deny, Last, Available
    <3> QED
      BY <2>2, <3>4 DEF P!Next
  <2>7. CASE free[i] # 0
    <3>1. PICK h : h = next_free[i] /\ h \in FreeOf(i)
      BY <2>5, <2>7, ListEmpty
    <3> DEFINE new == [data |-> h, size |-> size]
    <3>2. /\ last' = [size |-> size, ok |-> TRUE] /\ held' = held \cup {new}
          /\ new.data = h
      BY <1>1, <2>1, <2>7, <3>1 DEF balloc
    <3>3. Last' = [asked |-> i, ok |-> TRUE]
      BY <2>4, <3>2 DEF Last
    <3> HIDE DEF new
    <3>4. Available' = Available \ {h}
      BY <3>2 DEF Available
    <3>5. P!Take(i)
      BY <2>3, <3>1, <3>3, <3>4 DEF P!Take, Last, Available
    <3> QED
      BY <2>2, <3>5 DEF P!Next
  <2> QED
    BY <2>6, <2>7
<1>2. ASSUME NEW blk \in held, storage_blob_free(blk)
      PROVE  P!Next
  <2>1. held' = held \ {blk} /\ last' = NoCall
    BY <1>2 DEF storage_blob_free, bfree
  <2>2. PICK x \in Items : x = blk.data
    BY <1>2 DEF TypeOK
  <2>3. x \notin Available /\ Available' = Available \cup {x}
    BY <1>2, <2>1, <2>2 DEF Available, HeldOnce
  <2>4. Last' = [asked |-> 0, ok |-> TRUE]
    BY <2>1 DEF Last, NoCall
  <2>5. P!Give(x)
    BY <2>3, <2>4 DEF P!Give, P!None, Last, Available
  <2> QED
    BY <2>2, <2>5 DEF P!Next
<1>3. CASE UNCHANGED vars \/ \E blk \in held : Write(blk)
  BY <1>3 DEF vars, Write, Available, Last
<1> QED
  BY <1>1, <1>2, <1>3 DEF Next

(***************************************************************************)
(* balloc and bfree implement the set of free blocks that Storage takes    *)
(* its memory from, for every layout: a block is handed out once, from the *)
(* smallest bucket that holds it, and a request is denied only when that   *)
(* bucket has nothing left.                                                *)
(***************************************************************************)
THEOREM PoolOfBlocksCorrect == Spec => ImplementsPool
<1>1. Init => P!Init
  <2> SUFFICES ASSUME Init PROVE P!Init
    OBVIOUS
  <2>1. held = {} /\ last = NoCall
    BY DEF Init
  <2> QED
    BY <2>1 DEF P!Init, P!None, NoCall
<1> QED
  BY <1>1, AllocInvHolds, AllocStepMaps, PTL
  DEF Spec, ImplementsPool, P!Spec, Available, Last
=============================================================================
