---------------------------- MODULE AssetsProofs ----------------------------
(***************************************************************************)
(* The translated files fit exactly into the memory that was measured for  *)
(* them and have every key replaced, and the search for the marks finds    *)
(* what a search of the whole page finds, for any number of languages, any *)
(* keys and texts, and files of any length.                                *)
(***************************************************************************)
EXTENDS Assets, SequenceTheorems, WellFoundedInduction, TLAPS

(* Every set of numbers that is not empty has a least one. *)
LEMMA LeastExists ==
  ASSUME NEW S, S \subseteq Nat, S # {}
  PROVE  \E n \in S : \A m \in S : n <= m
<1> DEFINE R == OpToRel(<, Nat)
<1>1. IsWellFoundedOn(R, Nat)
  BY NatLessThanWellFounded
<1>2. PICK x \in S : \A y \in S : ~(<<y, x>> \in R)
  <2> HIDE DEF R
  <2> QED
    BY <1>1, WFMin
<1>3. \A y \in S : ~(y < x)
  BY <1>2 DEF OpToRel
<1> QED
  BY <1>3

(* A set of numbers up to n that is not empty has a greatest one. *)
LEMMA GreatestExists ==
  ASSUME NEW n \in Nat, NEW S, S \subseteq 0..n, S # {}
  PROVE  \E k \in S : \A l \in S : l <= k
<1> DEFINE T == {n - k : k \in S}
<1>1. T \subseteq Nat /\ T # {}
  <2>1. PICK k \in S : TRUE
    OBVIOUS
  <2>2. n - k \in T
    BY <2>1
  <2> QED
    BY <2>2
<1>2. PICK t \in T : \A u \in T : t <= u
  <2> HIDE DEF T
  <2> QED
    BY <1>1, LeastExists
<1>3. PICK k \in S : t = n - k
  BY <1>2
<1>4. ASSUME NEW l \in S PROVE l <= k
  BY <1>2, <1>3
<1> QED
  BY <1>4

(* Steps that lead from the value of a function further on to that at p. *)
Downward(V, end, base, nxt, g) ==
  /\ end \in Nat /\ base \in V
  /\ \A p \in 0..(end - 1) : nxt[p] \in 0..end /\ p < nxt[p]
  /\ \A p \in 0..(end - 1) : \A v \in V : g[p][v] \in V

DownwardSolved(V, end, base, nxt, g) ==
  \E f \in [0..end -> V] : /\ f[end] = base
                           /\ \A p \in 0..(end - 1) : f[p] = g[p][f[nxt[p]]]

(* A function whose value at p comes from its value further on exists. *)
LEMMA DownwardFunction ==
  ASSUME NEW V, NEW end, NEW base, NEW nxt, NEW g,
         Downward(V, end, base, nxt, g)
  PROVE  DownwardSolved(V, end, base, nxt, g)
<1> USE DEF Downward, DownwardSolved
<1> DEFINE Good(k, f) == /\ f \in [k..end -> V]
                         /\ f[end] = base
                         /\ \A p \in k..(end - 1) : f[p] = g[p][f[nxt[p]]]
           K == {k \in 0..end : \E f : Good(k, f)}
<1>1. end \in K
  <2>1. Good(end, [p \in end..end |-> base])
    OBVIOUS
  <2> HIDE DEF Good
  <2> QED
    BY <2>1
<1>2. PICK k \in K : \A l \in K : k <= l
  <2>1. K \subseteq Nat
    OBVIOUS
  <2> HIDE DEF K
  <2> QED
    BY <1>1, <2>1, LeastExists
<1>3. k \in 0..end
  BY <1>2
<1>4. PICK f : Good(k, f)
  BY <1>2
<1>5. k = 0
  <2>1. SUFFICES ASSUME k # 0 PROVE FALSE
    OBVIOUS
  <2>2. /\ k - 1 \in 0..(end - 1) /\ nxt[k - 1] \in k..end
        /\ f[nxt[k - 1]] \in V
    BY <1>3, <1>4, <2>1
  <2>3. g[k - 1][f[nxt[k - 1]]] \in V
    BY <2>2
  <2> DEFINE h == [p \in (k - 1)..end |->
                     IF p = k - 1 THEN g[k - 1][f[nxt[k - 1]]] ELSE f[p]]
  <2>4. \A p \in k..end : p \in (k - 1)..end /\ h[p] = f[p]
    BY <1>3
  <2>5. h \in [(k - 1)..end -> V]
    BY <1>3, <1>4, <2>3
  <2>6. h[end] = base
    BY <1>3, <1>4, <2>4
  <2>7. ASSUME NEW p \in (k - 1)..(end - 1)
        PROVE  h[p] = g[p][h[nxt[p]]]
    <3>1. CASE p = k - 1
      <4>1. h[nxt[p]] = f[nxt[p]]
        BY <2>2, <2>4, <3>1
      <4> QED
        BY <1>3, <2>2, <3>1, <4>1
    <3>2. CASE p # k - 1
      <4>1. p \in k..(end - 1) /\ p \in 0..(end - 1)
        BY <1>3, <3>2
      <4>2. nxt[p] \in k..end
        BY <1>3, <4>1
      <4>3. h[p] = f[p] /\ h[nxt[p]] = f[nxt[p]]
        BY <2>4, <4>1, <4>2
      <4> QED
        BY <1>4, <4>1, <4>3
    <3> QED
      BY <3>1, <3>2
  <2>8. Good(k - 1, h)
    BY <2>5, <2>6, <2>7
  <2>9. k - 1 \in K
    <3> HIDE DEF h, Good
    <3> QED
      BY <1>3, <2>1, <2>8
  <2>10. k <= k - 1
    BY <1>2, <2>9
  <2> QED
    BY <1>3, <2>10
<1> QED
  BY <1>4, <1>5

(* Steps that lead from the value of a function at i - 1 to that at i. *)
Upward(V, n, base, g) ==
  /\ n \in Nat /\ base \in V
  /\ \A i \in 1..n : \A v \in V : g[i][v] \in V

UpwardSolved(V, n, base, g) ==
  \E f \in [0..n -> V] : /\ f[0] = base
                         /\ \A i \in 1..n : f[i] = g[i][f[i - 1]]

(* A function whose value at i comes from its value at i - 1 exists. *)
LEMMA UpwardFunction ==
  ASSUME NEW V, NEW n, NEW base, NEW g, Upward(V, n, base, g)
  PROVE  UpwardSolved(V, n, base, g)
<1> USE DEF Upward, UpwardSolved
<1> DEFINE Good(k, f) == /\ f \in [0..k -> V]
                         /\ f[0] = base
                         /\ \A i \in 1..k : f[i] = g[i][f[i - 1]]
           K == {k \in 0..n : \E f : Good(k, f)}
<1>1. 0 \in K
  <2>1. Good(0, [i \in 0..0 |-> base])
    OBVIOUS
  <2> HIDE DEF Good
  <2> QED
    BY <2>1
<1>2. PICK k \in K : \A l \in K : l <= k
  <2>1. K \subseteq 0..n
    OBVIOUS
  <2> HIDE DEF K
  <2> QED
    BY <1>1, <2>1, GreatestExists
<1>3. k \in 0..n
  BY <1>2
<1>4. PICK f : Good(k, f)
  BY <1>2
<1>5. k = n
  <2>1. SUFFICES ASSUME k # n PROVE FALSE
    OBVIOUS
  <2>2. k + 1 \in 1..n /\ f[k] \in V
    BY <1>3, <1>4, <2>1
  <2>3. g[k + 1][f[k]] \in V
    BY <2>2
  <2> DEFINE h == [i \in 0..(k + 1) |->
                     IF i = k + 1 THEN g[k + 1][f[k]] ELSE f[i]]
  <2>4. \A i \in 0..k : i \in 0..(k + 1) /\ h[i] = f[i]
    BY <1>3
  <2>5. h \in [0..(k + 1) -> V]
    BY <1>3, <1>4, <2>3
  <2>6. h[0] = base
    BY <1>3, <1>4, <2>4
  <2>7. ASSUME NEW i \in 1..(k + 1)
        PROVE  h[i] = g[i][h[i - 1]]
    <3>1. i - 1 \in 0..k
      BY <1>3
    <3>2. h[i - 1] = f[i - 1]
      BY <2>4, <3>1
    <3>3. CASE i = k + 1
      <4>1. (k + 1) - 1 = k /\ k + 1 \in 0..(k + 1)
        BY <1>3
      <4>2. h[k + 1] = g[k + 1][f[k]]
        BY <4>1
      <4> QED
        BY <3>2, <3>3, <4>1, <4>2
    <3>4. CASE i # k + 1
      <4>1. i \in 1..k /\ i \in 0..k
        BY <1>3, <3>4
      <4> QED
        BY <1>4, <2>4, <3>2, <4>1
    <3> QED
      BY <3>3, <3>4
  <2>8. Good(k + 1, h)
    BY <2>5, <2>6, <2>7
  <2>9. k + 1 \in K
    <3> HIDE DEF h, Good
    <3> QED
      BY <2>2, <2>8
  <2> QED
    BY <1>2, <1>3, <2>9
<1> QED
  BY <1>4, <1>5


-----------------------------------------------------------------------------
(* What a byte of a memory is. *)
Char == STRING \cup {Unknown, "#"}

(* h has, for each k up to n, the first k pieces of s laid end to end. *)
Joins(h, s, n) ==
  /\ \A k \in 0..n : h[k] \in Seq(Char)
  /\ h[0] = <<>>
  /\ \A k \in 1..n : h[k] = h[k - 1] \o s[k]

(* FlattenSeq lays the pieces end to end, one after the other. *)
LEMMA FlattenIs ==
  ASSUME NEW seqs \in Seq(Seq(Char)), NEW h, Joins(h, seqs, Len(seqs))
  PROVE  FlattenSeq(seqs) = h[Len(seqs)]
<1> DEFINE m == Len(seqs)
           Unfolds(f) == f = [i \in 1..m |->
                                IF i = 1 THEN seqs[i] ELSE f[i - 1] \o seqs[i]]
           Flat == CHOOSE f : Unfolds(f)
           F == [i \in 1..m |-> h[i]]
<1>1. m \in Nat /\ \A i \in 1..m : seqs[i] \in Seq(Char)
  OBVIOUS
<1>2. CASE m = 0
  <2>1. seqs = <<>>
    BY <1>2
  <2> QED
    BY <1>2, <2>1 DEF FlattenSeq, Joins
<1>3. CASE m # 0
  <2>1. ASSUME NEW i \in 1..m
        PROVE  h[i] = IF i = 1 THEN seqs[i] ELSE F[i - 1] \o seqs[i]
    <3>1. h[i] = h[i - 1] \o seqs[i]
      BY DEF Joins
    <3>2. <<>> \o seqs[i] = seqs[i]
      BY <1>1
    <3>3. i = 1 => h[i - 1] = <<>>
      BY DEF Joins
    <3>4. i # 1 => F[i - 1] = h[i - 1]
      BY <1>1
    <3> HIDE DEF F
    <3> QED
      BY <3>1, <3>2, <3>3, <3>4
  <2>2. Unfolds(F)
    BY <2>1, Zenon
  <2>3. Unfolds(Flat)
    <3> HIDE DEF F, Unfolds
    <3> QED
      BY <2>2, Zenon
  <2>4. FlattenSeq(seqs) = Flat[m]
    BY <1>3, Zenon DEF FlattenSeq
  <2> HIDE DEF Flat
  <2> DEFINE Wrong == {i \in 1..m : Flat[i] # h[i]}
  <2>5. Wrong = {}
    <3>1. SUFFICES ASSUME Wrong # {} PROVE FALSE
      OBVIOUS
    <3>2. PICK k \in Wrong : \A l \in Wrong : k <= l
      <4>1. Wrong \subseteq Nat
        OBVIOUS
      <4> HIDE DEF Wrong
      <4> QED
        BY <3>1, <4>1, LeastExists
    <3>3. k \in 1..m /\ Flat[k] # h[k]
      BY <3>2
    <3>4. Flat[k] = IF k = 1 THEN seqs[k] ELSE Flat[k - 1] \o seqs[k]
      BY <2>3, <3>3, Zenon
    <3>5. h[k] = IF k = 1 THEN seqs[k] ELSE F[k - 1] \o seqs[k]
      BY <2>1, <3>3, Zenon
    <3>6. k # 1 => Flat[k - 1] = F[k - 1]
      <4>1. k # 1 => k - 1 \in 1..m /\ ~(k <= k - 1)
        BY <1>1, <3>3
      <4>2. k # 1 => Flat[k - 1] = h[k - 1]
        BY <3>2, <4>1
      <4>3. k # 1 => F[k - 1] = h[k - 1]
        BY <4>1
      <4> QED
        BY <4>2, <4>3
    <3> HIDE DEF F
    <3> QED
      BY <3>3, <3>4, <3>5, <3>6, Zenon
  <2>6. m \in 1..m
    BY <1>1, <1>3
  <2> HIDE DEF m
  <2> QED
    BY <2>4, <2>5, <2>6 DEF m
<1> QED
  BY <1>2, <1>3

(* The pieces can be laid end to end. *)
LEMMA JoinExists ==
  ASSUME NEW s, NEW n \in Nat, \A k \in 1..n : s[k] \in Seq(Char)
  PROVE  \E h : Joins(h, s, n)
<1> DEFINE g == [i \in 1..n |-> [t \in Seq(Char) |-> t \o s[i]]]
<1>1. \A i \in 1..n : \A t \in Seq(Char) : g[i][t] \in Seq(Char)
  OBVIOUS
<1>2. Upward(Seq(Char), n, <<>>, g)
  <2> HIDE DEF g
  <2> QED
    BY <1>1 DEF Upward
<1>3. UpwardSolved(Seq(Char), n, <<>>, g)
  BY <1>2, UpwardFunction, Zenon
<1>4. PICK f \in [0..n -> Seq(Char)] :
        /\ f[0] = <<>>
        /\ \A i \in 1..n : f[i] = g[i][f[i - 1]]
  <2> HIDE DEF g
  <2> QED
    BY <1>3, Zenon DEF UpwardSolved
<1>5. ASSUME NEW i \in 1..n PROVE f[i] = f[i - 1] \o s[i]
  <2>1. i - 1 \in 0..n
    OBVIOUS
  <2>2. f[i - 1] \in Seq(Char)
    BY <2>1
  <2> QED
    BY <1>4, <2>2
<1>6. Joins(f, s, n)
  <2> HIDE DEF g
  <2> QED
    BY <1>4, <1>5 DEF Joins
<1> QED
  BY <1>6

(* Pieces of text laid end to end are a text. *)
LEMMA Flattened ==
  ASSUME NEW seqs \in Seq(Seq(Char))
  PROVE  FlattenSeq(seqs) \in Seq(Char)
<1>1. Len(seqs) \in Nat /\ \A k \in 1..Len(seqs) : seqs[k] \in Seq(Char)
  OBVIOUS
<1>2. PICK h : Joins(h, seqs, Len(seqs))
  BY <1>1, JoinExists
<1>3. FlattenSeq(seqs) = h[Len(seqs)]
  BY <1>1, <1>2, FlattenIs
<1>4. h[Len(seqs)] \in Seq(Char)
  BY <1>1, <1>2 DEF Joins
<1> QED
  BY <1>3, <1>4

(* What was laid first stays where it is. *)
LEMMA JoinPrefix ==
  ASSUME NEW s, NEW n \in Nat, NEW h, Joins(h, s, n),
         \A k \in 1..n : s[k] \in Seq(Char), NEW k \in 0..n
  PROVE  \A l \in k..n : /\ Len(h[k]) <= Len(h[l])
                        /\ \A x \in 1..Len(h[k]) : h[l][x] = h[k][x]
<1> DEFINE Kept(l) == /\ Len(h[k]) <= Len(h[l])
                      /\ \A x \in 1..Len(h[k]) : h[l][x] = h[k][x]
           Wrong == {l \in k..n : ~Kept(l)}
<1>1. SUFFICES ASSUME Wrong # {} PROVE FALSE
  OBVIOUS
<1>2. PICK l \in Wrong : \A q \in Wrong : l <= q
  <2>1. Wrong \subseteq Nat
    OBVIOUS
  <2> HIDE DEF Wrong
  <2> QED
    BY <1>1, <2>1, LeastExists
<1>3. l \in k..n /\ ~Kept(l)
  BY <1>2
<1>4. Len(h[k]) \in Nat
  BY DEF Joins
<1>5. l # k
  BY <1>3, <1>4
<1>6. l - 1 \in k..n /\ l - 1 \in 0..n /\ l \in 1..n /\ ~(l <= l - 1)
  BY <1>3, <1>5
<1>7. Kept(l - 1)
  <2> HIDE DEF Kept
  <2> QED
    BY <1>2, <1>6
<1>8. /\ h[l] = h[l - 1] \o s[l] /\ h[l - 1] \in Seq(Char)
      /\ s[l] \in Seq(Char)
  BY <1>6 DEF Joins
<1> DEFINE a == h[l - 1]
           b == s[l]
<1>9. a \in Seq(Char) /\ b \in Seq(Char) /\ h[l] = a \o b
  BY <1>8
<1>10. /\ Len(h[k]) <= Len(a)
       /\ \A x \in 1..Len(h[k]) : a[x] = h[k][x]
  BY <1>7
<1> HIDE DEF a, b
<1>11. /\ Len(a) \in Nat /\ Len(b) \in Nat /\ Len(a \o b) = Len(a) + Len(b)
       /\ \A x \in 1..Len(a) : (a \o b)[x] = a[x]
  BY <1>9
<1>12. Kept(l)
  BY <1>4, <1>9, <1>10, <1>11
<1> QED
  BY <1>3, <1>12

(* Piece k of s begins where the first k - 1 pieces end. *)
Lies(h, s, n, k) ==
  /\ Len(h[k - 1]) \in Nat /\ Len(s[k]) \in Nat /\ Len(h[k]) \in Nat
  /\ Len(h[k]) = Len(h[k - 1]) + Len(s[k])
  /\ Len(h[k]) <= Len(h[n]) /\ Len(h[n]) \in Nat
  /\ \A o \in 1..Len(s[k]) : h[n][Len(h[k - 1]) + o] = s[k][o]

(* Where the bytes of a piece are. *)
LEMMA JoinAt ==
  ASSUME NEW s, NEW n \in Nat, NEW h, Joins(h, s, n),
         \A k \in 1..n : s[k] \in Seq(Char), NEW k \in 1..n
  PROVE  Lies(h, s, n, k)
<1> DEFINE a == h[k - 1]
           b == s[k]
<1>1. a \in Seq(Char) /\ b \in Seq(Char) /\ h[k] = a \o b
  <2>1. k - 1 \in 0..n
    OBVIOUS
  <2> QED
    BY <2>1 DEF Joins
<1>2. /\ Len(h[k]) <= Len(h[n])
      /\ \A x \in 1..Len(h[k]) : h[n][x] = h[k][x]
  <2>1. k \in 0..n /\ n \in k..n
    OBVIOUS
  <2> QED
    BY <2>1, JoinPrefix
<1>3. Len(h[n]) \in Nat
  <2>1. n \in 0..n
    OBVIOUS
  <2> QED
    BY <2>1 DEF Joins
<1>4. /\ Len(a) \in Nat /\ Len(b) \in Nat /\ Len(a \o b) = Len(a) + Len(b)
      /\ \A o \in 1..Len(b) : (a \o b)[Len(a) + o] = b[o]
  <2> HIDE DEF a, b
  <2> QED
    BY <1>1
<1> HIDE DEF a, b
<1>5. \A o \in 1..Len(b) : Len(a) + o \in 1..Len(a \o b)
  BY <1>4
<1>6. \A o \in 1..Len(b) : h[n][Len(a) + o] = b[o]
  BY <1>1, <1>2, <1>4, <1>5
<1>7. Len(h[k]) = Len(a) + Len(b) /\ Len(h[k]) \in Nat
  BY <1>1, <1>4
<1> QED
  BY <1>2, <1>3, <1>4, <1>6, <1>7 DEF a, b, Lies

(* A list of entries, and the texts in it. *)
Entries == Seq([key : Seq(Char), value : Seq(Char)])

(* A file in a memory, the last byte of which occurs in no key. *)
FileIn(m, a, entries) ==
  /\ m \in Seq(Char)
  /\ a.data \in Nat /\ a.size \in Nat \ {0} /\ a.data + a.size <= Len(m)
  /\ entries \in Entries
  /\ \A e \in DOMAIN entries : \A k \in DOMAIN entries[e].key :
       entries[e].key[k] # m[a.data + a.size]

(* A byte of the memory, or the one assumed behind it, is a byte. *)
LEMMA ByteType ==
  ASSUME NEW m \in Seq(Char), NEW p \in Nat
  PROVE  Byte(m, p) \in Char
<1>1. p < Len(m) => p + 1 \in 1..Len(m)
  OBVIOUS
<1> QED
  <2>1. Unknown \in Char
    BY DEF Char
  <2>2. p < Len(m) => m[p + 1] \in Char
    BY <1>1
  <2> QED
    BY <2>1, <2>2, Zenon DEF Byte

(* The loops go on, and no key that is found reaches the last byte. *)
LEMMA Progress ==
  ASSUME NEW m, NEW a, NEW entries, FileIn(m, a, entries),
         NEW p \in 0..((a.data + a.size) - 1)
  PROVE  LET e == Match(m, p, entries)
         IN  /\ e = 0 \/ e \in 1..Len(entries)
             /\ After(p, e, entries) \in 0..(a.data + a.size)
             /\ p < After(p, e, entries)
             /\ e # 0 => /\ p + Len(entries[e].key) < a.data + a.size
                         /\ Bytes(m, p, Len(entries[e].key)) = entries[e].key
<1> DEFINE e == Match(m, p, entries)
           end == a.data + a.size
           found == {i \in DOMAIN entries :
                  Bytes(m, p, Len(entries[i].key)) = entries[i].key}
<1>1. /\ end \in Nat /\ p \in Nat /\ p < end /\ end <= Len(m) /\ 0 < end
      /\ m \in Seq(Char) /\ Len(m) \in Nat /\ Len(entries) \in Nat
      /\ DOMAIN entries = 1..Len(entries)
      /\ \A i \in 1..Len(entries) : /\ entries[i].key \in Seq(Char)
                                    /\ Len(entries[i].key) \in Nat
  <2>1. /\ m \in Seq(Char) /\ a.data \in Nat /\ a.size \in Nat \ {0}
        /\ end <= Len(m) /\ entries \in Entries
    BY DEF FileIn
  <2>2. /\ end \in Nat /\ p \in Nat /\ p < end /\ 0 < end /\ Len(m) \in Nat
    BY <2>1
  <2> DEFINE R == [key : Seq(Char), value : Seq(Char)]
  <2>3. /\ Len(entries) \in Nat /\ DOMAIN entries = 1..Len(entries)
        /\ \A i \in 1..Len(entries) : entries[i] \in R
    <3>1. entries \in Seq(R)
      BY <2>1 DEF Entries
    <3> HIDE DEF R
    <3> QED
      BY <3>1
  <2>4. \A i \in 1..Len(entries) : entries[i].key \in Seq(Char)
    BY <2>3
  <2>5. \A i \in 1..Len(entries) : Len(entries[i].key) \in Nat
    BY <2>4
  <2> QED
    BY <2>1, <2>2, <2>3, <2>4, <2>5
<1> DEFINE Goal == /\ e = 0 \/ e \in 1..Len(entries)
                   /\ After(p, e, entries) \in 0..end
                   /\ p < After(p, e, entries)
                   /\ e # 0 =>
                        /\ p + Len(entries[e].key) < end
                        /\ Bytes(m, p, Len(entries[e].key)) = entries[e].key
<1>2. e = 0 \/ e \in found
  <2>1. CASE Byte(m, p) # "@" \/ found = {}
    BY <2>1 DEF Match
  <2>2. CASE ~(Byte(m, p) # "@" \/ found = {})
    <3>1. found \subseteq Nat /\ found # {}
      BY <1>1, <2>2
    <3>2. \E i \in found : \A j \in found : i <= j
      <4> HIDE DEF found
      <4> QED
        BY <3>1, LeastExists
    <3>3. e = CHOOSE i \in found : \A j \in found : i <= j
      BY <2>2, Zenon DEF Match
    <3> HIDE DEF found, e
    <3> QED
      BY <3>2, <3>3, Zenon
  <2> QED
    BY <2>1, <2>2
<1>3. ASSUME e = 0 PROVE Goal
  <2> HIDE DEF e
  <2> QED
    BY <1>1, <1>3 DEF After
<1>4. ASSUME e \in found PROVE Goal
  <2>1. /\ e \in 1..Len(entries)
        /\ Bytes(m, p, Len(entries[e].key)) = entries[e].key
    <3> HIDE DEF e
    <3> QED
      BY <1>1, <1>4
  <2> HIDE DEF e, found
  <2> DEFINE n == Len(entries[e].key)
  <2>2. n \in Nat /\ DOMAIN entries[e].key = 1..n
    BY <1>1, <2>1
  <2>3. p + n < end
    <3>1. SUFFICES ASSUME p + n >= end PROVE FALSE
      BY <1>1, <2>2
    <3>2. end - p \in 1..n /\ p + (end - p) - 1 = end - 1 /\ end - 1 < Len(m)
          /\ (end - 1) + 1 = end
      BY <1>1, <2>2, <3>1
    <3>3. Bytes(m, p, n)[end - p] = Byte(m, p + (end - p) - 1)
      BY <3>2 DEF Bytes
    <3>4. Byte(m, p + (end - p) - 1) = m[end]
      BY <3>2, Zenon DEF Byte
    <3>5. entries[e].key[end - p] = m[end]
      BY <2>1, <3>3, <3>4
    <3>6. entries[e].key[end - p] # m[end]
      BY <1>1, <2>1, <2>2, <3>2 DEF FileIn
    <3> QED
      BY <3>5, <3>6
  <2>4. e # 0 /\ After(p, e, entries) = p + n + 1
    BY <1>1, <2>1 DEF After
  <2>5. /\ After(p, e, entries) \in 0..end /\ p < After(p, e, entries)
    <3> HIDE DEF n
    <3> QED
      BY <1>1, <2>2, <2>3, <2>4
  <2> QED
    BY <2>1, <2>3, <2>5
<1> QED
  BY <1>2, <1>3, <1>4

(* What is written for the byte at p, or for a key that begins there. *)
Emits(m, p, entries) ==
  IF Match(m, p, entries) = 0 THEN <<Byte(m, p)>>
  ELSE Append(entries[Match(m, p, entries)].value,
              Byte(m, p + Len(entries[Match(m, p, entries)].key)))

(* out has, for each address of the file, what is written from there on. *)
Scans(out, m, a, entries) ==
  \A p \in 0..(a.data + a.size) :
    /\ out[p] \in Seq(Char)
    /\ out[p] = IF p >= a.data + a.size THEN <<>>
                ELSE Emits(m, p, entries)
                     \o out[After(p, Match(m, p, entries), entries)]

(***************************************************************************)
(* The measuring pass and the writing pass agree: what translate_file      *)
(* writes is as long as get_translated_file_size says, whatever the keys   *)
(* and texts are, and although one pass copies the byte behind a key and   *)
(* the other only steps over it.                                           *)
(***************************************************************************)
LEMMA PassesAgree ==
  ASSUME NEW m, NEW a, NEW entries, FileIn(m, a, entries)
  PROVE  /\ translate_file(m, a, entries) \in Seq(Char)
         /\ get_translated_file_size(m, a, entries)
              = Len(translate_file(m, a, entries))
         /\ \E out : /\ Scans(out, m, a, entries)
                     /\ translate_file(m, a, entries) = out[a.data]
<1> DEFINE end == a.data + a.size
           E(p) == Match(m, p, entries)
           N(p) == After(p, E(p), entries)
           Gain(p) == IF E(p) = 0 THEN 0
                      ELSE Len(entries[E(p)].value) - Len(entries[E(p)].key)
           Text(p) == IF E(p) = 0 THEN <<Byte(m, p)>>
                      ELSE Append(entries[E(p)].value,
                                  Byte(m, p + Len(entries[E(p)].key)))
           Grows(f) == f = [p \in 0..end |->
              IF p >= end THEN 0
              ELSE LET e == Match(m, p, entries)
                   IN  (IF e = 0 THEN 0
                        ELSE Len(entries[e].value) - Len(entries[e].key))
                       + f[After(p, e, entries)]]
           Writes(f) == f = [p \in 0..end |->
              IF p >= end THEN <<>>
              ELSE LET e == Match(m, p, entries)
                   IN  (IF e = 0 THEN <<Byte(m, p)>>
                        ELSE Append(entries[e].value,
                                    Byte(m, p + Len(entries[e].key))))
                       \o f[After(p, e, entries)]]
           grown == CHOOSE f : Grows(f)
           out == CHOOSE f : Writes(f)
<1>1. /\ end \in Nat /\ a.data \in 0..end /\ end - a.data = a.size
      /\ a.size \in Nat /\ m \in Seq(Char) /\ entries \in Entries
  BY DEF FileIn
<1>2. ASSUME NEW p \in 0..(end - 1)
      PROVE  /\ N(p) \in 0..end /\ p < N(p)
             /\ Gain(p) \in Int /\ Text(p) \in Seq(Char)
             /\ Len(Text(p)) = N(p) - p + Gain(p)
  <2>1. /\ E(p) = 0 \/ E(p) \in 1..Len(entries)
        /\ N(p) \in 0..end /\ p < N(p)
    BY Progress, Zenon
  <2>2. CASE E(p) = 0
    <3>1. Byte(m, p) \in Char
      BY <1>1, ByteType
    <3>2. Text(p) = <<Byte(m, p)>> /\ Gain(p) = 0 /\ N(p) = p + 1
      BY <2>2 DEF After
    <3> HIDE DEF E, N, Gain, Text
    <3> QED
      BY <1>1, <2>1, <3>1, <3>2
  <2>3. CASE E(p) # 0
    <3> DEFINE x == entries[E(p)]
    <3>1. x.key \in Seq(Char) /\ x.value \in Seq(Char)
      <4> DEFINE R == [key : Seq(Char), value : Seq(Char)]
      <4>1. x \in R
        <5>1. entries \in Seq(R) /\ E(p) \in 1..Len(entries)
          BY <1>1, <2>1, <2>3 DEF Entries
        <5> HIDE DEF R, E
        <5> QED
          BY <5>1
      <4> HIDE DEF x
      <4> QED
        BY <4>1
    <3>2. Len(x.key) \in Nat /\ Len(x.value) \in Nat
      BY <3>1
    <3>3. Byte(m, p + Len(x.key)) \in Char
      <4>1. p + Len(x.key) \in Nat
        BY <1>1, <3>2
      <4> HIDE DEF x
      <4> QED
        BY <1>1, <4>1, ByteType
    <3>4. /\ Text(p) = Append(x.value, Byte(m, p + Len(x.key)))
          /\ Gain(p) = Len(x.value) - Len(x.key)
          /\ N(p) = p + Len(x.key) + 1
      BY <2>3 DEF After
    <3> HIDE DEF E, N, Gain, Text, x
    <3> DEFINE s == Append(x.value, Byte(m, p + Len(x.key)))
    <3>5. s \in Seq(Char) /\ Len(s) = Len(x.value) + 1
      BY <3>1, <3>3
    <3>6. Text(p) = s
      BY <3>4
    <3>7. Text(p) \in Seq(Char) /\ Len(Text(p)) = Len(x.value) + 1
      <4> HIDE DEF s
      <4> QED
        BY <3>5, <3>6
    <3>8. /\ Gain(p) = Len(x.value) - Len(x.key)
          /\ N(p) = p + Len(x.key) + 1
      BY <3>4
    <3>9. Gain(p) \in Int
      BY <3>2, <3>8
    <3>10. Len(Text(p)) = N(p) - p + Gain(p)
      <4>1. p \in Int
        BY <1>1
      <4>2. PICK l \in Nat, v \in Nat : l = Len(x.key) /\ v = Len(x.value)
        BY <3>2
      <4>3. N(p) - p + Gain(p) = (p + l + 1) - p + (v - l)
        BY <3>8, <4>2
      <4>4. (p + l + 1) - p + (v - l) = v + 1
        BY <4>1
      <4> QED
        BY <3>7, <4>2, <4>3, <4>4
    <3> HIDE DEF s
    <3> QED
      BY <2>1, <3>7, <3>9, <3>10
  <2> QED
    BY <2>2, <2>3
<1> DEFINE nxt == [p \in 0..(end - 1) |-> N(p)]
<1>3. Grows(grown)
  <2> DEFINE g == [p \in 0..(end - 1) |-> [v \in Int |-> Gain(p) + v]]
  <2>1. PICK f \in [0..end -> Int] :
          /\ f[end] = 0
          /\ \A p \in 0..(end - 1) : f[p] = g[p][f[nxt[p]]]
    <3>1. Downward(Int, end, 0, nxt, g)
      <4>1. \A p \in 0..(end - 1) : \A v \in Int : g[p][v] \in Int
        <5> HIDE DEF Gain
        <5> QED
          BY <1>2
      <4>2. \A p \in 0..(end - 1) : nxt[p] \in 0..end /\ p < nxt[p]
        <5> HIDE DEF N
        <5> QED
          BY <1>2
      <4> HIDE DEF g, nxt
      <4> QED
        BY <1>1, <4>1, <4>2 DEF Downward
    <3>2. DownwardSolved(Int, end, 0, nxt, g)
      <4> HIDE DEF g, nxt
      <4> QED
        BY <3>1, DownwardFunction, Zenon
    <3> HIDE DEF g, nxt
    <3> QED
      BY <3>2, Zenon DEF DownwardSolved
  <2> DEFINE F == [p \in 0..end |-> f[p]]
  <2>2. ASSUME NEW p \in 0..end
        PROVE  f[p] = IF p >= end THEN 0 ELSE Gain(p) + F[N(p)]
    <3> HIDE DEF Gain, N
    <3>1. CASE p = end
      BY <1>1, <2>1, <3>1
    <3>2. CASE p # end
      <4>1. p \in 0..(end - 1) /\ ~(p >= end)
        BY <1>1, <3>2
      <4>2. /\ N(p) \in 0..end /\ nxt[p] = N(p)
            /\ f[N(p)] \in Int /\ F[N(p)] = f[N(p)]
        BY <1>2, <4>1
      <4>3. g[p][f[N(p)]] = Gain(p) + f[N(p)]
        BY <4>1, <4>2
      <4> HIDE DEF g, nxt, F
      <4> QED
        BY <2>1, <4>1, <4>2, <4>3
    <3> QED
      BY <3>1, <3>2
  <2>3. Grows(F)
    BY <2>2, Zenon
  <2> HIDE DEF F, Grows
  <2> QED
    BY <2>3, Zenon
<1>4. Writes(out)
  <2> DEFINE g == [p \in 0..(end - 1) |-> [v \in Seq(Char) |-> Text(p) \o v]]
  <2>1. PICK f \in [0..end -> Seq(Char)] :
          /\ f[end] = <<>>
          /\ \A p \in 0..(end - 1) : f[p] = g[p][f[nxt[p]]]
    <3>1. Downward(Seq(Char), end, <<>>, nxt, g)
      <4>1. \A p \in 0..(end - 1) : \A v \in Seq(Char) : g[p][v] \in Seq(Char)
        <5> HIDE DEF Text
        <5>1. SUFFICES ASSUME NEW p \in 0..(end - 1), NEW v \in Seq(Char)
                       PROVE  g[p][v] \in Seq(Char)
          BY Zenon
        <5>2. g[p][v] = Text(p) \o v
          BY Zenon
        <5>3. Text(p) \in Seq(Char)
          BY <1>2
        <5>4. Text(p) \o v \in Seq(Char)
          BY <5>3
        <5> HIDE DEF g
        <5> QED
          BY <5>2, <5>4
      <4>2. \A p \in 0..(end - 1) : nxt[p] \in 0..end /\ p < nxt[p]
        <5> HIDE DEF N
        <5> QED
          BY <1>2
      <4> HIDE DEF g, nxt
      <4> QED
        BY <1>1, <4>1, <4>2 DEF Downward
    <3>2. DownwardSolved(Seq(Char), end, <<>>, nxt, g)
      <4> HIDE DEF g, nxt
      <4> QED
        BY <3>1, DownwardFunction, Zenon
    <3> HIDE DEF g, nxt
    <3> QED
      BY <3>2, Zenon DEF DownwardSolved
  <2> DEFINE F == [p \in 0..end |-> f[p]]
  <2>2. ASSUME NEW p \in 0..end
        PROVE  f[p] = IF p >= end THEN <<>> ELSE Text(p) \o F[N(p)]
    <3> HIDE DEF Text, N
    <3>1. CASE p = end
      BY <1>1, <2>1, <3>1
    <3>2. CASE p # end
      <4>1. p \in 0..(end - 1) /\ ~(p >= end)
        BY <1>1, <3>2
      <4>2. /\ N(p) \in 0..end /\ nxt[p] = N(p)
            /\ f[N(p)] \in Seq(Char) /\ F[N(p)] = f[N(p)]
        BY <1>2, <4>1
      <4>3. g[p][f[N(p)]] = Text(p) \o f[N(p)]
        BY <4>1, <4>2
      <4> HIDE DEF g, nxt, F
      <4> QED
        BY <2>1, <4>1, <4>2, <4>3
    <3> QED
      BY <3>1, <3>2
  <2>3. Writes(F)
    BY <2>2, Zenon
  <2> HIDE DEF F, Writes
  <2> QED
    BY <2>3, Zenon
<1>5. get_translated_file_size(m, a, entries) = a.size + grown[a.data]
  BY Zenon DEF get_translated_file_size
<1>6. translate_file(m, a, entries) = out[a.data]
  BY Zenon DEF translate_file
<1>7. ASSUME NEW p \in 0..end
      PROVE  /\ grown[p] = IF p >= end THEN 0 ELSE Gain(p) + grown[N(p)]
             /\ out[p] = IF p >= end THEN <<>> ELSE Text(p) \o out[N(p)]
  <2> HIDE DEF grown, out
  <2> QED
    BY <1>3, <1>4, Zenon
<1> HIDE DEF grown, out, Grows, Writes, Gain, Text, N
<1> DEFINE Right(p) == /\ out[p] \in Seq(Char) /\ grown[p] \in Int
                       /\ Len(out[p]) = (end - p) + grown[p]
           Wrong == {p \in 0..end : ~Right(p)}
<1>8. Wrong = {}
  <2>1. SUFFICES ASSUME Wrong # {} PROVE FALSE
    OBVIOUS
  <2>2. PICK p \in Wrong : \A q \in Wrong : q <= p
    <3>1. Wrong \subseteq 0..end
      OBVIOUS
    <3> HIDE DEF Wrong, end
    <3> QED
      BY <1>1, <2>1, <3>1, GreatestExists
  <2>3. p \in 0..end /\ ~Right(p)
    BY <2>2
  <2>4. CASE p = end
    <3>1. p >= end
      BY <1>1, <2>4
    <3>2. grown[p] = 0 /\ out[p] = <<>>
      BY <1>7, <2>3, <3>1, Zenon
    <3> QED
      BY <1>1, <2>3, <2>4, <3>2
  <2>5. CASE p # end
    <3>1. p \in 0..(end - 1) /\ ~(p >= end)
      BY <1>1, <2>3, <2>5
    <3>2. grown[p] = Gain(p) + grown[N(p)] /\ out[p] = Text(p) \o out[N(p)]
      BY <1>7, <2>3, <3>1
    <3>3. N(p) \in 0..end /\ ~(N(p) <= p)
      BY <1>1, <1>2, <3>1
    <3>4. Right(N(p))
      <4> HIDE DEF Right
      <4> QED
        BY <2>2, <3>3
    <3>5. /\ Text(p) \in Seq(Char) /\ Gain(p) \in Int
          /\ Len(Text(p)) = N(p) - p + Gain(p)
      BY <1>2, <3>1
    <3>6. /\ Text(p) \o out[N(p)] \in Seq(Char)
          /\ Len(Text(p) \o out[N(p)]) = Len(Text(p)) + Len(out[N(p)])
      BY <3>4, <3>5
    <3>7. /\ out[p] \in Seq(Char)
          /\ Len(out[p]) = Len(Text(p)) + Len(out[N(p)])
      BY <3>2, <3>6
    <3>8. /\ Len(out[N(p)]) = (end - N(p)) + grown[N(p)]
          /\ grown[N(p)] \in Int /\ grown[p] = Gain(p) + grown[N(p)]
      BY <3>2, <3>4
    <3>9. p \in Int /\ N(p) \in Int /\ end \in Int
      BY <1>1, <2>3, <3>3
    <3>10. Len(out[p]) = (end - p) + grown[p]
      BY <3>5, <3>7, <3>8, <3>9
    <3> QED
      BY <2>3, <3>5, <3>7, <3>8, <3>10
  <2> QED
    BY <2>4, <2>5
<1>9. Right(a.data)
  <2> HIDE DEF Right
  <2> QED
    BY <1>1, <1>8
<1>10. Scans(out, m, a, entries)
  <2>1. ASSUME NEW p \in 0..end
        PROVE  /\ out[p] \in Seq(Char)
               /\ out[p] = IF p >= end THEN <<>> ELSE Text(p) \o out[N(p)]
    <3>1. Right(p)
      <4> HIDE DEF Right
      <4> QED
        BY <1>8
    <3> QED
      BY <1>7, <3>1
  <2> QED
    BY <2>1, Zenon DEF Scans, Emits, Text, N
<1>11. \E f : /\ Scans(f, m, a, entries)
              /\ translate_file(m, a, entries) = f[a.data]
  BY <1>6, <1>10
<1> QED
  BY <1>1, <1>5, <1>6, <1>9, <1>11

-----------------------------------------------------------------------------
(* Members behind all others do not change the least one. *)
LEMMA LeastSame ==
  ASSUME NEW S, NEW T, S \subseteq Nat, T \subseteq S, T # {},
         \A p \in S \ T : \A q \in T : q <= p
  PROVE  Least(S) = Least(T)
<1> DEFINE IsLeast(U, p) == p \in U /\ \A q \in U : p <= q
<1>1. PICK l \in T : \A q \in T : l <= q
  <2>1. T \subseteq Nat
    OBVIOUS
  <2> QED
    BY <2>1, LeastExists
<1>2. IsLeast(T, l) /\ IsLeast(S, l)
  BY <1>1
<1>3. ASSUME NEW U, U \subseteq Nat, U # {}, IsLeast(U, l)
      PROVE  Least(U) = l
  <2>1. Least(U) = CHOOSE p \in U : \A q \in U : p <= q
    BY <1>3, Zenon DEF Least
  <2>2. IsLeast(U, Least(U))
    BY <1>3, <2>1, Zenon
  <2>3. /\ Least(U) \in Nat /\ l \in Nat
        /\ Least(U) <= l /\ l <= Least(U)
    BY <1>3, <2>2
  <2> QED
    BY <2>3
<1>4. S # {} /\ T \subseteq Nat
  OBVIOUS
<1> HIDE DEF IsLeast
<1> QED
  BY <1>2, <1>3, <1>4

(***************************************************************************)
(* The search in chunks finds what a search of the whole page finds: the   *)
(* first mark, also one that crosses from one chunk into the next.         *)
(***************************************************************************)
LEMMA SearchFinds ==
  ASSUME NEW m, NEW a, a.data \in Nat, a.size \in Nat, NEW ch
  PROVE  find_16(m, a, ch) =
           Least({p \in a.data..(a.data + a.size - 1) :
                    /\ p + REPLACE_SIZE <= a.data + a.size
                    /\ \A k \in 0..(REPLACE_SIZE - 1) : Byte(m, p + k) = ch})
<1> DEFINE end == a.data + a.size
           R == REPLACE_SIZE
           chunk == 2 * REPLACE_SIZE
           Mark(p) == \A k \in 0..(R - 1) : Byte(m, p + k) = ch
           S(d) == {p \in d..end : p + R <= end /\ Mark(p)}
           hits(d) == {p \in d..(d + chunk - 1) :
                         /\ Byte(m, p) = ch
                         /\ all16_eq_byte(m, p, end - p, ch)}
           rest(d) == find_16_scalar(m, [data |-> d, size |-> end - d], ch)
           Searches(f) == f = [data \in 0..(end + chunk) |->
              IF end - data < chunk
              THEN find_16_scalar(m, [data |-> data, size |-> end - data], ch)
              ELSE LET h == {p \in data..(data + chunk - 1) :
                               /\ Byte(m, p) = ch
                               /\ all16_eq_byte(m, p, end - p, ch)}
                   IN  IF h # {} THEN Least(h) ELSE f[data + chunk]]
           from == CHOOSE f : Searches(f)
<1>1. /\ R \in Nat /\ 0 < R /\ end \in Nat /\ chunk \in Nat /\ R < chunk
      /\ a.data \in 0..(end + chunk)
  BY AssetsConstants
<1>2. ASSUME NEW d \in 0..(end + chunk)
      PROVE  rest(d) = Least(S(d))
  <2> DEFINE x == [data |-> d, size |-> end - d]
             T == {p \in x.data..(x.data + x.size - REPLACE_SIZE) :
                     all16_eq_byte(m, p, x.data + x.size - p, ch)}
  <2>1. rest(d) = Least(T)
    BY Zenon DEF find_16_scalar
  <2>2. x.data = d /\ x.size = end - d
    OBVIOUS
  <2>3. /\ x.data + x.size - REPLACE_SIZE = end - R
        /\ \A p \in Int : x.data + x.size - p = end - p
    <3> HIDE DEF x
    <3> QED
      BY <1>1, <2>2
  <2>4. ASSUME NEW p PROVE p \in T <=> p \in S(d)
    <3> HIDE DEF x, Mark
    <3>1. \A q \in Int : q \in d..(end - R) <=> q \in d..end /\ q + R <= end
      BY <1>1
    <3>2. \A q \in Int : all16_eq_byte(m, q, end - q, ch)
                           <=> end - q >= R /\ Mark(q)
      BY DEF all16_eq_byte, Mark
    <3>3. p \in T <=> /\ p \in d..(end - R)
                      /\ all16_eq_byte(m, p, x.data + x.size - p, ch)
      BY <2>2, <2>3, Zenon
    <3>4. p \in d..(end - R) => p \in Int
      BY <1>1
    <3>5. p \in T <=> p \in d..(end - R) /\ all16_eq_byte(m, p, end - p, ch)
      BY <2>3, <3>3, <3>4, Zenon
    <3>6. p \in d..end => p \in Int
      BY <1>1
    <3>7. p \in S(d) <=> p \in d..end /\ p + R <= end /\ Mark(p)
      OBVIOUS
    <3>8. p \in Int => (p + R <= end <=> end - p >= R)
      BY <1>1
    <3> HIDE DEF S, T
    <3> QED
      BY <3>1, <3>2, <3>4, <3>5, <3>6, <3>7, <3>8, Zenon
  <2>5. T = S(d)
    <3> HIDE DEF T, S
    <3> QED
      BY <2>4
  <2> HIDE DEF T, S
  <2> QED
    BY <2>1, <2>5
<1>3. ASSUME NEW d \in 0..(end + chunk), end - d >= chunk
      PROVE  /\ d + chunk \in 0..(end + chunk)
             /\ hits(d) # {} => Least(hits(d)) = Least(S(d))
             /\ hits(d) = {} => S(d + chunk) = S(d)
  <2>1. d + chunk \in 0..(end + chunk) /\ d + chunk <= end
    BY <1>1, <1>3
  <2>2. ASSUME NEW p
        PROVE  p \in hits(d) <=> p \in S(d) /\ p < d + chunk
    <3> HIDE DEF Mark
    <3>1. \A q \in Int : all16_eq_byte(m, q, end - q, ch)
                           <=> end - q >= R /\ Mark(q)
      BY DEF all16_eq_byte, Mark
    <3>2. \A q \in Int : Mark(q) => Byte(m, q) = ch
      <4>1. SUFFICES ASSUME NEW q \in Int, Mark(q) PROVE Byte(m, q) = ch
        BY Zenon
      <4>2. 0 \in 0..(R - 1) /\ q + 0 = q
        BY <1>1
      <4>3. Byte(m, q + 0) = ch
        BY <4>1, <4>2, Zenon DEF Mark
      <4> QED
        BY <4>2, <4>3
    <3>3. \A q \in Int : q \in d..(d + chunk - 1) /\ end - q >= R
                           <=> q \in d..end /\ q + R <= end /\ q < d + chunk
      BY <1>1, <2>1
    <3>4. p \in hits(d) => p \in Int
      BY <1>1
    <3>5. p \in S(d) => p \in Int
      BY <1>1
    <3> QED
      BY <3>1, <3>2, <3>3, <3>4, <3>5
  <2>3. S(d) \subseteq Nat /\ S(d + chunk) \subseteq Nat
    BY <1>1, <2>1
  <2>4. ASSUME NEW p PROVE p \in S(d + chunk) <=> p \in S(d) /\ p >= d + chunk
    <3> HIDE DEF Mark
    <3> QED
      BY <1>1, <2>1
  <2> HIDE DEF S, hits, end, chunk
  <2>5. ASSUME hits(d) # {} PROVE Least(hits(d)) = Least(S(d))
    <3>1. hits(d) \subseteq S(d)
      BY <2>2
    <3>2. ASSUME NEW p \in S(d) \ hits(d), NEW q \in hits(d) PROVE q <= p
      <4>1. p \in Nat /\ q \in Nat /\ ~(p < d + chunk) /\ q < d + chunk
        BY <2>2, <2>3
      <4> QED
        BY <2>1, <4>1
    <3> QED
      BY <2>3, <2>5, <3>1, <3>2, LeastSame, Zenon
  <2>6. ASSUME hits(d) = {} PROVE S(d + chunk) = S(d)
    <3>1. ASSUME NEW p \in S(d) PROVE p >= d + chunk
      <4>1. p \in Nat /\ ~(p < d + chunk)
        BY <2>2, <2>3, <2>6
      <4> QED
        BY <2>1, <4>1
    <3> QED
      BY <2>4, <3>1
  <2> QED
    BY <2>1, <2>5, <2>6
<1> DEFINE F == [d \in 0..(end + chunk) |-> Least(S(d))]
<1>4. Searches(F)
  <2>1. ASSUME NEW d \in 0..(end + chunk)
        PROVE  Least(S(d)) = IF end - d < chunk THEN rest(d)
                             ELSE IF hits(d) # {} THEN Least(hits(d))
                             ELSE F[d + chunk]
    <3> HIDE DEF S, hits, rest, Least
    <3>1. CASE end - d < chunk
      BY <1>2, <3>1
    <3>2. CASE ~(end - d < chunk)
      <4>1. end - d >= chunk
        BY <1>1, <3>2
      <4>2. d + chunk \in 0..(end + chunk)
        BY <1>3, <4>1
      <4>3. F[d + chunk] = Least(S(d + chunk))
        BY <4>2, Zenon
      <4>4. CASE hits(d) # {}
        BY <1>3, <3>2, <4>1, <4>4
      <4>5. CASE hits(d) = {}
        BY <1>3, <3>2, <4>1, <4>3, <4>5
      <4> QED
        BY <4>4, <4>5
    <3> QED
      BY <3>1, <3>2
  <2> HIDE DEF S
  <2> QED
    BY <2>1, Zenon
<1>5. Searches(from)
  <2> HIDE DEF F, Searches
  <2> QED
    BY <1>4, Zenon
<1>6. find_16(m, a, ch) = from[a.data]
  BY Zenon DEF find_16
<1>7. ASSUME NEW d \in 0..(end + chunk)
      PROVE  from[d] = IF end - d < chunk THEN rest(d)
                       ELSE IF hits(d) # {} THEN Least(hits(d))
                       ELSE from[d + chunk]
  <2> HIDE DEF from
  <2> QED
    BY <1>5, Zenon
<1> HIDE DEF from, hits, rest, Least, Searches, S
<1> DEFINE Wrong == {d \in 0..(end + chunk) : from[d] # Least(S(d))}
<1>8. Wrong = {}
  <2>1. SUFFICES ASSUME Wrong # {} PROVE FALSE
    OBVIOUS
  <2>2. PICK d \in Wrong : \A q \in Wrong : q <= d
    <3>1. Wrong \subseteq 0..(end + chunk) /\ end + chunk \in Nat
      BY <1>1
    <3> HIDE DEF Wrong, end, chunk
    <3> QED
      BY <2>1, <3>1, GreatestExists
  <2>3. d \in 0..(end + chunk) /\ from[d] # Least(S(d))
    BY <2>2
  <2>4. CASE end - d < chunk
    BY <1>2, <1>7, <2>3, <2>4
  <2>5. CASE ~(end - d < chunk) /\ hits(d) # {}
    <3>1. end - d >= chunk
      BY <1>1, <2>3, <2>5
    <3> QED
      BY <1>3, <1>7, <2>3, <2>5, <3>1
  <2>6. CASE ~(end - d < chunk) /\ hits(d) = {}
    <3>1. end - d >= chunk
      BY <1>1, <2>3, <2>6
    <3>2. d + chunk \in 0..(end + chunk) /\ ~(d + chunk <= d)
      BY <1>1, <1>3, <2>3, <3>1
    <3>3. from[d + chunk] = Least(S(d + chunk))
      BY <2>2, <3>2
    <3> QED
      BY <1>3, <1>7, <2>3, <2>6, <3>1, <3>3
  <2> QED
    BY <2>4, <2>5, <2>6
<1>9. from[a.data] = Least(S(a.data))
  <2> HIDE DEF end, chunk
  <2> QED
    BY <1>1, <1>8
<1> DEFINE W == {p \in a.data..(a.data + a.size - 1) :
                   /\ p + REPLACE_SIZE <= a.data + a.size
                   /\ \A k \in 0..(REPLACE_SIZE - 1) : Byte(m, p + k) = ch}
<1>10. S(a.data) = W
  <2>1. ASSUME NEW p PROVE p \in S(a.data) <=> p \in W
    <3>1. \A q \in Int : q \in a.data..end /\ q + R <= end <=>
            q \in a.data..(a.data + a.size - 1) /\ q + R <= end
      BY <1>1
    <3>2. p \in S(a.data) => p \in Int
      BY <1>1 DEF S
    <3>3. p \in W => p \in Int
      BY <1>1
    <3>4. Mark(p) <=> \A k \in 0..(REPLACE_SIZE - 1) : Byte(m, p + k) = ch
      OBVIOUS
    <3> HIDE DEF Mark
    <3> QED
      BY <3>1, <3>2, <3>3, <3>4 DEF S
  <2> HIDE DEF W
  <2> QED
    BY <2>1
<1>11. find_16(m, a, ch) = Least(W)
  <2> HIDE DEF W
  <2> QED
    BY <1>6, <1>9, <1>10, Zenon
<1> QED
  BY <1>11, Zenon

-----------------------------------------------------------------------------
(* The files as they were read, and where they lie. *)
M0 == Content(1) \o Content(2)
First == <<[in |-> "read", data |-> 0, size |-> Len(Content(1))],
           [in |-> "read", data |-> Len(Content(1)), size |-> Len(Content(2))]>>

(* What is on the disk. *)
Disk == files \in {<<f, g>> : f \in Pages, g \in Others}

(* What file j takes in language i, and what the first i languages take. *)
Need(i, j) == get_translated_file_size(M0, First[j], translations[i])
Until(i) == Measured(M0, First)[i]

(* Texts over fewer bytes are texts over more. *)
LEMMA MoreBytes ==
  ASSUME NEW A, NEW B, A \subseteq B, NEW s \in Seq(A)
  PROVE  s \in Seq(B)
  OBVIOUS

(* The constants are made of bytes. *)
LEMMA ConstantTexts ==
  /\ Pages \cup Others \subseteq Seq(Seq(Char))
  /\ Tail_ \in Seq(Char) /\ Len(Tail_) \in Nat \ {0}
  /\ Len(translations) \in Nat \ {0} /\ Langs = 1..Len(translations)
  /\ \A i \in Langs : translations[i] \in Entries
<1> DEFINE Str == STRING
           A == [key : Seq(Str), value : Seq(Str)]
           B == [key : Seq(Char), value : Seq(Char)]
<1>1. Str \subseteq Char
  BY DEF Char
<1>2. /\ translations \in Seq(Seq(A))
      /\ Pages \cup Others \subseteq Seq(Seq(Str))
      /\ Tail_ \in Seq(Str) /\ Tail_ # <<>>
      /\ Langs = 1..Len(translations) /\ Langs # {}
  BY AssetsConstants, TailConstant, Zenon
<1> HIDE DEF Str
<1>3. Seq(Str) \subseteq Seq(Char)
  BY <1>1, MoreBytes
<1>4. Seq(Seq(Str)) \subseteq Seq(Seq(Char))
  BY <1>3, MoreBytes
<1>5. A \subseteq B
  BY <1>3
<1>6. Seq(A) \subseteq Entries
  <2>1. Entries = Seq(B)
    BY DEF Entries
  <2> HIDE DEF A, B
  <2> QED
    BY <1>5, <2>1, MoreBytes
<1> HIDE DEF A, B
<1>7. /\ Len(translations) \in Nat
      /\ \A i \in 1..Len(translations) : translations[i] \in Seq(A)
  BY <1>2
<1>8. Len(translations) # 0
  BY <1>2, <1>7
<1>9. Len(Tail_) \in Nat \ {0}
  BY <1>2
<1> QED
  BY <1>2, <1>3, <1>4, <1>6, <1>7, <1>8, <1>9

(* A file ends with the tail. *)
LEMMA ContentEnds ==
  ASSUME Disk, NEW j \in Files
  PROVE  /\ Content(j) \in Seq(Char) /\ Len(Content(j)) \in Nat \ {0}
         /\ Content(j)[Len(Content(j))] = Tail_[Len(Tail_)]
<1>1. files[j] \in Seq(Seq(Char))
  BY ConstantTexts DEF Disk, Files
<1>2. FlattenSeq(files[j]) \in Seq(Char)
  BY <1>1, Flattened
<1> DEFINE f == FlattenSeq(files[j])
<1>3. Content(j) = f \o Tail_
  BY DEF Content
<1> HIDE DEF f
<1>4. /\ f \in Seq(Char) /\ Tail_ \in Seq(Char)
      /\ Len(f) \in Nat /\ Len(Tail_) \in Nat \ {0}
  BY <1>2, ConstantTexts DEF f
<1>5. /\ f \o Tail_ \in Seq(Char) /\ Len(f \o Tail_) = Len(f) + Len(Tail_)
      /\ (f \o Tail_)[Len(f) + Len(Tail_)] = Tail_[Len(Tail_)]
  BY <1>4
<1> QED
  BY <1>3, <1>4, <1>5

(* Each file lies in the memory, and its last byte is in no key. *)
LEMMA FilesIn ==
  ASSUME Disk, NEW i \in Langs, NEW j \in Files
  PROVE  FileIn(M0, First[j], translations[i])
<1> DEFINE c == Content(1)
           d == Content(2)
           last == Tail_[Len(Tail_)]
<1>1. /\ c \in Seq(Char) /\ Len(c) \in Nat \ {0} /\ c[Len(c)] = last
      /\ d \in Seq(Char) /\ Len(d) \in Nat \ {0} /\ d[Len(d)] = last
  <2>1. 1 \in Files /\ 2 \in Files
    BY DEF Files
  <2> QED
    BY <2>1, ContentEnds
<1>2. M0 = c \o d
  BY DEF M0
<1> HIDE DEF c, d
<1>3. /\ c \o d \in Seq(Char) /\ Len(c \o d) = Len(c) + Len(d)
      /\ (c \o d)[Len(c)] = last
  BY <1>1
<1>4. (c \o d)[Len(c) + Len(d)] = last
  BY <1>1
<1>5. \A e \in DOMAIN translations[i] :
        \A k \in DOMAIN translations[i][e].key :
          translations[i][e].key[k] # last
  BY TailConstant
<1>6. translations[i] \in Entries
  BY ConstantTexts
<1> DEFINE a == First[j]
<1>7. /\ a.data \in Nat /\ a.size \in Nat \ {0}
      /\ a.data + a.size <= Len(c \o d)
      /\ a.data + a.size = Len(c) \/ a.data + a.size = Len(c) + Len(d)
  <2>1. CASE j = 1
    <3>1. a.data = 0 /\ a.size = Len(c)
      BY <2>1 DEF First, c
    <3> QED
      BY <1>1, <1>3, <3>1
  <2>2. CASE j = 2
    <3>1. a.data = Len(c) /\ a.size = Len(d)
      BY <2>2 DEF First, c, d
    <3> QED
      BY <1>1, <1>3, <3>1
  <2> QED
    BY <2>1, <2>2 DEF Files
<1>8. (c \o d)[a.data + a.size] = last
  <2> HIDE DEF a, last
  <2> QED
    BY <1>3, <1>4, <1>7, Zenon
<1> HIDE DEF a, last
<1>9. FileIn(M0, a, translations[i])
  BY <1>2, <1>3, <1>5, <1>6, <1>7, <1>8 DEF FileIn
<1> QED
  BY <1>9 DEF a

(* What a file takes is what translate_file writes of it. *)
LEMMA NeedWritten ==
  ASSUME Disk, NEW i \in Langs, NEW j \in Files
  PROVE  /\ translate_file(M0, First[j], translations[i]) \in Seq(Char)
         /\ Need(i, j) = Len(translate_file(M0, First[j], translations[i]))
         /\ Need(i, j) \in Nat
<1> DEFINE w == translate_file(M0, First[j], translations[i])
<1>1. w \in Seq(Char) /\ Need(i, j) = Len(w)
  BY FilesIn, PassesAgree DEF Need
<1> HIDE DEF w
<1>2. Len(w) \in Nat
  BY <1>1
<1> QED
  BY <1>1, <1>2 DEF w

(* The sums: they begin with 0, grow by each language and never shrink. *)
LEMMA Sums ==
  ASSUME Disk
  PROVE  /\ Until(0) = 0
         /\ \A i \in Langs :
              /\ Until(i) \in Nat /\ Until(i - 1) \in Nat
              /\ Until(i) = Until(i - 1) + Need(i, 1) + Need(i, 2)
              /\ Until(i) <= Until(Len(translations))
<1> DEFINE n == Len(translations)
           Adds(f) == f = [i \in 0..n |->
             IF i = 0 THEN 0
             ELSE f[i - 1]
                  + get_translated_file_size(M0, First[1], translations[i])
                  + get_translated_file_size(M0, First[2], translations[i])]
           sum == CHOOSE f : Adds(f)
           step(i) == Need(i, 1) + Need(i, 2)
<1>1. n \in Nat /\ Langs = 1..n
  BY ConstantTexts
<1>2. \A i \in 1..n : Need(i, 1) \in Nat /\ Need(i, 2) \in Nat
  BY <1>1, NeedWritten DEF Files
<1>3. Adds(sum)
  <2> DEFINE g == [i \in 1..n |-> [v \in Nat |-> v + Need(i, 1) + Need(i, 2)]]
  <2>1. Upward(Nat, n, 0, g)
    <3>1. \A i \in 1..n : \A v \in Nat : g[i][v] \in Nat
      BY <1>2
    <3> HIDE DEF g
    <3> QED
      BY <1>1, <3>1 DEF Upward
  <2>2. UpwardSolved(Nat, n, 0, g)
    <3> HIDE DEF g
    <3> QED
      BY <2>1, UpwardFunction, Zenon
  <2>3. PICK f \in [0..n -> Nat] : /\ f[0] = 0
                                   /\ \A i \in 1..n : f[i] = g[i][f[i - 1]]
    <3> HIDE DEF g
    <3> QED
      BY <2>2, Zenon DEF UpwardSolved
  <2> DEFINE F == [i \in 0..n |-> f[i]]
  <2>4. ASSUME NEW i \in 0..n
        PROVE  f[i] = IF i = 0 THEN 0
                      ELSE F[i - 1] + Need(i, 1) + Need(i, 2)
    <3>1. CASE i = 0
      BY <2>3, <3>1
    <3>2. CASE i # 0
      <4>1. i \in 1..n /\ i - 1 \in 0..n
        BY <1>1, <3>2
      <4>2. f[i - 1] \in Nat /\ F[i - 1] = f[i - 1]
        BY <4>1
      <4>3. g[i][f[i - 1]] = f[i - 1] + Need(i, 1) + Need(i, 2)
        BY <4>1, <4>2
      <4> HIDE DEF g, F
      <4> QED
        BY <2>3, <3>2, <4>1, <4>2, <4>3
    <3> QED
      BY <3>1, <3>2
  <2>5. Adds(F)
    BY <2>4, Zenon DEF Need
  <2> HIDE DEF F, Adds
  <2> QED
    BY <2>5, Zenon
<1>4. \A i : Until(i) = sum[i]
  BY Zenon DEF Until, Measured
<1> HIDE DEF sum
<1>5. ASSUME NEW i \in 0..n
      PROVE  sum[i] = IF i = 0 THEN 0
                      ELSE sum[i - 1] + Need(i, 1) + Need(i, 2)
  BY <1>3, Zenon DEF Need
<1> HIDE DEF Adds
<1>6. /\ sum[0] = 0
      /\ \A i \in 1..n : sum[i] = sum[i - 1] + Need(i, 1) + Need(i, 2)
  <2>1. 0 \in 0..n /\ \A i \in 1..n : i \in 0..n /\ i # 0
    BY <1>1
  <2> QED
    BY <1>5, <2>1, Zenon
<1>7. \A i \in 0..n : sum[i] \in Nat
  <2> DEFINE Wrong == {i \in 0..n : sum[i] \notin Nat}
  <2>1. SUFFICES ASSUME Wrong # {} PROVE FALSE
    OBVIOUS
  <2>2. PICK i \in Wrong : \A l \in Wrong : i <= l
    <3>1. Wrong \subseteq Nat
      OBVIOUS
    <3> HIDE DEF Wrong
    <3> QED
      BY <2>1, <3>1, LeastExists
  <2>3. i \in 0..n /\ sum[i] \notin Nat /\ i # 0
    BY <1>6, <2>2
  <2>4. i \in 1..n /\ i - 1 \in 0..n /\ ~(i <= i - 1)
    BY <1>1, <2>3
  <2>5. sum[i - 1] \in Nat
    BY <2>2, <2>4
  <2> QED
    BY <1>2, <1>6, <2>3, <2>4, <2>5
<1>8. \A i \in 0..n : sum[i] <= sum[n]
  <2> DEFINE Wrong == {i \in 0..n : ~(sum[i] <= sum[n])}
  <2>1. SUFFICES ASSUME Wrong # {} PROVE FALSE
    OBVIOUS
  <2>2. PICK i \in Wrong : \A l \in Wrong : l <= i
    <3>1. Wrong \subseteq 0..n
      OBVIOUS
    <3> HIDE DEF Wrong
    <3> QED
      BY <1>1, <2>1, <3>1, GreatestExists
  <2>3. n \in 0..n /\ sum[n] \in Nat
    BY <1>1, <1>7
  <2>4. i \in 0..n /\ ~(sum[i] <= sum[n]) /\ i # n
    BY <2>2, <2>3
  <2>5. /\ i + 1 \in 1..n /\ i + 1 \in 0..n /\ ~(i + 1 <= i)
        /\ (i + 1) - 1 = i
    BY <1>1, <2>4
  <2>6. sum[i + 1] <= sum[n]
    BY <2>2, <2>5
  <2>7. sum[i + 1] = sum[i] + Need(i + 1, 1) + Need(i + 1, 2)
    BY <1>6, <2>5
  <2>8. sum[i] \in Nat /\ sum[i + 1] \in Nat
        /\ Need(i + 1, 1) \in Nat /\ Need(i + 1, 2) \in Nat
    BY <1>2, <1>7, <2>4, <2>5
  <2> QED
    BY <2>3, <2>4, <2>6, <2>7, <2>8
<1>9. \A i \in 1..n : i \in 0..n /\ i - 1 \in 0..n
  BY <1>1
<1> QED
  BY <1>1, <1>4, <1>6, <1>7, <1>8, <1>9

-----------------------------------------------------------------------------
(* A file that was translated: it lies in what was written. *)
Done(i, j) ==
  /\ assets[i][j].in = "translated"
  /\ assets[i][j].data \in Nat /\ assets[i][j].size \in Nat
  /\ assets[i][j].data + assets[i][j].size <= data_ptr

(* File j of language i comes before the one that is translated next. *)
Earlier(i, j) == i < at[1] \/ (i = at[1] /\ j < at[2])

(* Where the next file goes, by the sums of the first pass. *)
Due == Until(at[1] - 1) + IF at[2] = 1 THEN 0 ELSE Need(at[1], 1)

(* Between two files: what was written is what the first pass measured of   *)
(* the files before, and the ones to come still point to what was read.     *)
Translating ==
  /\ at \in Langs \X Files
  /\ assets_memory = M0
  /\ allocated = Until(Len(translations))
  /\ data_ptr = Due /\ Len(translated) = data_ptr
  /\ DOMAIN assets = Langs
  /\ \A i \in Langs : DOMAIN assets[i] = Files
  /\ \A i \in Langs, j \in Files :
       IF Earlier(i, j) THEN Done(i, j) ELSE assets[i][j] = First[j]

(* Afterwards: the memory is full and every file is in it. *)
Complete ==
  /\ data_ptr = allocated /\ Len(translated) = data_ptr
  /\ \A i \in Langs, j \in Files : Done(i, j)

(* Before the first file is translated. *)
Begun == at = <<1, 1>> /\ data_ptr = 0 /\ translated = <<>>

(* Where the files are at each stage. *)
AInv ==
  /\ Disk
  /\ pc \in {"load", "copy", "translate", "translating", "marks", "serving",
             "failed"}
  /\ translated \in Seq(Char)
  /\ pc = "load" => Begun /\ DOMAIN assets = Langs
  /\ pc = "copy" => Begun /\ assets_memory = M0 /\ assets[1] = First
  /\ pc = "translate" =>
       Begun /\ assets_memory = M0 /\ assets = [i \in Langs |-> First]
  /\ pc = "translating" => Translating
  /\ pc \in {"marks", "serving"} => Complete

(* The files do not change, nor what is measured on them. *)
LEMMA SameFiles ==
  ASSUME UNCHANGED files
  PROVE  /\ Disk' = Disk /\ M0' = M0 /\ First' = First
         /\ \A i : Until(i)' = Until(i)
         /\ \A i, j : Need(i, j)' = Need(i, j)
<1>1. Disk' = Disk
  BY DEF Disk
<1>2. Content(1)' = Content(1) /\ Content(2)' = Content(2)
  BY DEF Content
<1>3. M0' = M0 /\ First' = First
  BY <1>2 DEF M0, First
<1> QED
  BY <1>1, <1>3 DEF Until, Need

(* It holds when the server starts. *)
LEMMA AInit == Init => AInv
<1> SUFFICES ASSUME Init PROVE AInv
  OBVIOUS
<1> QED
  BY DEF Init, AInv, Disk, Begun

(* The first n bytes of a memory. *)
LEMMA FirstBytes ==
  ASSUME NEW m \in Seq(Char), NEW n \in Nat
  PROVE  /\ Bytes(m, 0, n) \in Seq(Char) /\ Len(Bytes(m, 0, n)) = n
         /\ \A p \in 0..(n - 1) : Bytes(m, 0, n)[p + 1] = Byte(m, p)
<1> DEFINE b == Bytes(m, 0, n)
<1>1. \A k \in 1..n : Byte(m, 0 + k - 1) \in Char
  <2>1. \A k \in 1..n : 0 + k - 1 \in Nat
    OBVIOUS
  <2> QED
    BY <2>1, ByteType
<1>2. b = [k \in 1..n |-> Byte(m, 0 + k - 1)]
  BY DEF Bytes
<1> HIDE DEF b
<1>3. b \in Seq(Char) /\ Len(b) = n
  BY <1>1, <1>2
<1>4. ASSUME NEW p \in 0..(n - 1) PROVE b[p + 1] = Byte(m, p)
  <2>1. p + 1 \in 1..n /\ 0 + (p + 1) - 1 = p
    OBVIOUS
  <2> DEFINE k == p + 1
  <2>2. k \in 1..n /\ 0 + k - 1 = p
    BY <2>1
  <2> HIDE DEF k
  <2>3. b[k] = Byte(m, 0 + k - 1)
    BY <1>2, <2>2, Zenon
  <2>4. b[k] = Byte(m, p)
    BY <2>2, <2>3
  <2> QED
    BY <2>4 DEF k
<1> QED
  BY <1>3, <1>4 DEF b

(* What the translation of a file changes. *)
LEMMA TranslateDoes ==
  ASSUME AInv, NEW i \in Langs, NEW j \in Files, translate(i, j)
  PROVE  /\ Disk /\ translated \in Seq(Char) /\ Translating
         /\ pc = "translating" /\ at = <<i, j>> /\ assets_memory = M0
         /\ translated' = Bytes(translated, 0, data_ptr)
                            \o translate_file(M0, First[j], translations[i])
         /\ assets'[i][j] = [in |-> "translated", data |-> data_ptr,
                             size |-> Need(i, j)]
         /\ DOMAIN assets' = Langs /\ \A k \in Langs : DOMAIN assets'[k] = Files
         /\ \A k \in Langs, l \in Files :
              <<k, l>> # <<i, j>> => assets'[k][l] = assets[k][l]
         /\ data_ptr' = data_ptr + Need(i, j)
         /\ at' = IF j = 1 THEN <<i, 2>> ELSE <<i + 1, 1>>
         /\ pc' = IF <<i, j>> = <<Len(translations), 2>>
                  THEN "marks" ELSE "translating"
         /\ assets_memory' = IF <<i, j>> = <<Len(translations), 2>>
                             THEN <<>> ELSE assets_memory
         /\ UNCHANGED <<files, allocated>>
<1> DEFINE w == translate_file(M0, First[j], translations[i])
           new == [in |-> "translated", data |-> data_ptr, size |-> Need(i, j)]
           last == <<i, j>> = <<Len(translations), 2>>
<1>1. /\ Disk /\ translated \in Seq(Char) /\ Translating
      /\ pc = "translating" /\ at = <<i, j>> /\ UNCHANGED files
  BY DEF AInv, translate
<1>2. assets[i][j] = First[j] /\ First[j].in = "read" /\ assets_memory = M0
  <2>1. ~Earlier(i, j)
    BY <1>1, ConstantTexts DEF Earlier, Files
  <2>2. First[j].in = "read"
    BY DEF First, Files
  <2> QED
    BY <1>1, <2>1, <2>2 DEF Translating
<1>3. /\ translated' = Bytes(translated, 0, data_ptr) \o w
      /\ assets' = [assets EXCEPT ![i][j] = new]
      /\ data_ptr' = data_ptr + Need(i, j)
      /\ at' = IF j = 1 THEN <<i, 2>> ELSE <<i + 1, 1>>
      /\ pc' = IF last THEN "marks" ELSE "translating"
      /\ assets_memory' = IF last THEN <<>> ELSE assets_memory
      /\ UNCHANGED allocated
  BY <1>2, Zenon DEF translate, Source, Need
<1>4. /\ DOMAIN assets' = Langs /\ \A k \in Langs : DOMAIN assets'[k] = Files
      /\ assets'[i][j] = new
      /\ \A k \in Langs, l \in Files :
           <<k, l>> # <<i, j>> => assets'[k][l] = assets[k][l]
  <2>1. DOMAIN assets = Langs /\ \A k \in Langs : DOMAIN assets[k] = Files
    BY <1>1 DEF Translating
  <2> HIDE DEF new
  <2> QED
    BY <1>3, <2>1
<1> QED
  BY <1>1, <1>2, <1>3, <1>4, Zenon

(* A file that is translated fills the place that was measured for it. *)
LEMMA TranslateStep ==
  ASSUME AInv, NEW i \in Langs, NEW j \in Files, translate(i, j)
  PROVE  AInv'
<1> DEFINE w == translate_file(M0, First[j], translations[i])
           new == [in |-> "translated", data |-> data_ptr, size |-> Need(i, j)]
           last == <<i, j>> = <<Len(translations), 2>>
           n == Len(translations)
<1>1. /\ Disk /\ translated \in Seq(Char) /\ Translating
      /\ pc = "translating" /\ at = <<i, j>> /\ UNCHANGED files
  BY TranslateDoes, Zenon
<1>2. assets_memory = M0
  BY TranslateDoes, Zenon
<1>3. /\ translated' = Bytes(translated, 0, data_ptr) \o w
      /\ data_ptr' = data_ptr + Need(i, j)
      /\ at' = IF j = 1 THEN <<i, 2>> ELSE <<i + 1, 1>>
      /\ pc' = IF last THEN "marks" ELSE "translating"
      /\ assets_memory' = IF last THEN <<>> ELSE assets_memory
      /\ UNCHANGED allocated
  BY TranslateDoes, Zenon
<1>4. /\ w \in Seq(Char) /\ Need(i, j) = Len(w) /\ Need(i, j) \in Nat
      /\ Need(i, 1) \in Nat /\ Need(i, 2) \in Nat
  BY <1>1, NeedWritten DEF Files
<1>5. /\ n \in Nat \ {0} /\ Langs = 1..n /\ i \in Nat /\ (j = 1 \/ j = 2)
  BY ConstantTexts DEF Files
<1>6. /\ Until(0) = 0 /\ Until(i) \in Nat /\ Until(i - 1) \in Nat
      /\ Until(i) = Until(i - 1) + Need(i, 1) + Need(i, 2)
      /\ Until(i) <= Until(n)
  BY <1>1, Sums
<1>7. /\ Disk' /\ M0' = M0 /\ First' = First
      /\ \A k : Until(k)' = Until(k)
      /\ \A k, l : Need(k, l)' = Need(k, l)
  BY <1>1, SameFiles
<1>8. at[1] = i /\ at[2] = j
  BY <1>1
<1>9. data_ptr = Until(i - 1) + IF j = 1 THEN 0 ELSE Need(i, 1)
  BY <1>1, <1>8 DEF Translating, Due
<1>10. data_ptr \in Nat /\ data_ptr + Need(i, j) \in Nat
  BY <1>4, <1>6, <1>9
<1>11. translated' \in Seq(Char) /\ Len(translated') = data_ptr'
  <2> DEFINE b == Bytes(translated, 0, data_ptr)
  <2>1. b \in Seq(Char) /\ Len(b) = data_ptr
    BY <1>1, <1>10, FirstBytes
  <2>2. b \o w \in Seq(Char) /\ Len(b \o w) = Len(b) + Len(w)
    <3> HIDE DEF b, w
    <3> QED
      BY <1>4, <2>1
  <2>3. translated' = b \o w
    BY <1>3
  <2> HIDE DEF b, w
  <2> QED
    BY <1>3, <1>4, <2>1, <2>2, <2>3
<1>12. /\ DOMAIN assets' = Langs /\ \A k \in Langs : DOMAIN assets'[k] = Files
       /\ assets'[i][j] = new
       /\ \A k \in Langs, l \in Files :
            <<k, l>> # <<i, j>> => assets'[k][l] = assets[k][l]
  BY TranslateDoes, Zenon
<1>13. new.in = "translated" /\ new.data = data_ptr /\ new.size = Need(i, j)
  OBVIOUS
<1> HIDE DEF new, w
<1>14. Done(i, j)'
  BY <1>3, <1>4, <1>10, <1>12, <1>13 DEF Done
<1>15. ASSUME NEW k \in Langs, NEW l \in Files, Earlier(k, l)
       PROVE  Done(k, l)'
  <2>1. Done(k, l)
    BY <1>1, <1>15 DEF Translating
  <2>2. <<k, l>> # <<i, j>>
    BY <1>5, <1>8, <1>15 DEF Earlier
  <2>3. assets'[k][l] = assets[k][l] /\ data_ptr <= data_ptr'
    BY <1>3, <1>4, <1>10, <1>12, <2>2
  <2>4. data_ptr \in Nat /\ data_ptr' \in Nat
    BY <1>3, <1>10
  <2> QED
    BY <2>1, <2>3, <2>4 DEF Done
<1>16. CASE last
  <2>1. i = n /\ j = 2
    BY <1>16
  <2>2. pc' = "marks"
    BY <1>3, <1>16
  <2>3. data_ptr' = allocated'
    <3>1. allocated = Until(n)
      BY <1>1 DEF Translating
    <3> QED
      BY <1>3, <1>4, <1>6, <1>9, <2>1, <3>1
  <2>4. ASSUME NEW k \in Langs, NEW l \in Files PROVE Done(k, l)'
    <3>1. CASE k = i /\ l = j
      BY <1>14, <3>1
    <3>2. CASE ~(k = i /\ l = j)
      <4>1. Earlier(k, l)
        BY <1>5, <1>8, <2>1, <3>2 DEF Earlier, Files
      <4> QED
        BY <1>15, <4>1
    <3> QED
      BY <3>1, <3>2
  <2>5. Complete'
    BY <1>11, <2>3, <2>4 DEF Complete
  <2> QED
    BY <1>7, <1>11, <2>2, <2>5 DEF AInv
<1>17. CASE ~last
  <2>1. ~(i = n /\ j = 2)
    BY <1>17
  <2>2. pc' = "translating" /\ assets_memory' = M0'
    BY <1>2, <1>3, <1>7, <1>17
  <2>3. /\ at' \in Langs \X Files
        /\ at'[1] = (IF j = 1 THEN i ELSE i + 1)
        /\ at'[2] = (IF j = 1 THEN 2 ELSE 1)
    BY <1>3, <1>5, <2>1 DEF Files
  <2>4. data_ptr' = Due'
    <3>1. Due' = Until(at'[1] - 1) + IF at'[2] = 1 THEN 0 ELSE Need(at'[1], 1)
      BY <1>7 DEF Due, Until, Need
    <3>2. CASE j = 1
      BY <1>3, <1>4, <1>6, <1>9, <2>3, <3>1, <3>2
    <3>3. CASE j = 2
      <4>1. at'[1] = i + 1 /\ at'[2] = 1 /\ (i + 1) - 1 = i
        BY <1>5, <2>3, <3>3
      <4>2. Due' = Until(i) + 0
        BY <3>1, <4>1
      <4> QED
        BY <1>3, <1>4, <1>6, <1>9, <3>3, <4>2
    <3> QED
      BY <1>5, <3>2, <3>3
  <2>5. allocated' = Until(n)'
    BY <1>1, <1>3, <1>7 DEF Translating
  <2>6. ASSUME NEW k \in Langs, NEW l \in Files
        PROVE  IF Earlier(k, l)' THEN Done(k, l)' ELSE assets'[k][l] = First'[l]
    <3>1. Earlier(k, l)' <=> (k = i /\ l = j) \/ Earlier(k, l)
      BY <1>5, <1>8, <2>3 DEF Earlier, Files
    <3>2. CASE k = i /\ l = j
      BY <1>14, <3>1, <3>2
    <3>3. CASE Earlier(k, l)
      BY <1>15, <3>1, <3>3
    <3>4. CASE ~(k = i /\ l = j) /\ ~Earlier(k, l)
      <4>1. assets'[k][l] = assets[k][l]
        BY <1>12, <3>4
      <4>2. assets[k][l] = First[l]
        BY <1>1, <3>4 DEF Translating
      <4> QED
        BY <1>7, <3>1, <3>4, <4>1, <4>2
    <3> QED
      BY <3>2, <3>3, <3>4
  <2>7. Translating'
    BY <1>11, <1>12, <2>2, <2>3, <2>4, <2>5, <2>6 DEF Translating
  <2> QED
    BY <1>7, <1>11, <2>2, <2>7 DEF AInv
<1> QED
  BY <1>16, <1>17

(* Every step keeps it. *)
LEMMA AStep == AInv /\ [Next]_vars => AInv'
<1> SUFFICES ASSUME AInv, [Next]_vars PROVE AInv'
  OBVIOUS
<1>1. /\ Len(translations) \in Nat \ {0} /\ Langs = 1..Len(translations)
      /\ 1 \in Langs
  BY ConstantTexts
<1>2. CASE load_fails
  BY <1>2, SameFiles DEF load_fails, AInv
<1>3. CASE assets_load
  <2>1. Disk /\ Begun /\ DOMAIN assets = Langs /\ translated \in Seq(Char)
    BY <1>3 DEF AInv, assets_load
  <2>2. /\ pc' = "copy" /\ assets_memory' = M0 /\ assets'[1] = First
        /\ UNCHANGED <<at, files, translated, data_ptr>>
    BY <1>1, <1>3, <2>1 DEF assets_load, M0, First
  <2>3. Disk' /\ M0' = M0 /\ First' = First
    BY <2>1, <2>2, SameFiles
  <2>4. Begun'
    BY <2>1, <2>2 DEF Begun
  <2> QED
    BY <2>1, <2>2, <2>3, <2>4 DEF AInv
<1>4. CASE copy_assets
  <2>1. /\ Disk /\ Begun /\ translated \in Seq(Char)
        /\ assets_memory = M0 /\ assets[1] = First
    BY <1>4 DEF AInv, copy_assets
  <2>2. /\ pc' = "translate" /\ assets' = [i \in Langs |-> First]
        /\ UNCHANGED <<at, files, assets_memory, translated, data_ptr>>
    BY <1>4, <2>1 DEF copy_assets
  <2>3. Disk' /\ M0' = M0 /\ First' = First
    BY <2>1, <2>2, SameFiles
  <2>4. Begun'
    BY <2>1, <2>2 DEF Begun
  <2> QED
    BY <2>1, <2>2, <2>3, <2>4 DEF AInv
<1>5. CASE measure
  <2>1. /\ Disk /\ Begun /\ translated \in Seq(Char)
        /\ assets_memory = M0 /\ assets = [i \in Langs |-> First]
    BY <1>5 DEF AInv, measure
  <2>2. /\ pc' = "translating"
        /\ UNCHANGED <<at, files, assets_memory, assets, translated, data_ptr>>
    BY <1>5 DEF measure
  <2>3. /\ Disk' /\ M0' = M0 /\ First' = First
        /\ \A i : Until(i)' = Until(i)
    BY <2>1, <2>2, SameFiles
  <2>4. allocated' = Until(Len(translations))'
    <3>1. assets[1] = First
      BY <1>1, <2>1
    <3>2. allocated' = Measured(M0, First)[Len(translations)]
      BY <1>5, <2>1, <3>1, Zenon DEF measure
    <3> QED
      BY <2>3, <3>2 DEF Until
  <2>5. data_ptr' = Due' /\ Len(translated') = data_ptr'
    <3>1. /\ at' = <<1, 1>> /\ data_ptr' = 0 /\ translated' = <<>>
      BY <2>1, <2>2 DEF Begun
    <3>2. at'[1] - 1 = 0 /\ at'[2] = 1
      BY <3>1
    <3>3. Due' = Until(0)' + 0
      BY <3>2 DEF Due, Until
    <3>4. Until(0)' = 0
      BY <2>1, <2>3, Sums
    <3> QED
      BY <3>1, <3>3, <3>4
  <2>6. /\ DOMAIN assets' = Langs
        /\ \A i \in Langs : assets'[i] = First' /\ DOMAIN assets'[i] = Files
    BY <2>1, <2>2, <2>3 DEF First, Files
  <2>7. at' \in Langs \X Files /\ \A i \in Langs, j \in Files : ~Earlier(i, j)'
    BY <1>1, <2>1, <2>2 DEF Begun, Earlier, Files
  <2>8. Translating'
    BY <2>1, <2>2, <2>3, <2>4, <2>5, <2>6, <2>7 DEF Translating
  <2> QED
    BY <2>1, <2>2, <2>3, <2>8 DEF AInv
<1>6. CASE \E i \in Langs, j \in Files : translate(i, j)
  BY <1>6, TranslateStep
<1>7. CASE find_marks
  <2>1. Disk' /\ translated' \in Seq(Char)
    BY <1>7, SameFiles DEF find_marks, AInv
  <2>2. Complete'
    BY <1>7 DEF find_marks, AInv, Complete, Done
  <2>3. pc' \in {"failed", "serving"}
    BY <1>7 DEF find_marks
  <2> QED
    BY <2>1, <2>2, <2>3 DEF AInv
<1>8. CASE Stopped
  BY <1>8, SameFiles DEF Stopped, vars, AInv
<1>9. CASE \E i \in Langs : serve_root(i)
  <2>1. PICK i \in Langs : serve_root(i)
    BY <1>9
  <2>2. /\ Disk /\ translated \in Seq(Char) /\ Complete
        /\ pc = "serving" /\ pc' = "serving"
        /\ UNCHANGED <<files, assets, allocated, data_ptr>>
    BY <2>1 DEF serve_root, AInv
  <2>3. translated' \in Seq(Char) /\ Len(translated') = Len(translated)
    <3> DEFINE over == MarkBytes(i)
               n == Len(translated)
    <3>1. translated' = [p \in 1..n |->
                           IF p - 1 \in over THEN "#" ELSE translated[p]]
      BY <2>1, Zenon DEF serve_root
    <3>2. "#" \in Char
      BY Zenon DEF Char
    <3>3. n \in Nat /\ \A p \in 1..n : translated[p] \in Char
      BY <2>2
    <3>4. \A p \in 1..n :
            (IF p - 1 \in over THEN "#" ELSE translated[p]) \in Char
      BY <3>2, <3>3, Zenon
    <3> HIDE DEF over, n
    <3> DEFINE v(p) == IF p - 1 \in over THEN "#" ELSE translated[p]
    <3>5. translated' = [p \in 1..n |-> v(p)] /\ \A p \in 1..n : v(p) \in Char
      BY <3>1, <3>4, Zenon
    <3> HIDE DEF v
    <3>6. translated' \in Seq(Char) /\ Len(translated') = n
      BY <3>3, <3>5
    <3> QED
      BY <3>6 DEF n
  <2>4. Disk'
    BY <2>2, SameFiles
  <2>5. Complete'
    BY <2>2, <2>3 DEF Complete, Done
  <2> QED
    BY <2>2, <2>3, <2>4, <2>5 DEF AInv
<1>10. CASE UNCHANGED vars
  <2>1. /\ Disk' = Disk /\ M0' = M0 /\ First' = First
        /\ \A i : Until(i)' = Until(i)
        /\ \A i, j : Need(i, j)' = Need(i, j)
    BY <1>10, SameFiles DEF vars
  <2>2. Translating => Translating'
    <3>1. Due' = Due
      BY <1>10, <2>1 DEF vars, Due, Until, Need
    <3> QED
      BY <1>10, <2>1, <3>1 DEF vars, Translating, Earlier, Done
  <2>3. Complete => Complete'
    BY <1>10 DEF vars, Complete, Done
  <2>4. Begun => Begun'
    BY <1>10 DEF vars, Begun
  <2> QED
    BY <1>10, <2>1, <2>2, <2>3, <2>4 DEF vars, AInv
<1> QED
  BY <1>2, <1>3, <1>4, <1>5, <1>6, <1>7, <1>8, <1>9, <1>10 DEF Next

(***************************************************************************)
(* The files always lie where the first pass measured them.                *)
(***************************************************************************)
THEOREM AInvHolds == Spec => []AInv
<1> QED
  BY AInit, AStep, PTL DEF Spec

(***************************************************************************)
(* translate_assets never writes outside the memory it allocated, and when *)
(* the server serves, that memory is filled to the last byte and holds     *)
(* every file of every language: for any translations and any files that   *)
(* end with a byte that is in no key.                                      *)
(***************************************************************************)
THEOREM InBoundsCorrect == Spec => []InBounds
<1>1. AInv => InBounds
  <2> SUFFICES ASSUME AInv PROVE InBounds
    OBVIOUS
  <2>1. CASE pc = "translating"
    <3>1. Disk /\ Translating
      BY <2>1 DEF AInv
    <3>2. PICK i \in Langs, j \in Files : at = <<i, j>>
      BY <3>1 DEF Translating
    <3>3. at[1] = i /\ at[2] = j
      BY <3>2
    <3>4. /\ Until(i) \in Nat /\ Until(i - 1) \in Nat
          /\ Until(i) = Until(i - 1) + Need(i, 1) + Need(i, 2)
          /\ Until(i) <= Until(Len(translations))
      BY <3>1, Sums
    <3>5. Need(i, 1) \in Nat /\ Need(i, 2) \in Nat
      BY <3>1, NeedWritten DEF Files
    <3>6. /\ Until(Len(translations)) \in Nat
          /\ allocated = Until(Len(translations)) /\ Len(translated) = Due
      <4>1. Len(translations) \in Langs
        BY ConstantTexts
      <4> QED
        BY <3>1, <4>1, Sums DEF Translating
    <3>7. Due = Until(i - 1) + IF j = 1 THEN 0 ELSE Need(i, 1)
      BY <3>3 DEF Due
    <3>8. Len(translated) <= allocated
      BY <3>4, <3>5, <3>6, <3>7
    <3> QED
      BY <2>1, <3>8 DEF InBounds
  <2>2. CASE pc \in {"marks", "serving"}
    <3>1. Complete /\ translated \in Seq(Char)
      BY <2>2 DEF AInv
    <3>2. Len(translated) \in Nat
      BY <3>1
    <3> QED
      BY <2>2, <3>1, <3>2 DEF InBounds, Complete, Done
  <2>3. CASE pc \in {"load", "copy", "translate", "failed"}
    BY <2>3 DEF InBounds
  <2> QED
    BY <2>1, <2>2, <2>3 DEF AInv
<1> QED
  BY <1>1, AInvHolds, PTL

(***************************************************************************)
(* find_16, which looks at two marks' bytes at once, finds the first whole *)
(* mark of every page and nothing outside it, whatever the page holds and  *)
(* wherever it lies.                                                       *)
(***************************************************************************)
THEOREM MarksFoundCorrect == Spec => []MarksFound
<1>1. AInv => MarksFound
  <2> SUFFICES ASSUME AInv, pc = "marks" PROVE MarksFound
    BY DEF MarksFound
  <2>1. ASSUME NEW i \in Langs, NEW ch \in {UPTIME_CH, VERSION_CH}
        PROVE  LET a == assets[i][1]
                   whole == {p \in a.data..(a.data + a.size - 1) :
                               /\ p + REPLACE_SIZE <= a.data + a.size
                               /\ \A k \in 0..(REPLACE_SIZE - 1) :
                                    Byte(translated, p + k) = ch}
               IN  find_16(translated, a, ch) = Least(whole)
    <3> DEFINE b == assets[i][1]
    <3>1. b.data \in Nat /\ b.size \in Nat
      BY DEF AInv, Complete, Done, Files
    <3> HIDE DEF b
    <3>2. find_16(translated, b, ch) =
                 Least({p \in b.data..(b.data + b.size - 1) :
                          /\ p + REPLACE_SIZE <= b.data + b.size
                          /\ \A k \in 0..(REPLACE_SIZE - 1) :
                               Byte(translated, p + k) = ch})
      BY <3>1, SearchFinds
    <3> QED
      BY <3>2, Zenon DEF b
  <2> QED
    BY <2>1, Zenon DEF MarksFound
<1> QED
  BY <1>1, AInvHolds, PTL

-----------------------------------------------------------------------------
(* The bytes of the file are those of the text c. *)
HasText(m, a, c) ==
  /\ c \in Seq(Char) /\ a.size = Len(c)
  /\ \A o \in 1..Len(c) : m[a.data + o] = c[o]

(* A byte of the file is a byte of the text. *)
LEMMA TextBytes ==
  ASSUME NEW m, NEW a, NEW entries, FileIn(m, a, entries),
         NEW c, HasText(m, a, c), NEW o \in 0..(Len(c) - 1)
  PROVE  Byte(m, a.data + o) = c[o + 1] /\ Byte(c, o) = c[o + 1]
<1>1. /\ Len(c) \in Nat /\ a.data \in Nat /\ Len(m) \in Nat
      /\ a.data + Len(c) <= Len(m)
  BY DEF FileIn, HasText
<1>2. a.data + o < Len(m) /\ (a.data + o) + 1 = a.data + (o + 1)
      /\ o + 1 \in 1..Len(c) /\ o < Len(c)
  BY <1>1
<1>3. m[a.data + (o + 1)] = c[o + 1]
  BY <1>2 DEF HasText
<1> QED
  BY <1>2, <1>3 DEF Byte

(* Where the text has no key, none is found. *)
LEMMA NoKeyFound ==
  ASSUME NEW m, NEW a, NEW entries, FileIn(m, a, entries),
         NEW c, HasText(m, a, c), NEW o \in 0..(Len(c) - 1),
         \A e \in DOMAIN entries :
           Bytes(c, o, Len(entries[e].key)) # entries[e].key
  PROVE  Match(m, a.data + o, entries) = 0
<1> DEFINE p == a.data + o
           e == Match(m, p, entries)
           n == Len(entries[e].key)
<1>1. SUFFICES ASSUME e # 0 PROVE FALSE
  OBVIOUS
<1>2. /\ Len(c) \in Nat /\ a.data \in Nat /\ a.size = Len(c)
      /\ p \in 0..((a.data + a.size) - 1)
      /\ entries \in Entries
  BY DEF FileIn, HasText
<1>3. /\ e \in 1..Len(entries)
      /\ p + n < a.data + a.size /\ Bytes(m, p, n) = entries[e].key
  <2> HIDE DEF p
  <2> QED
    BY <1>1, <1>2, Progress, Zenon
<1> HIDE DEF e
<1>4. DOMAIN entries = 1..Len(entries) /\ n \in Nat
  <2> DEFINE R == [key : Seq(Char), value : Seq(Char)]
  <2>1. DOMAIN entries = 1..Len(entries) /\ entries[e] \in R
    <3>1. entries \in Seq(R)
      BY <1>2 DEF Entries
    <3> HIDE DEF R
    <3> QED
      BY <1>3, <3>1
  <2>2. entries[e].key \in Seq(Char)
    BY <2>1
  <2> QED
    BY <2>1, <2>2
<1> HIDE DEF n
<1>5. ASSUME NEW k \in 1..n PROVE Byte(m, p + k - 1) = Byte(c, o + k - 1)
  <2> DEFINE q == o + k - 1
  <2>1. q \in 0..(Len(c) - 1) /\ a.data + q = p + k - 1
    BY <1>2, <1>3, <1>4
  <2> HIDE DEF q
  <2>2. Byte(m, a.data + q) = c[q + 1] /\ Byte(c, q) = c[q + 1]
    BY <2>1, TextBytes
  <2> QED
    BY <2>1, <2>2 DEF q
<1>6. Bytes(m, p, n) = Bytes(c, o, n)
  BY <1>5, Zenon DEF Bytes
<1> QED
  BY <1>3, <1>4, <1>6 DEF n

(* The keys of a language are @name@ and differ. *)
GoodKeys(entries) ==
  /\ \A e \in DOMAIN entries :
       /\ Len(entries[e].key) >= 2
       /\ \A k \in DOMAIN entries[e].key :
            entries[e].key[k] = "@" <=> k \in {1, Len(entries[e].key)}
  /\ \A e, f \in DOMAIN entries : entries[e].key = entries[f].key => e = f

(* Of two keys at the same place neither is the shorter one. *)
LEMMA NoShorterKey ==
  ASSUME NEW m, NEW p \in Nat, NEW s \in Seq(Char), NEW t \in Seq(Char),
         Bytes(m, p, Len(s)) = s, Bytes(m, p, Len(t)) = t,
         Len(s) >= 2,
         \A k \in DOMAIN s : s[k] = "@" <=> k \in {1, Len(s)},
         \A k \in DOMAIN t : t[k] = "@" <=> k \in {1, Len(t)}
  PROVE  ~(Len(s) < Len(t))
<1>1. SUFFICES ASSUME Len(s) < Len(t) PROVE FALSE
  OBVIOUS
<1> DEFINE l == Len(s)
<1>2. /\ l \in Nat /\ Len(t) \in Nat /\ l \in 1..Len(s) /\ l \in 1..Len(t)
      /\ l # 1 /\ l # Len(t)
      /\ DOMAIN s = 1..Len(s) /\ DOMAIN t = 1..Len(t)
  BY <1>1
<1>3. s[l] = Byte(m, p + l - 1) /\ t[l] = Byte(m, p + l - 1)
  <2>1. Bytes(m, p, Len(s))[l] = Byte(m, p + l - 1)
    BY <1>2, Zenon DEF Bytes
  <2>2. Bytes(m, p, Len(t))[l] = Byte(m, p + l - 1)
    BY <1>2, Zenon DEF Bytes
  <2> QED
    BY <2>1, <2>2
<1>4. s[l] = "@"
  BY <1>2
<1>5. t[l] # "@"
  BY <1>2
<1> QED
  BY <1>3, <1>4, <1>5, Zenon

(* The text c has the key behind its first o bytes. *)
HasKey(c, o, key) ==
  /\ o + Len(key) <= Len(c)
  /\ \A k \in 1..Len(key) : c[o + k] = key[k]

(* Where the text has a key, this one is found. *)
LEMMA KeyFound ==
  ASSUME NEW m, NEW a, NEW entries, FileIn(m, a, entries), GoodKeys(entries),
         NEW c, HasText(m, a, c), NEW o \in 0..(Len(c) - 1),
         NEW e \in DOMAIN entries, HasKey(c, o, entries[e].key)
  PROVE  Match(m, a.data + o, entries) = e
<1> DEFINE p == a.data + o
           n == Len(entries[e].key)
           found == {i \in DOMAIN entries :
                  Bytes(m, p, Len(entries[i].key)) = entries[i].key}
<1>1. /\ Len(c) \in Nat /\ a.data \in Nat /\ p \in Nat /\ entries \in Entries
  BY DEF FileIn, HasText
<1>2. \A i \in DOMAIN entries : entries[i].key \in Seq(Char)
  <2> DEFINE R == [key : Seq(Char), value : Seq(Char)]
  <2>1. \A i \in DOMAIN entries : entries[i] \in R
    <3>1. entries \in Seq(R)
      BY <1>1 DEF Entries
    <3> HIDE DEF R
    <3> QED
      BY <3>1
  <2> QED
    BY <2>1
<1> DEFINE key == entries[e].key
<1>3. /\ key \in Seq(Char) /\ n \in Nat /\ n >= 2
      /\ DOMAIN key = 1..n /\ key[1] = "@"
  <2>1. key \in Seq(Char)
    BY <1>2
  <2>2. n \in Nat /\ DOMAIN key = 1..n
    BY <2>1
  <2>3. n >= 2
    BY DEF GoodKeys
  <2>4. 1 \in DOMAIN key
    BY <2>2, <2>3
  <2>5. key[1] = "@"
    BY <2>4, Zenon DEF GoodKeys
  <2> QED
    BY <2>1, <2>2, <2>3, <2>5
<1>4. ASSUME NEW k \in 1..n PROVE Byte(m, p + k - 1) = key[k]
  <2> DEFINE q == o + k - 1
  <2>1. /\ q \in 0..(Len(c) - 1) /\ a.data + q = p + k - 1
        /\ q + 1 = o + k
    <3> DEFINE z == Len(c)
               d == a.data
    <3>1. o + n <= z /\ z \in Nat /\ d \in Nat /\ n \in Nat
          /\ o \in 0..(z - 1) /\ k \in 1..n
      BY <1>1, <1>3 DEF HasKey
    <3> HIDE DEF key, n, z, d
    <3>2. q \in 0..(z - 1) /\ d + q = (d + o) + k - 1 /\ q + 1 = o + k
      BY <3>1
    <3> QED
      BY <3>2 DEF z, d
  <2> HIDE DEF q
  <2>2. Byte(m, a.data + q) = c[q + 1]
    BY <2>1, TextBytes
  <2>3. c[o + k] = key[k]
    BY DEF HasKey
  <2> QED
    BY <2>1, <2>2, <2>3
<1>5. Bytes(m, p, n) = key
  <2>1. key = [k \in 1..n |-> key[k]]
    <3> HIDE DEF key, n
    <3> QED
      BY <1>3
  <2>2. Bytes(m, p, n) = [k \in 1..n |-> Byte(m, p + k - 1)]
    BY DEF Bytes
  <2> HIDE DEF key, p, n
  <2> QED
    BY <1>4, <2>1, <2>2, Zenon
<1>6. Byte(m, p) = "@"
  <2>1. 1 \in 1..n /\ p + 1 - 1 = p
    BY <1>1, <1>3
  <2> HIDE DEF p, key, n
  <2> QED
    BY <1>3, <1>4, <2>1
<1>7. found = {e}
  <2>1. e \in found
    BY <1>5
  <2>2. ASSUME NEW f \in found PROVE f = e
    <3> DEFINE s == entries[f].key
    <3>1. f \in DOMAIN entries /\ Bytes(m, p, Len(s)) = s /\ s \in Seq(Char)
      BY <1>2
    <3>2. /\ Len(s) >= 2 /\ n >= 2
          /\ \A k \in DOMAIN s : s[k] = "@" <=> k \in {1, Len(s)}
          /\ \A k \in DOMAIN key : key[k] = "@" <=> k \in {1, n}
      BY <3>1, Zenon DEF GoodKeys
    <3>3. ~(Len(s) < n) /\ ~(n < Len(s))
      <4> HIDE DEF s, key, p
      <4>1. n = Len(key)
        BY DEF key
      <4> HIDE DEF n
      <4>2. ~(Len(s) < Len(key))
        BY <1>1, <1>3, <1>5, <3>1, <3>2, <4>1, NoShorterKey
      <4>3. ~(Len(key) < Len(s))
        BY <1>1, <1>3, <1>5, <3>1, <3>2, <4>1, NoShorterKey
      <4> QED
        BY <4>1, <4>2, <4>3
    <3>4. Len(s) \in Nat
      BY <3>1
    <3>5. Len(s) = n
      BY <1>3, <3>3, <3>4
    <3>6. s = key
      BY <1>5, <3>1, <3>5
    <3> QED
      BY <3>1, <3>6, Zenon DEF GoodKeys
  <2> HIDE DEF found
  <2> QED
    BY <2>1, <2>2
<1>8. Match(m, p, entries) = CHOOSE i \in found : \A j \in found : i <= j
  <2>1. found # {}
    BY <1>7
  <2> QED
    BY <1>6, <2>1, Zenon DEF Match
<1>9. e \in Nat
  BY <1>1 DEF Entries
<1> HIDE DEF found, p
<1>10. (CHOOSE i \in found : \A j \in found : i <= j) = e
  <2>1. e \in found /\ \A j \in found : e <= j
    BY <1>7, <1>9
  <2> DEFINE x == CHOOSE i \in found : \A j \in found : i <= j
  <2>2. x \in found
    BY <2>1, Zenon
  <2>3. x = e
    <3> HIDE DEF x
    <3> QED
      BY <1>7, <2>2
  <2> QED
    BY <2>3
<1> QED
  BY <1>8, <1>10 DEF p

(* The text is a key of the language. *)
IsKey(t, entries) == \E e \in DOMAIN entries : entries[e].key = t

(* The file consists of the n pieces g: keys, none right behind another and *)
(* none at the end, and texts, inside which no key begins.                  *)
CutInto(g, n, h, m, a, entries) ==
  /\ FileIn(m, a, entries) /\ GoodKeys(entries)
  /\ n \in Nat \ {0}
  /\ \A k \in 1..n : g[k] \in Seq(Char) /\ Len(g[k]) >= 1
  /\ Joins(h, g, n) /\ HasText(m, a, h[n])
  /\ \A k \in 1..n : ~IsKey(g[k], entries) =>
       \A o \in 0..(Len(g[k]) - 1) : \A e \in DOMAIN entries :
         Bytes(h[n], Len(h[k - 1]) + o, Len(entries[e].key)) # entries[e].key
  /\ ~IsKey(g[n], entries)
  /\ \A k \in 1..(n - 1) : IsKey(g[k], entries) => ~IsKey(g[k + 1], entries)

(* Where a piece lies in the file. *)
LEMMA PieceAt ==
  ASSUME NEW g, NEW n, NEW h, NEW m, NEW a, NEW entries,
         CutInto(g, n, h, m, a, entries), NEW k \in 1..n
  PROVE  /\ Lies(h, g, n, k) /\ g[k] \in Seq(Char) /\ Len(g[k]) >= 1
         /\ a.data \in Nat /\ a.size = Len(h[n]) /\ n \in Nat
<1>1. /\ n \in Nat /\ Joins(h, g, n) /\ \A l \in 1..n : g[l] \in Seq(Char)
      /\ a.data \in Nat /\ a.size = Len(h[n]) /\ Len(g[k]) >= 1
  BY DEF CutInto, FileIn, HasText
<1>2. Lies(h, g, n, k)
  BY <1>1, JoinAt, Zenon
<1> QED
  BY <1>1, <1>2

(* Every byte of the text t at p is written, and then what follows. *)
CopiesBytes(out, p, t) ==
  \A o \in 0..(Len(t) - 1) :
    out[p + o] = <<t[o + 1]>> \o out[p + (o + 1)]

(* A byte of a text is copied. *)
LEMMA ScanByte ==
  ASSUME NEW g, NEW n, NEW h, NEW m, NEW a, NEW entries, NEW out,
         CutInto(g, n, h, m, a, entries), Scans(out, m, a, entries),
         NEW k \in 1..n, ~IsKey(g[k], entries)
  PROVE  CopiesBytes(out, a.data + Len(h[k - 1]), g[k])
<1>0. SUFFICES ASSUME NEW o \in 0..(Len(g[k]) - 1)
               PROVE  out[(a.data + Len(h[k - 1])) + o]
                        = <<g[k][o + 1]>>
                          \o out[(a.data + Len(h[k - 1])) + (o + 1)]
  BY DEF CopiesBytes
<1> DEFINE c == h[n]
           b == Len(h[k - 1])
           t == g[k]
           l == Len(t)
           d == a.data
           q == b + o
           p == d + q
<1>1. Lies(h, g, n, k) /\ d \in Nat /\ a.size = Len(c)
  BY PieceAt, Zenon
<1>2. /\ b \in Nat /\ l \in Nat /\ b + l <= Len(c) /\ Len(c) \in Nat
      /\ \A x \in 1..l : c[b + x] = t[x]
  BY <1>1 DEF Lies
<1>3. FileIn(m, a, entries) /\ HasText(m, a, c)
      /\ \A e \in DOMAIN entries :
           Bytes(c, q, Len(entries[e].key)) # entries[e].key
  BY DEF CutInto
<1>4. o \in 0..(l - 1)
  OBVIOUS
<1>5. Scans(out, m, a, entries)
  OBVIOUS
<1> HIDE DEF c, b, t, l, d
<1>6. /\ q \in 0..(Len(c) - 1) /\ p \in 0..(d + a.size)
      /\ ~(p >= d + a.size) /\ q + 1 = b + (o + 1)
      /\ o + 1 \in 1..l /\ p + 1 = d + (q + 1)
  BY <1>1, <1>2, <1>4
<1>7. c[q + 1] = t[o + 1]
  BY <1>2, <1>6
<1> HIDE DEF q
<1>8. Match(m, p, entries) = 0
  BY <1>6, <1>3, NoKeyFound DEF d
<1>9. Byte(m, p) = c[q + 1]
  BY <1>6, <1>3, TextBytes DEF d
<1>10. Emits(m, p, entries) = <<t[o + 1]>>
  BY <1>7, <1>8, <1>9 DEF Emits
<1>11. After(p, Match(m, p, entries), entries) = d + (q + 1)
  BY <1>6, <1>8 DEF After
<1>12. out[p] = Emits(m, p, entries)
               \o out[After(p, Match(m, p, entries), entries)]
  <2> HIDE DEF p
  <2> QED
    BY <1>5, <1>6, Zenon DEF Scans, d
<1>13. out[p] = <<t[o + 1]>> \o out[d + (q + 1)]
  BY <1>10, <1>11, <1>12, Zenon
<1>14. p = (d + b) + o /\ d + (q + 1) = (d + b) + (o + 1)
  BY <1>1, <1>2, <1>4 DEF q
<1>15. out[(d + b) + o] = <<t[o + 1]>> \o out[(d + b) + (o + 1)]
  BY <1>13, <1>14, Zenon
<1> QED
  BY <1>15, Zenon DEF d, b, t

(* Laying texts end to end is associative. *)
LEMMA JoinTexts ==
  ASSUME NEW s \in Seq(Char), NEW t \in Seq(Char), NEW u \in Seq(Char)
  PROVE  (s \o t) \o u = s \o (t \o u)
<1> DEFINE S == Char
<1>1. s \in Seq(S) /\ t \in Seq(S) /\ u \in Seq(S)
  OBVIOUS
<1> HIDE DEF S
<1> QED
  BY <1>1, ConcatAssociative

(* From any byte of a text on, the rest of the text is copied. *)
CopiesRest(out, p, t, q) ==
  \A o \in 0..Len(t) : out[p + o] = SubSeq(t, o + 1, Len(t)) \o out[q]

(* Not only the next byte of a text is copied, but all that are left. *)
LEMMA ScanText ==
  ASSUME NEW g, NEW n, NEW h, NEW m, NEW a, NEW entries, NEW out,
         CutInto(g, n, h, m, a, entries), Scans(out, m, a, entries),
         NEW k \in 1..n, ~IsKey(g[k], entries)
  PROVE  CopiesRest(out, a.data + Len(h[k - 1]), g[k], a.data + Len(h[k]))
<1> DEFINE t == g[k]
           l == Len(t)
           b == Len(h[k - 1])
           c == Len(h[k])
           d == a.data
           z == Len(h[n])
           p == d + b
           at_(o) == p + o
           rest == out[d + c]
           Right(o) == out[at_(o)] = SubSeq(t, o + 1, l) \o rest
           Wrong == {o \in 0..l : ~Right(o)}
<1>1. Lies(h, g, n, k) /\ t \in Seq(Char) /\ d \in Nat /\ a.size = z
  BY PieceAt, Zenon
<1>2. b \in Nat /\ l \in Nat /\ c \in Nat /\ z \in Nat /\ c = b + l /\ c <= z
  BY <1>1 DEF Lies
<1>3. ASSUME NEW o \in 0..(l - 1)
      PROVE  out[at_(o)] = <<t[o + 1]>> \o out[at_(o + 1)]
  <2>1. CopiesBytes(out, p, t)
    BY ScanByte, Zenon
  <2> QED
    BY <2>1, Zenon DEF CopiesBytes
<1>4. Scans(out, m, a, entries)
  OBVIOUS
<1>5. \A o \in 0..l : out[at_(o)] \in Seq(Char)
  <2> HIDE DEF l, b, c, z, t
  <2>1. \A o \in 0..l : at_(o) \in 0..(d + a.size)
    <3> HIDE DEF d
    <3> QED
      BY <1>1, <1>2
  <2> QED
    BY <1>4, <2>1 DEF Scans
<1>6. SUFFICES ASSUME Wrong # {} PROVE FALSE
  BY DEF CopiesRest
<1> HIDE DEF t, b, c, z, d
<1>7. l \in 0..l /\ at_(l) = d + c
  <2> HIDE DEF l
  <2> QED
    BY <1>1, <1>2
<1>8. rest \in Seq(Char)
  BY <1>5, <1>7
<1>9. PICK o \in Wrong : \A x \in Wrong : x <= o
  <2>1. Wrong \subseteq 0..l
    OBVIOUS
  <2> HIDE DEF Wrong, l
  <2> QED
    BY <1>2, <1>6, <2>1, GreatestExists
<1>10. o \in 0..l /\ ~Right(o)
  BY <1>9
<1>11. CASE o = l
  <2>1. SubSeq(t, l + 1, l) = <<>>
    BY <1>1, <1>2
  <2>2. <<>> \o rest = rest
    <3> HIDE DEF rest
    <3> QED
      BY <1>8
  <2>3. out[at_(l)] = rest
    BY <1>7, Zenon
  <2> HIDE DEF rest, l, at_
  <2> QED
    BY <1>10, <1>11, <2>1, <2>2, <2>3, Zenon
<1>12. CASE o # l
  <2>1. o \in 0..(l - 1) /\ o + 1 \in 0..l /\ ~(o + 1 <= o) /\ o + 1 \in 1..l
    <3> HIDE DEF l
    <3> QED
      BY <1>2, <1>10, <1>12
  <2>2. Right(o + 1)
    <3> HIDE DEF Right
    <3> QED
      BY <1>9, <2>1
  <2> DEFINE x == <<t[o + 1]>>
             y == SubSeq(t, (o + 1) + 1, l)
  <2>3. x \in Seq(Char) /\ y \in Seq(Char)
    <3>1. t[o + 1] \in Char
      BY <1>1, <2>1
    <3>2. y \in Seq(Char)
      BY <1>1, <2>1
    <3> QED
      BY <3>1, <3>2
  <2>4. x \o y = SubSeq(t, o + 1, l)
    <3>1. SubSeq(t, o + 1, o + 1) = x
      <4> DEFINE i == o + 1
      <4>1. i \in 1..Len(t)
        BY <2>1
      <4>2. t \in Seq(Char)
        BY <1>1
      <4> HIDE DEF i
      <4> DEFINE u == SubSeq(t, i, i)
      <4>3. /\ u \in Seq(Char) /\ Len(u) = 1 /\ u[1] = t[i]
            /\ t[i] \in Char
        BY <4>1, <4>2
      <4> HIDE DEF u
      <4>4. u = <<t[i]>>
        BY <4>3
      <4> QED
        BY <4>4 DEF i, u
    <3>2. /\ o + 1 \in 1..(Len(t) + 1) /\ o + 1 \in ((o + 1) - 1)..Len(t)
          /\ l \in (o + 1)..Len(t)
      BY <1>2, <2>1
    <3>3. SubSeq(t, o + 1, o + 1) \o SubSeq(t, (o + 1) + 1, l)
            = SubSeq(t, o + 1, l)
      <4> HIDE DEF l
      <4> QED
        BY <1>1, <3>2, ConcatAdjacentSubSeq
    <3> QED
      BY <3>1, <3>3
  <2>5. out[at_(o)] = x \o (y \o rest)
    <3>1. out[at_(o)] = x \o out[at_(o + 1)]
      BY <1>3, <2>1, Zenon
    <3>2. out[at_(o + 1)] = y \o rest
      BY <2>2, Zenon
    <3> QED
      BY <3>1, <3>2, Zenon
  <2>6. (x \o y) \o rest = x \o (y \o rest)
    <3> HIDE DEF x, y, rest
    <3> QED
      BY <1>8, <2>3, JoinTexts
  <2>7. Right(o)
    <3> HIDE DEF x, y, rest, l, at_
    <3> QED
      BY <2>4, <2>5, <2>6, Zenon
  <2> QED
    BY <1>10, <2>7
<1> QED
  BY <1>11, <1>12

(* From p on, t is written and then what is written from q on. *)
Writes(out, p, t, q) == out[p] = t \o out[q]

(* A key is replaced, and the byte after it, the next piece's, is copied. *)
LEMMA ScanKey ==
  ASSUME NEW g, NEW n, NEW h, NEW m, NEW a, NEW entries, NEW out,
         CutInto(g, n, h, m, a, entries), Scans(out, m, a, entries),
         NEW k \in 1..n, NEW e \in DOMAIN entries, entries[e].key = g[k]
  PROVE  /\ k + 1 \in 1..n
         /\ Writes(out, a.data + Len(h[k - 1]),
                   Append(entries[e].value, g[k + 1][1]),
                   (a.data + Len(h[k])) + 1)
<1> DEFINE c == h[n]
           b == Len(h[k - 1])
           r == Len(h[k])
           t == g[k]
           l == Len(t)
           u == g[k + 1]
           v == Len(u)
           d == a.data
           p == d + b
<1>1. Lies(h, g, n, k) /\ d \in Nat /\ a.size = Len(c) /\ n \in Nat
  BY PieceAt, Zenon
<1>2. k + 1 \in 1..n
  <2>1. IsKey(g[k], entries) /\ ~IsKey(g[n], entries)
    BY DEF IsKey, CutInto
  <2>2. k # n
    BY <2>1
  <2> QED
    BY <1>1, <2>2
<1>3. Lies(h, g, n, k + 1) /\ Len(u) >= 1
  BY <1>2, PieceAt, Zenon
<1>4. /\ b \in Nat /\ l \in Nat /\ r \in Nat /\ r = b + l
      /\ Len(c) \in Nat
      /\ \A x \in 1..l : c[b + x] = t[x]
  BY <1>1 DEF Lies
<1>5. /\ v \in Nat /\ v >= 1 /\ r + v <= Len(c)
      /\ \A x \in 1..v : c[r + x] = u[x]
  <2>1. (k + 1) - 1 = k
    BY <1>1
  <2>2. /\ Len(h[(k + 1) - 1]) = r
        /\ Len(u) \in Nat /\ Len(h[k + 1]) = Len(h[(k + 1) - 1]) + Len(u)
        /\ Len(h[k + 1]) <= Len(h[n])
        /\ \A x \in 1..Len(u) : c[Len(h[(k + 1) - 1]) + x] = u[x]
    BY <1>3, <2>1 DEF Lies
  <2> QED
    BY <1>3, <2>2
<1>6. FileIn(m, a, entries) /\ HasText(m, a, c) /\ GoodKeys(entries)
  BY DEF CutInto
<1>7. Scans(out, m, a, entries) /\ entries[e].key = t
  OBVIOUS
<1> DEFINE value == entries[e].value
<1> HIDE DEF c, b, r, t, l, u, v, d
<1>8. /\ b \in 0..(Len(c) - 1) /\ b + l <= Len(c)
      /\ p \in 0..(d + a.size) /\ ~(p >= d + a.size)
      /\ r \in 0..(Len(c) - 1) /\ p + l = d + r /\ 1 \in 1..v
      /\ p + l + 1 = (d + r) + 1
  BY <1>1, <1>4, <1>5
<1>9. Match(m, a.data + b, entries) = e
  <2>1. b + Len(entries[e].key) <= Len(c)
    BY <1>7, <1>8 DEF l
  <2>2. \A x \in 1..Len(entries[e].key) : c[b + x] = entries[e].key[x]
    BY <1>4, <1>7, Zenon DEF l
  <2>3. HasKey(c, b, entries[e].key)
    BY <2>1, <2>2, Zenon DEF HasKey
  <2> QED
    BY <1>6, <1>8, <2>3, KeyFound
<1>10. Match(m, p, entries) = e
  BY <1>9 DEF d
<1>11. Byte(m, p + l) = u[1]
  <2>1. Byte(m, a.data + r) = c[r + 1]
    BY <1>6, <1>8, TextBytes
  <2>2. c[r + 1] = u[1]
    BY <1>5, <1>8
  <2> QED
    BY <1>8, <2>1, <2>2 DEF d
<1>12. e # 0
  <2>1. entries \in Entries
    BY <1>6 DEF FileIn
  <2> QED
    BY <2>1 DEF Entries
<1> HIDE DEF p
<1>13. Emits(m, p, entries) = Append(value, u[1])
  <2>1. Len(entries[e].key) = l
    BY <1>7 DEF l
  <2> QED
    BY <1>10, <1>11, <1>12, <2>1, Zenon DEF Emits
<1>14. After(p, Match(m, p, entries), entries) = (d + r) + 1
  <2>1. Len(entries[e].key) = l
    BY <1>7 DEF l
  <2> QED
    BY <1>8, <1>10, <1>12, <2>1, Zenon DEF After
<1>15. out[p] = Emits(m, p, entries)
               \o out[After(p, Match(m, p, entries), entries)]
  BY <1>7, <1>8, Zenon DEF Scans, d
<1>16. out[p] = Append(value, u[1]) \o out[(d + r) + 1]
  BY <1>13, <1>14, <1>15, Zenon
<1> QED
  BY <1>2, <1>16, Zenon DEF p, d, b, r, u, Writes

(* What the pieces g become: a text stays, a key becomes its value. *)
Replaced(g, n, v, entries) ==
  \A k \in 1..n :
    /\ v[k] \in Seq(Char)
    /\ ~IsKey(g[k], entries) => v[k] = g[k]
    /\ \A e \in DOMAIN entries :
         entries[e].key = g[k] => v[k] = entries[e].value

(* What is written from a text on is its first byte and what follows. *)
LEMMA ScanFirst ==
  ASSUME NEW g, NEW n, NEW h, NEW m, NEW a, NEW entries, NEW out,
         CutInto(g, n, h, m, a, entries), Scans(out, m, a, entries),
         NEW k \in 1..n, ~IsKey(g[k], entries)
  PROVE  Writes(out, a.data + Len(h[k - 1]), <<g[k][1]>>,
                (a.data + Len(h[k - 1])) + 1)
<1> DEFINE p == a.data + Len(h[k - 1])
           t == g[k]
<1>1. CopiesBytes(out, p, t)
  BY ScanByte, Zenon
<1>2. Lies(h, g, n, k) /\ Len(t) >= 1 /\ a.data \in Nat
  BY PieceAt, Zenon
<1>3. Len(t) \in Nat /\ Len(h[k - 1]) \in Nat
  BY <1>2 DEF Lies
<1>4. p \in Nat
  BY <1>2, <1>3
<1> HIDE DEF p, t
<1>5. 0 \in 0..(Len(t) - 1) /\ p + 0 = p /\ 0 + 1 = 1
  BY <1>2, <1>3, <1>4
<1>6. out[p + 0] = <<t[0 + 1]>> \o out[p + (0 + 1)]
  BY <1>1, <1>5, Zenon DEF CopiesBytes
<1>7. out[p] = <<t[1]>> \o out[p + 1]
  BY <1>5, <1>6
<1> QED
  BY <1>7, Zenon DEF p, t, Writes

(* A piece is written as what it becomes, and then what follows. *)
LEMMA ScanPiece ==
  ASSUME NEW g, NEW n, NEW h, NEW m, NEW a, NEW entries, NEW out, NEW v,
         CutInto(g, n, h, m, a, entries), Scans(out, m, a, entries),
         Replaced(g, n, v, entries), NEW k \in 1..n
  PROVE  Writes(out, a.data + Len(h[k - 1]), v[k], a.data + Len(h[k]))
<1>1. Lies(h, g, n, k) /\ a.data \in Nat /\ a.size = Len(h[n]) /\ n \in Nat
      /\ g[k] \in Seq(Char)
  BY PieceAt, Zenon
<1>2. CASE ~IsKey(g[k], entries)
  <2> DEFINE p == a.data + Len(h[k - 1])
             t == g[k]
             l == Len(t)
             rest == out[a.data + Len(h[k])]
  <2>1. v[k] = t
    BY <1>2 DEF Replaced
  <2>2. \A o \in 0..l : out[p + o] = SubSeq(t, o + 1, l) \o rest
    <3>1. CopiesRest(out, p, t, a.data + Len(h[k]))
      BY <1>2, ScanText, Zenon
    <3> QED
      BY <3>1, Zenon DEF CopiesRest
  <2>3. l \in Nat /\ p \in Nat /\ t \in Seq(Char)
    BY <1>1 DEF Lies
  <2> HIDE DEF p, rest, t
  <2>4. 0 \in 0..l /\ p + 0 = p /\ 0 + 1 = 1
    BY <2>3
  <2>5. out[p + 0] = SubSeq(t, 0 + 1, l) \o rest
    BY <2>2, <2>4, Zenon
  <2>6. SubSeq(t, 1, l) = t
    BY <2>3
  <2>7. out[p] = t \o rest
    BY <2>4, <2>5, <2>6
  <2> QED
    BY <2>1, <2>7, Zenon DEF p, rest, Writes
<1>3. CASE IsKey(g[k], entries)
  <2>1. PICK e \in DOMAIN entries : entries[e].key = g[k]
    BY <1>3 DEF IsKey
  <2> DEFINE value == entries[e].value
             q == a.data + Len(h[k])
             x == g[k + 1][1]
  <2>2. v[k] = value /\ value \in Seq(Char)
    BY <2>1 DEF Replaced
  <2>3. /\ k + 1 \in 1..n
        /\ out[a.data + Len(h[k - 1])] = Append(value, x) \o out[q + 1]
    <3>1. /\ k + 1 \in 1..n
          /\ Writes(out, a.data + Len(h[k - 1]), Append(value, x), q + 1)
      BY <2>1, ScanKey, Zenon
    <3> QED
      BY <3>1, Zenon DEF Writes
  <2>4. (k + 1) - 1 = k /\ k \in 1..(n - 1)
    BY <1>1, <2>3
  <2>5. ~IsKey(g[k + 1], entries)
    BY <1>3, <2>4 DEF CutInto
  <2>6. out[a.data + Len(h[(k + 1) - 1])]
          = <<x>> \o out[(a.data + Len(h[(k + 1) - 1])) + 1]
    <3>1. Writes(out, a.data + Len(h[(k + 1) - 1]), <<x>>,
                 (a.data + Len(h[(k + 1) - 1])) + 1)
      BY <2>3, <2>5, ScanFirst, Zenon
    <3> QED
      BY <3>1, Zenon DEF Writes
  <2>7. out[q] = <<x>> \o out[q + 1]
    BY <2>4, <2>6
  <2>8. Lies(h, g, n, k + 1) /\ g[k + 1] \in Seq(Char) /\ Len(g[k + 1]) >= 1
    BY <2>3, PieceAt, Zenon
  <2>9. x \in Char
    <3> DEFINE u == g[k + 1]
    <3> HIDE DEF u
    <3>1. u \in Seq(Char) /\ Len(u) >= 1
      BY <2>8 DEF u
    <3>2. 1 \in 1..Len(u)
      BY <3>1
    <3>3. u[1] \in Char
      BY <3>1, <3>2
    <3> QED
      BY <3>3 DEF u
  <2>10. out[q + 1] \in Seq(Char)
    <3> DEFINE b == Len(h[k])
               z == Len(h[n])
    <3>1. b \in Nat /\ z \in Nat /\ b + Len(g[k + 1]) <= z
          /\ Len(g[k + 1]) \in Nat
      BY <2>4, <2>8 DEF Lies
    <3> HIDE DEF b, z
    <3>2. (a.data + b) + 1 \in 0..(a.data + a.size)
      <4>1. a.size = z
        BY <1>1 DEF z
      <4> DEFINE d == a.data
                 l == Len(g[k + 1])
      <4>2. d \in Nat /\ l \in Nat /\ l >= 1 /\ b + l <= z
        BY <1>1, <2>8, <3>1
      <4> HIDE DEF d, l
      <4>3. (d + b) + 1 \in 0..(d + z)
        BY <3>1, <4>2
      <4> QED
        BY <4>1, <4>3 DEF d
    <3> QED
      BY <3>2 DEF Scans, b
  <2> DEFINE s == out[q + 1]
             y == <<x>>
  <2>11. y \in Seq(Char) /\ Append(value, x) = value \o y
    <3> HIDE DEF value, x
    <3>1. y \in Seq(Char)
      BY <2>9
    <3> QED
      BY <2>2, <2>9, <3>1, AppendIsConcat
  <2>12. (value \o y) \o s = value \o (y \o s)
    <3> HIDE DEF value, y, s
    <3> QED
      BY <2>2, <2>10, <2>11, JoinTexts DEF s
  <2> HIDE DEF value, q, x
  <2>13. out[a.data + Len(h[k - 1])] = value \o out[q]
    BY <2>3, <2>7, <2>11, <2>12, Zenon
  <2> QED
    BY <2>2, <2>13, Zenon DEF q, Writes
<1> QED
  BY <1>2, <1>3

(***************************************************************************)
(* A file none of whose keys is right behind another is written with every *)
(* key replaced by its value and everything else as it was.                *)
(***************************************************************************)
LEMMA ScanTranslates ==
  ASSUME NEW g, NEW n, NEW h, NEW m, NEW a, NEW entries, NEW out, NEW v,
         NEW w,
         CutInto(g, n, h, m, a, entries), Scans(out, m, a, entries),
         Replaced(g, n, v, entries), Joins(w, v, n)
  PROVE  out[a.data] = w[n]
<1> DEFINE F(k) == out[a.data + Len(h[k])]
           Right(k) == out[a.data] = w[k] \o F(k)
           Wrong == {k \in 0..n : ~Right(k)}
<1>1. /\ n \in Nat /\ h[0] = <<>> /\ w[0] = <<>> /\ n >= 1
      /\ a.data \in Nat /\ a.size \in Nat /\ a.size = Len(h[n])
  BY DEF CutInto, Joins, HasText, FileIn
<1>2. \A k \in 1..n : F(k - 1) = v[k] \o F(k)
  <2> TAKE k \in 1..n
  <2>1. Writes(out, a.data + Len(h[k - 1]), v[k], a.data + Len(h[k]))
    BY ScanPiece, Zenon
  <2> QED
    BY <2>1, Zenon DEF Writes
<1>3. \A k \in 1..n : v[k] \in Seq(Char)
  BY DEF Replaced
<1>4. \A k \in 0..n : w[k] \in Seq(Char)
  BY DEF Joins
<1>5. \A k \in 1..n : w[k] = w[k - 1] \o v[k]
  BY DEF Joins
<1>6. F(0) = out[a.data] /\ out[a.data] \in Seq(Char)
  <2>1. Len(<<>>) = 0
    OBVIOUS
  <2>2. a.data + Len(h[0]) = a.data
    BY <1>1, <2>1
  <2>3. a.data \in 0..(a.data + a.size)
    BY <1>1
  <2> QED
    BY <2>2, <2>3 DEF Scans
<1>7. \A k \in 1..n : F(k) \in Seq(Char)
  <2> TAKE k \in 1..n
  <2>1. Lies(h, g, n, k)
    BY PieceAt, Zenon
  <2> DEFINE b == Len(h[k])
             z == Len(h[n])
             d == a.data
  <2>2. b \in Nat /\ z \in Nat /\ b <= z /\ d \in Nat /\ a.size = z
    BY <1>1, <2>1 DEF Lies
  <2>3. d + b \in 0..(d + a.size)
    <3> HIDE DEF b, z, d
    <3> QED
      BY <2>2
  <2> QED
    BY <2>3 DEF Scans
<1>8. F(n) = <<>>
  <2>1. /\ a.data + a.size \in 0..(a.data + a.size)
        /\ a.data + a.size >= a.data + a.size
    BY <1>1
  <2>2. out[a.data + a.size] = <<>>
    <3> DEFINE p == a.data + a.size
    <3>1. p \in 0..(a.data + a.size) /\ p >= a.data + a.size
      BY <2>1
    <3> HIDE DEF p
    <3>2. out[p] = <<>>
      BY <3>1, Zenon DEF Scans
    <3> QED
      BY <3>2 DEF p
  <2> QED
    BY <1>1, <2>2
<1>9. Right(n)
  <2>1. SUFFICES ASSUME ~Right(n) PROVE FALSE
    BY Zenon
  <2>2. n \in Wrong
    <3>1. n \in 0..n
      BY <1>1
    <3> QED
      BY <2>1, <3>1, Zenon
  <2>3. PICK k \in Wrong : \A x \in Wrong : k <= x
    <3>1. Wrong \subseteq Nat
      <4> HIDE DEF Right
      <4> QED
        BY <1>1
    <3> HIDE DEF Wrong
    <3> QED
      BY <2>2, <3>1, LeastExists
  <2>4. k \in 0..n /\ ~Right(k)
    BY <2>3
  <2>5. k # 0
    <3>1. <<>> \o out[a.data] = out[a.data]
      BY <1>6
    <3>2. Right(0)
      BY <1>1, <1>6, <3>1
    <3> QED
      BY <2>4, <3>2
  <2>6. k \in 1..n /\ k - 1 \in 0..n /\ ~(k <= k - 1)
    BY <1>1, <2>4, <2>5
  <2>7. Right(k - 1)
    <3> HIDE DEF Right
    <3> QED
      BY <2>3, <2>6
  <2> DEFINE x == w[k - 1]
             y == v[k]
             s == F(k)
  <2>8. x \in Seq(Char) /\ y \in Seq(Char) /\ s \in Seq(Char)
    BY <1>3, <1>4, <1>7, <2>6, Zenon
  <2>9. out[a.data] = x \o (y \o s)
    <3>1. F(k - 1) = y \o s
      BY <1>2, <2>6, Zenon
    <3> QED
      BY <2>7, <3>1, Zenon
  <2>10. w[k] = x \o y
    BY <1>5, <2>6, Zenon
  <2>11. (x \o y) \o s = x \o (y \o s)
    <3> HIDE DEF x, y, s
    <3> QED
      BY <2>8, JoinTexts
  <2>12. Right(k)
    <3> HIDE DEF x, y
    <3> QED
      BY <2>9, <2>10, <2>11, Zenon
  <2> QED
    BY <2>4, <2>12
<1>10. w[n] \o <<>> = w[n]
  <2>1. w[n] \in Seq(Char)
    BY <1>1, <1>4
  <2> QED
    BY <2>1
<1> QED
  BY <1>8, <1>9, <1>10, Zenon

-----------------------------------------------------------------------------
(* The keys are the same in every language, and the tail is none of them. *)
LEMMA LanguageKeys ==
  ASSUME NEW i \in Langs
  PROVE  /\ GoodKeys(translations[i])
         /\ \A t : IsKey(t, translations[i]) <=> t \in Keys
         /\ ~IsKey(Tail_, translations[i])
<1> DEFINE one == translations[1]
           all == translations[i]
           R == [key : Seq(Char), value : Seq(Char)]
<1>1. 1 \in Langs
  BY ConstantTexts
<1>2. one \in Seq(R) /\ all \in Seq(R)
  BY <1>1, ConstantTexts DEF Entries
<1>3. /\ DOMAIN all = 1..Len(all) /\ DOMAIN one = 1..Len(one)
      /\ \A e \in DOMAIN all : all[e] \in R
  <2> HIDE DEF one, all, R
  <2> QED
    BY <1>2
<1>4. Len(all) = Len(one) /\ \A e \in DOMAIN one : all[e].key = one[e].key
  BY KeysConstant, Zenon
<1>5. \A e \in DOMAIN all : all[e].key \in Seq(Char)
  <2> HIDE DEF all
  <2> QED
    BY <1>3
<1>6. DOMAIN all = DOMAIN one
  BY <1>3, <1>4
<1>7. Keys = {one[e].key : e \in DOMAIN one}
  BY DEF Keys
<1>8. /\ \A e, f \in DOMAIN one : one[e].key = one[f].key => e = f
      /\ \A key \in Keys :
           /\ Len(key) >= 2
           /\ \A k \in DOMAIN key : key[k] = "@" <=> k \in {1, Len(key)}
  BY KeysConstant, Zenon
<1>9. \A e \in DOMAIN all : \A k \in DOMAIN all[e].key :
        all[e].key[k] # Tail_[Len(Tail_)]
  BY TailConstant, Zenon
<1> HIDE DEF one, all
<1>10. \A e \in DOMAIN all : all[e].key = one[e].key /\ all[e].key \in Keys
  BY <1>4, <1>6, <1>7
<1>11. GoodKeys(all)
  <2>1. \A e, f \in DOMAIN all : all[e].key = all[f].key => e = f
    BY <1>6, <1>8, <1>10
  <2> QED
    BY <1>8, <1>10, <2>1, Zenon DEF GoodKeys
<1>12. ASSUME NEW t PROVE IsKey(t, all) <=> t \in Keys
  BY <1>6, <1>7, <1>10, Zenon DEF IsKey
<1>13. ~IsKey(Tail_, all)
  <2>1. SUFFICES ASSUME NEW e \in DOMAIN all, all[e].key = Tail_ PROVE FALSE
    BY DEF IsKey
  <2>2. Len(Tail_) \in DOMAIN Tail_
    BY ConstantTexts
  <2> QED
    BY <1>9, <2>1, <2>2, Zenon
<1> QED
  BY <1>11, <1>12, <1>13 DEF all

(* What a piece becomes in a language. *)
LEMMA ValueIs ==
  ASSUME NEW i \in Langs, NEW t \in Seq(Char)
  PROVE  /\ Value(i, t) \in Seq(Char)
         /\ ~IsKey(t, translations[i]) => Value(i, t) = t
         /\ \A e \in DOMAIN translations[i] :
              translations[i][e].key = t
                => Value(i, t) = translations[i][e].value
<1> DEFINE all == translations[i]
           found == {e \in DOMAIN all : all[e].key = t}
           x == CHOOSE e \in found : TRUE
           R == [key : Seq(Char), value : Seq(Char)]
<1>1. Value(i, t) = IF found = {} THEN t ELSE all[x].value
  BY Zenon DEF Value
<1>2. \A e \in DOMAIN all : all[e].value \in Seq(Char)
  <2>1. all \in Seq(R)
    BY ConstantTexts DEF Entries
  <2>2. \A e \in DOMAIN all : all[e] \in R
    <3> HIDE DEF all, R
    <3> QED
      BY <2>1
  <2> HIDE DEF all
  <2> QED
    BY <2>2
<1>3. \A e, f \in DOMAIN all : all[e].key = all[f].key => e = f
  BY LanguageKeys DEF GoodKeys
<1>4. found # {} => x \in found
  BY Zenon
<1>5. IsKey(t, all) <=> found # {}
  BY DEF IsKey
<1> HIDE DEF x, all
<1>6. CASE found = {}
  <2>1. Value(i, t) = t
    BY <1>1, <1>6, Zenon
  <2>2. \A e \in DOMAIN all : all[e].key # t
    BY <1>6
  <2> QED
    BY <2>1, <2>2, Zenon DEF all
<1>7. CASE found # {}
  <2>1. x \in DOMAIN all /\ all[x].key = t
    BY <1>4, <1>7
  <2>2. Value(i, t) = all[x].value
    BY <1>1, <1>7, Zenon
  <2>3. \A e \in DOMAIN all : all[e].key = t => e = x
    BY <1>3, <2>1
  <2>4. /\ Value(i, t) \in Seq(Char) /\ IsKey(t, all)
        /\ \A e \in DOMAIN all : all[e].key = t => Value(i, t) = all[e].value
    BY <1>2, <1>5, <1>7, <2>1, <2>2, <2>3, Zenon
  <2> QED
    BY <2>4, Zenon DEF all
<1> QED
  BY <1>6, <1>7

(* The first k pieces laid end to end. *)
LEMMA FlattenPrefix ==
  ASSUME NEW g \in Seq(Seq(Char)), NEW h, Joins(h, g, Len(g)),
         NEW k \in 0..Len(g)
  PROVE  FlattenSeq(SubSeq(g, 1, k)) = h[k]
<1> DEFINE s == SubSeq(g, 1, k)
<1>1. /\ s \in Seq(Seq(Char)) /\ Len(s) = k /\ Len(g) \in Nat
      /\ \A x \in 1..k : s[x] = g[x]
  OBVIOUS
<1> HIDE DEF s
<1>2. Joins(h, s, Len(s))
  <2>1. \A x \in 0..k : x \in 0..Len(g)
    BY <1>1
  <2>2. \A x \in 1..k : x \in 1..Len(g)
    BY <1>1
  <2>3. \A x \in 1..k : h[x] = h[x - 1] \o s[x]
    BY <1>1, <2>2 DEF Joins
  <2> QED
    BY <1>1, <2>1, <2>3 DEF Joins
<1>3. FlattenSeq(s) = h[Len(s)]
  BY <1>1, <1>2, FlattenIs
<1> QED
  BY <1>1, <1>3 DEF s

(* The pieces of a file. *)
LEMMA FilePieces ==
  ASSUME Disk, NEW j \in Files
  PROVE  files[j] \in Pages \cup Others /\ files[j] \in Seq(Seq(Char))
<1>1. files[j] \in Pages \cup Others
  BY DEF Disk, Files
<1> QED
  BY <1>1, ConstantTexts

(* Each file lies where it was read to. *)
LEMMA FileText ==
  ASSUME Disk, NEW j \in Files
  PROVE  HasText(M0, First[j], Content(j))
<1> DEFINE c == Content(1)
           d == Content(2)
<1>1. /\ c \in Seq(Char) /\ Len(c) \in Nat /\ d \in Seq(Char)
      /\ Len(d) \in Nat
  BY ContentEnds DEF Files
<1>2. M0 = c \o d
  BY DEF M0
<1>3. CASE j = 1
  <2>1. First[j].data = 0 /\ First[j].size = Len(c) /\ Content(j) = c
    BY <1>3 DEF First
  <2> DEFINE a == First[j]
  <2> HIDE DEF c, d, a
  <2>2. \A o \in 1..Len(c) : (c \o d)[0 + o] = c[o]
    BY <1>1
  <2>3. HasText(c \o d, a, c)
    BY <1>1, <2>1, <2>2 DEF HasText, a
  <2> QED
    BY <1>2, <2>1, <2>3 DEF a
<1>4. CASE j = 2
  <2>1. First[j].data = Len(c) /\ First[j].size = Len(d) /\ Content(j) = d
    BY <1>4 DEF First
  <2> DEFINE a == First[j]
  <2> HIDE DEF c, d, a
  <2>2. \A o \in 1..Len(d) : (c \o d)[Len(c) + o] = d[o]
    BY <1>1
  <2>3. HasText(c \o d, a, d)
    BY <1>1, <2>1, <2>2 DEF HasText, a
  <2> QED
    BY <1>2, <2>1, <2>3 DEF a
<1> QED
  BY <1>3, <1>4 DEF Files

(* A file as it lies on the disk, cut at its keys. *)
LEMMA FileCut ==
  ASSUME Disk, NEW i \in Langs, NEW j \in Files, ~Adjacent(j),
         NEW h, Joins(h, Append(files[j], Tail_), Len(files[j]) + 1)
  PROVE  /\ FlattenSeq(files[j]) = h[Len(files[j])]
         /\ CutInto(Append(files[j], Tail_), Len(files[j]) + 1, h, M0,
                    First[j], translations[i])
<1> DEFINE f == files[j]
           g == Append(f, Tail_)
           l == Len(f)
           n == l + 1
           m == M0
           a == First[j]
           entries == translations[i]
<1>1. f \in Pages \cup Others /\ f \in Seq(Seq(Char))
  BY FilePieces
<1>2. Tail_ \in Seq(Char) /\ Len(Tail_) \in Nat \ {0}
  BY ConstantTexts
<1>3. FileIn(m, a, entries) /\ HasText(m, a, Content(j))
  BY FilesIn, FileText
<1>4. /\ GoodKeys(entries) /\ ~IsKey(Tail_, entries)
      /\ \A t : IsKey(t, entries) <=> t \in Keys
  BY LanguageKeys, Zenon
<1>5. Content(j) = FlattenSeq(f) \o Tail_
  BY DEF Content
<1>6. ~(\E k \in 1..(l - 1) : {f[k], f[k + 1]} \subseteq Keys)
  BY DEF Adjacent
<1>7. /\ \A k \in DOMAIN g : g[k] # <<>>
      /\ \A k \in DOMAIN g : g[k] \notin Keys =>
           \A o \in 0..(Len(g[k]) - 1) : \A key \in Keys :
             Bytes(FlattenSeq(g), Len(FlattenSeq(SubSeq(g, 1, k - 1))) + o,
                   Len(key)) # key
  BY <1>1, PiecesConstant, Zenon
<1>8. Joins(h, g, n)
  OBVIOUS
<1> HIDE DEF f, entries, m, a
<1>9. /\ l \in Nat /\ n \in Nat \ {0} /\ n - 1 = l
      /\ g \in Seq(Seq(Char)) /\ Len(g) = n /\ DOMAIN g = 1..n
      /\ g[n] = Tail_
      /\ \A k \in 1..l : g[k] = f[k]
  BY <1>1, <1>2
<1> HIDE DEF g
<1>10. \A k \in 0..n : FlattenSeq(SubSeq(g, 1, k)) = h[k]
  BY <1>8, <1>9, FlattenPrefix
<1>11. FlattenSeq(g) = h[n]
  BY <1>8, <1>9, FlattenIs
<1>12. FlattenSeq(f) = h[l]
  <2>1. \A k \in 0..l : k \in 0..n
    BY <1>9
  <2>2. \A k \in 1..l : k \in 1..n
    BY <1>9
  <2>3. \A k \in 1..l : h[k] = h[k - 1] \o f[k]
    BY <1>8, <1>9, <2>2 DEF Joins
  <2>4. Joins(h, f, l)
    BY <1>8, <2>1, <2>3 DEF Joins
  <2> QED
    BY <1>1, <2>4, FlattenIs
<1> HIDE DEF l
<1>13. Content(j) = h[n]
  <2>1. n \in 1..n
    BY <1>9
  <2>2. h[n] = h[n - 1] \o g[n]
    BY <1>8, <2>1 DEF Joins
  <2> QED
    BY <1>5, <1>9, <1>12, <2>2
<1>14. \A k \in 1..n : g[k] \in Seq(Char) /\ Len(g[k]) >= 1
  <2> TAKE k \in 1..n
  <2>1. g[k] \in Seq(Char)
    BY <1>9
  <2>2. g[k] # <<>>
    BY <1>7, <1>9
  <2> DEFINE t == g[k]
  <2> HIDE DEF t
  <2>3. t \in Seq(Char) /\ t # <<>>
    BY <2>1, <2>2 DEF t
  <2>4. Len(t) >= 1
    BY <2>3
  <2> QED
    BY <2>1, <2>4 DEF t
<1>15. ASSUME NEW k \in 1..n, ~IsKey(g[k], entries),
              NEW o \in 0..(Len(g[k]) - 1), NEW e \in DOMAIN entries
       PROVE  Bytes(h[n], Len(h[k - 1]) + o, Len(entries[e].key))
                # entries[e].key
  <2>1. g[k] \notin Keys /\ entries[e].key \in Keys
    BY <1>4, <1>15, Zenon DEF IsKey
  <2>2. k - 1 \in 0..n
    BY <1>9
  <2>3. FlattenSeq(SubSeq(g, 1, k - 1)) = h[k - 1]
    BY <1>10, <2>2, Zenon
  <2>4. Bytes(FlattenSeq(g), Len(FlattenSeq(SubSeq(g, 1, k - 1))) + o,
              Len(entries[e].key)) # entries[e].key
    BY <1>7, <1>9, <2>1, Zenon
  <2> QED
    BY <1>11, <2>3, <2>4, Zenon
<1>16. ~IsKey(g[n], entries)
  BY <1>4, <1>9
<1>17. ASSUME NEW k \in 1..(n - 1), IsKey(g[k], entries)
       PROVE  ~IsKey(g[k + 1], entries)
  <2>1. CASE k = l
    BY <1>4, <1>9, <2>1
  <2>2. CASE k # l
    <3>1. k \in 1..(l - 1) /\ k \in 1..l /\ k + 1 \in 1..l
      BY <1>9, <2>2
    <3>2. g[k] = f[k] /\ g[k + 1] = f[k + 1]
      BY <1>9, <3>1
    <3>3. f[k] \in Keys
      BY <1>4, <1>17, <3>2, Zenon
    <3>4. f[k + 1] \notin Keys
      BY <1>6, <3>1, <3>3
    <3> QED
      BY <1>4, <3>2, <3>4, Zenon
  <2> QED
    BY <2>1, <2>2
<1> HIDE DEF n
<1>18. HasText(m, a, h[n])
  BY <1>3, <1>13
<1>19. n \in Nat \ {0}
  BY <1>9
<1>20. CutInto(g, n, h, m, a, entries)
  BY <1>3, <1>4, <1>8, <1>14, <1>15, <1>16, <1>17, <1>18, <1>19, Zenon
     DEF CutInto
<1> QED
  BY <1>12, <1>20, Zenon DEF f, g, l, n, m, a, entries

(***************************************************************************)
(* What translate_file writes of a file as it was read: its pieces, each   *)
(* key replaced, and the tail.                                             *)
(***************************************************************************)
LEMMA TranslatesWell ==
  ASSUME Disk, NEW i \in Langs, NEW j \in Files, ~Adjacent(j)
  PROVE  translate_file(M0, First[j], translations[i])
           = FlattenSeq([k \in DOMAIN files[j] |-> Value(i, files[j][k])])
             \o Tail_
<1> DEFINE f == files[j]
           g == Append(f, Tail_)
           l == Len(f)
           n == l + 1
           a == First[j]
           entries == translations[i]
           fv == [k \in DOMAIN f |-> Value(i, f[k])]
           v == Append(fv, Tail_)
<1>1. f \in Seq(Seq(Char))
  BY FilePieces
<1>2. Tail_ \in Seq(Char)
  BY ConstantTexts
<1>3. /\ l \in Nat /\ n \in Nat /\ n - 1 = l /\ DOMAIN f = 1..l
      /\ g[n] = Tail_
      /\ \A k \in 1..l : f[k] \in Seq(Char) /\ g[k] = f[k]
  <2> HIDE DEF f
  <2> QED
    BY <1>1, <1>2
<1>4. \A t \in Seq(Char) :
        /\ Value(i, t) \in Seq(Char)
        /\ ~IsKey(t, entries) => Value(i, t) = t
        /\ \A e \in DOMAIN entries :
             entries[e].key = t => Value(i, t) = entries[e].value
  BY ValueIs, Zenon
<1>5. fv \in Seq(Seq(Char)) /\ Len(fv) = l
  <2>1. \A k \in 1..l : Value(i, f[k]) \in Seq(Char)
    BY <1>3, <1>4
  <2>2. fv = [k \in 1..l |-> Value(i, f[k])]
    BY <1>3
  <2> HIDE DEF f, fv, l
  <2> QED
    BY <1>3, <2>1, <2>2
<1>6. \A k \in 1..l : fv[k] = Value(i, f[k])
  BY <1>3
<1> HIDE DEF fv
<1>7. v[n] = Tail_ /\ \A k \in 1..l : v[k] = fv[k]
  <2> HIDE DEF l
  <2> QED
    BY <1>2, <1>3, <1>5
<1>8. ~IsKey(Tail_, entries)
  BY LanguageKeys, Zenon
<1> HIDE DEF v, g, f, l
<1>9. Replaced(g, n, v, entries)
  <2>1. ASSUME NEW k \in 1..n
        PROVE  /\ v[k] \in Seq(Char)
               /\ ~IsKey(g[k], entries) => v[k] = g[k]
               /\ \A e \in DOMAIN entries :
                    entries[e].key = g[k] => v[k] = entries[e].value
    <3>1. CASE k = n
      <4>1. v[k] = Tail_ /\ g[k] = Tail_
        BY <1>3, <1>7, <3>1
      <4> QED
        BY <1>2, <1>8, <4>1, Zenon DEF IsKey
    <3>2. CASE k # n
      <4>1. k \in 1..l
        BY <1>3, <3>2
      <4>2. v[k] = Value(i, f[k]) /\ g[k] = f[k] /\ f[k] \in Seq(Char)
        BY <1>3, <1>6, <1>7, <4>1
      <4> QED
        BY <1>4, <4>2, Zenon
    <3> QED
      BY <3>1, <3>2
  <2> HIDE DEF n, entries
  <2> QED
    BY <2>1, Zenon DEF Replaced
<1>10. PICK w : Joins(w, v, n)
  <2>1. \A k \in 1..n : v[k] \in Seq(Char)
    BY <1>9 DEF Replaced
  <2> HIDE DEF n
  <2> QED
    BY <1>3, <2>1, JoinExists
<1>11. PICK h : Joins(h, g, n)
  <2>1. \A k \in 1..n : g[k] \in Seq(Char)
    <3> TAKE k \in 1..n
    <3>1. CASE k = n
      BY <1>2, <1>3, <3>1
    <3>2. CASE k # n
      <4>1. k \in 1..l
        BY <1>3, <3>2
      <4> QED
        BY <1>3, <4>1
    <3> QED
      BY <3>1, <3>2
  <2> HIDE DEF n
  <2> QED
    BY <1>3, <2>1, JoinExists
<1>12. CutInto(g, n, h, M0, a, entries)
  <2>1. Joins(h, Append(files[j], Tail_), Len(files[j]) + 1)
    BY <1>11 DEF g, f, l
  <2>2. CutInto(Append(files[j], Tail_), Len(files[j]) + 1, h, M0, First[j],
                translations[i])
    BY <2>1, FileCut, Zenon
  <2> QED
    BY <2>2, Zenon DEF g, f, l
<1>13. PICK out : /\ Scans(out, M0, a, entries)
                  /\ translate_file(M0, a, entries) = out[a.data]
  <2>1. FileIn(M0, a, entries)
    BY FilesIn, Zenon
  <2> QED
    BY <2>1, PassesAgree, Zenon
<1> HIDE DEF a, entries
<1>14. out[a.data] = w[n]
  <2>1. Scans(out, M0, a, entries)
    BY <1>13
  <2> HIDE DEF n
  <2> QED
    BY <1>9, <1>10, <1>12, <2>1, ScanTranslates
<1>15. w[n] = FlattenSeq(fv) \o Tail_
  <2>1. Joins(w, fv, l)
    <3>1. \A k \in 0..l : k \in 0..n
      BY <1>3
    <3>2. \A k \in 1..l : k \in 1..n
      BY <1>3
    <3>3. \A k \in 1..l : w[k] = w[k - 1] \o fv[k]
      BY <1>7, <1>10, <3>2 DEF Joins
    <3> QED
      BY <1>10, <3>1, <3>3 DEF Joins
  <2>2. FlattenSeq(fv) = w[l]
    BY <1>5, <2>1, FlattenIs
  <2>3. n \in 1..n
    BY <1>3
  <2>4. w[n] = w[n - 1] \o v[n]
    BY <1>10, <2>3 DEF Joins
  <2> QED
    BY <1>3, <1>7, <2>2, <2>4
<1>16. translate_file(M0, a, entries) = FlattenSeq(fv) \o Tail_
  BY <1>13, <1>14, <1>15, Zenon
<1> QED
  BY <1>16, Zenon DEF a, entries, fv, f

-----------------------------------------------------------------------------
(* What is written of file j in language i, and where. *)
Text(i, j) == translate_file(M0, First[j], translations[i])
Start(i, j) == Until(i - 1) + IF j = 1 THEN 0 ELSE Need(i, 1)

(* The file has the place that was measured for it. *)
Placed(i, j) ==
  assets[i][j].data = Start(i, j) /\ assets[i][j].size = Need(i, j)

(* It has been written there, up to the bytes in over. *)
Written(i, j, over) ==
  \A p \in 0..(Need(i, j) - 1) :
    Start(i, j) + p \in over \/ Byte(translated, Start(i, j) + p)
                                  = Text(i, j)[p + 1]

(* A mark lies in the page of its language. *)
InPage(i, x) ==
  x \in Nat /\ Start(i, 1) <= x /\ x + REPLACE_SIZE <= Start(i, 1) + Need(i, 1)

(* What the memory holds at each stage: on top of AInv, which says where.   *)
TInv ==
  /\ pc = "translating" =>
       \A i \in Langs, j \in Files :
         Earlier(i, j) => Placed(i, j) /\ Written(i, j, {})
  /\ pc = "marks" =>
       \A i \in Langs, j \in Files : Placed(i, j) /\ Written(i, j, {})
  /\ pc = "serving" =>
       /\ \A i \in Langs : /\ InPage(i, marks[i].uptime)
                           /\ InPage(i, marks[i].version)
       /\ \A i \in Langs, j \in Files :
            Placed(i, j) /\ Written(i, j, MarkBytes(i))

(* The sums of the first pass never shrink. *)
LEMMA UntilGrows ==
  ASSUME Disk, NEW k \in Langs, NEW l \in Langs, k < l
  PROVE  Until(k) <= Until(l - 1)
<1> DEFINE n == Len(translations)
           Wrong == {x \in k..(l - 1) : ~(Until(k) <= Until(x))}
<1>1. n \in Nat /\ Langs = 1..n
  BY ConstantTexts
<1>2. ASSUME NEW x \in 1..n
      PROVE  /\ Until(x) \in Nat /\ Until(x - 1) \in Nat
             /\ Until(x - 1) <= Until(x)
  <2>1. /\ Until(x) \in Nat /\ Until(x - 1) \in Nat
        /\ Until(x) = Until(x - 1) + Need(x, 1) + Need(x, 2)
    BY <1>1, Sums
  <2>2. Need(x, 1) \in Nat /\ Need(x, 2) \in Nat
    BY <1>1, NeedWritten DEF Files
  <2> QED
    BY <2>1, <2>2
<1>3. k \in 1..n /\ l \in 1..n /\ l - 1 \in k..(l - 1)
  BY <1>1
<1>4. Wrong = {}
  <2>1. SUFFICES ASSUME Wrong # {} PROVE FALSE
    OBVIOUS
  <2>2. PICK x \in Wrong : \A y \in Wrong : x <= y
    <3>1. Wrong \subseteq Nat
      BY <1>1
    <3> HIDE DEF Wrong
    <3> QED
      BY <2>1, <3>1, LeastExists
  <2>3. x \in k..(l - 1) /\ ~(Until(k) <= Until(x))
    BY <2>2
  <2>4. x # k
    BY <1>2, <1>3, <2>3
  <2>5. x \in 1..n /\ x - 1 \in k..(l - 1) /\ ~(x <= x - 1)
        /\ x - 1 \in 1..n
    BY <1>1, <1>3, <2>3, <2>4
  <2>6. Until(k) <= Until(x - 1)
    BY <2>2, <2>5
  <2>7. /\ Until(k) \in Nat /\ Until(x) \in Nat /\ Until(x - 1) \in Nat
        /\ Until(x - 1) <= Until(x)
    BY <1>2, <1>3, <2>5
  <2> QED
    BY <2>3, <2>6, <2>7
<1> QED
  BY <1>3, <1>4

(* The place of a file, within that of its language. *)
LEMMA Places ==
  ASSUME Disk, NEW i \in Langs, NEW j \in Files
  PROVE  /\ Start(i, j) \in Nat /\ Need(i, j) \in Nat
         /\ Until(i - 1) \in Nat /\ Until(i) \in Nat
         /\ Until(i - 1) <= Start(i, j)
         /\ Start(i, j) + Need(i, j) <= Until(i)
         /\ Text(i, j) \in Seq(Char) /\ Need(i, j) = Len(Text(i, j))
<1>1. /\ Until(i) \in Nat /\ Until(i - 1) \in Nat
      /\ Until(i) = Until(i - 1) + Need(i, 1) + Need(i, 2)
  BY Sums
<1>2. Need(i, 1) \in Nat /\ Need(i, 2) \in Nat
  BY NeedWritten DEF Files
<1>3. Text(i, j) \in Seq(Char) /\ Need(i, j) = Len(Text(i, j))
      /\ Need(i, j) \in Nat
  BY NeedWritten DEF Text
<1>4. Start(i, j) = Until(i - 1) + IF j = 1 THEN 0 ELSE Need(i, 1)
  BY DEF Start
<1>5. j = 1 \/ j = 2
  BY DEF Files
<1> QED
  BY <1>1, <1>2, <1>3, <1>4, <1>5

(* Two languages share no byte. *)
LEMMA Apart ==
  ASSUME Disk, NEW i \in Langs, NEW j \in Files, NEW k \in Langs,
         NEW l \in Files, i # k,
         NEW x \in 0..(Need(i, j) - 1), NEW y \in 0..(Need(k, l) - 1)
  PROVE  Start(i, j) + x # Start(k, l) + y
<1>1. /\ Start(i, j) \in Nat /\ Need(i, j) \in Nat
      /\ Until(i - 1) \in Nat /\ Until(i) \in Nat
      /\ Until(i - 1) <= Start(i, j)
      /\ Start(i, j) + Need(i, j) <= Until(i)
  BY Places
<1>2. /\ Start(k, l) \in Nat /\ Need(k, l) \in Nat
      /\ Until(k - 1) \in Nat /\ Until(k) \in Nat
      /\ Until(k - 1) <= Start(k, l)
      /\ Start(k, l) + Need(k, l) <= Until(k)
  BY Places
<1>3. i < k \/ k < i
  BY ConstantTexts
<1>4. Until(i) <= Until(k - 1) \/ Until(k) <= Until(i - 1)
  BY <1>3, UntilGrows
<1> QED
  BY <1>1, <1>2, <1>4

(* The texts and the places only depend on the files. *)
LEMMA SamePlaces ==
  ASSUME UNCHANGED files, NEW i, NEW j
  PROVE  /\ Start(i, j)' = Start(i, j) /\ Need(i, j)' = Need(i, j)
         /\ Text(i, j)' = Text(i, j)
<1>1. /\ M0' = M0 /\ First' = First
      /\ \A k : Until(k)' = Until(k)
      /\ \A k, l : Need(k, l)' = Need(k, l)
  BY SameFiles
<1> QED
  BY <1>1 DEF Start, Text, Until, Need

(* Bytes in a memory that consists of two texts. *)
LEMMA JoinedBytes ==
  ASSUME NEW b \in Seq(Char), NEW w \in Seq(Char)
  PROVE  /\ \A p \in 0..(Len(b) - 1) : Byte(b \o w, p) = b[p + 1]
         /\ \A p \in 0..(Len(w) - 1) : Byte(b \o w, Len(b) + p) = w[p + 1]
<1>1. /\ Len(b) \in Nat /\ Len(w) \in Nat /\ Len(b \o w) = Len(b) + Len(w)
      /\ \A x \in 1..Len(b) : (b \o w)[x] = b[x]
      /\ \A x \in 1..Len(w) : (b \o w)[Len(b) + x] = w[x]
  OBVIOUS
<1> DEFINE m == b \o w
           s == Len(b)
           t == Len(w)
<1>2. /\ s \in Nat /\ t \in Nat /\ Len(m) = s + t
      /\ \A x \in 1..s : m[x] = b[x]
      /\ \A x \in 1..t : m[s + x] = w[x]
  BY <1>1
<1> HIDE DEF m, s, t
<1>3. ASSUME NEW p \in 0..(s - 1) PROVE Byte(m, p) = b[p + 1]
  <2>1. p + 1 \in 1..s /\ p < Len(m)
    BY <1>2
  <2> QED
    BY <1>2, <2>1 DEF Byte
<1>4. ASSUME NEW p \in 0..(t - 1) PROVE Byte(m, s + p) = w[p + 1]
  <2>1. p + 1 \in 1..t /\ s + p < Len(m) /\ (s + p) + 1 = s + (p + 1)
    BY <1>2
  <2> QED
    BY <1>2, <2>1 DEF Byte
<1> QED
  BY <1>3, <1>4, Zenon DEF m, s, t

(* A file is translated to its place, and leaves the earlier ones alone. *)
LEMMA TranslateWrites ==
  ASSUME AInv, TInv, NEW i \in Langs, NEW j \in Files, translate(i, j)
  PROVE  TInv'
<1> DEFINE w == Text(i, j)
           b == Bytes(translated, 0, data_ptr)
           n == Len(translations)
<1>1. /\ Disk /\ translated \in Seq(Char) /\ Translating
      /\ pc = "translating" /\ at = <<i, j>> /\ UNCHANGED files
  BY TranslateDoes, Zenon
<1>2. /\ translated' = b \o w
      /\ assets'[i][j] = [in |-> "translated", data |-> data_ptr,
                          size |-> Need(i, j)]
      /\ at' = IF j = 1 THEN <<i, 2>> ELSE <<i + 1, 1>>
      /\ pc' = IF <<i, j>> = <<n, 2>> THEN "marks" ELSE "translating"
      /\ \A k \in Langs, l \in Files :
            <<k, l>> # <<i, j>> => assets'[k][l] = assets[k][l]
  BY TranslateDoes, Zenon DEF Text
<1>3. /\ Start(i, j) \in Nat /\ Need(i, j) \in Nat
      /\ w \in Seq(Char) /\ Need(i, j) = Len(w)
  BY <1>1, Places
<1>4. data_ptr = Start(i, j) /\ Len(translated) = data_ptr
  <2>1. at[1] = i /\ at[2] = j
    BY <1>1
  <2> QED
    BY <1>1, <2>1 DEF Translating, Due, Start
<1>5. /\ b \in Seq(Char) /\ Len(b) = data_ptr
      /\ \A p \in 0..(data_ptr - 1) : b[p + 1] = Byte(translated, p)
  BY <1>1, <1>3, <1>4, FirstBytes
<1> HIDE DEF w, b
<1>6. /\ \A p \in 0..(Len(b) - 1) : Byte(b \o w, p) = b[p + 1]
      /\ \A p \in 0..(Len(w) - 1) : Byte(b \o w, Len(b) + p) = w[p + 1]
  BY <1>3, <1>5, JoinedBytes
<1>7. \A k, l : /\ Start(k, l)' = Start(k, l) /\ Need(k, l)' = Need(k, l)
                /\ Text(k, l)' = Text(k, l)
  BY <1>1, SamePlaces
<1>8. Placed(i, j)' /\ Written(i, j, {})'
  <2>1. assets'[i][j].data = data_ptr /\ assets'[i][j].size = Need(i, j)
    BY <1>2
  <2>2. Placed(i, j)'
    BY <1>4, <1>7, <2>1 DEF Placed
  <2>3. ASSUME NEW p \in 0..(Need(i, j) - 1)
        PROVE  Byte(translated', Start(i, j) + p) = Text(i, j)[p + 1]
    BY <1>2, <1>3, <1>4, <1>5, <1>6 DEF w
  <2>4. Written(i, j, {})'
    BY <1>7, <2>3 DEF Written, Byte
  <2> QED
    BY <2>2, <2>4
<1>9. ASSUME NEW k \in Langs, NEW l \in Files, Earlier(k, l)
      PROVE  Placed(k, l)' /\ Written(k, l, {})'
  <2>1. Placed(k, l) /\ Written(k, l, {}) /\ Done(k, l)
    BY <1>1, <1>9 DEF TInv, Translating
  <2>2. <<k, l>> # <<i, j>>
    <3>1. at[1] = i /\ at[2] = j /\ i \in Nat /\ j \in Nat
      BY <1>1, ConstantTexts DEF Files
    <3> QED
      BY <1>9, <3>1 DEF Earlier
  <2>3. assets'[k][l] = assets[k][l]
    BY <1>2, <2>2
  <2>4. Placed(k, l)'
    BY <1>7, <2>1, <2>3 DEF Placed
  <2>5. /\ Start(k, l) \in Nat /\ Need(k, l) \in Nat
        /\ Start(k, l) + Need(k, l) <= data_ptr
    BY <1>1, <2>1, Places DEF Placed, Done
  <2>6. ASSUME NEW p \in 0..(Need(k, l) - 1)
        PROVE  Byte(translated', Start(k, l) + p) = Text(k, l)[p + 1]
    <3> DEFINE q == Start(k, l) + p
    <3>1. q \in 0..(data_ptr - 1)
      BY <1>3, <1>4, <2>5
    <3>2. Byte(translated, q) = Text(k, l)[p + 1]
      BY <2>1 DEF Written
    <3> HIDE DEF q
    <3>3. Byte(translated', q) = b[q + 1]
      BY <1>2, <1>5, <1>6, <3>1
    <3>4. b[q + 1] = Byte(translated, q)
      BY <1>5, <3>1
    <3> QED
      BY <3>2, <3>3, <3>4 DEF q
  <2>7. Written(k, l, {})'
    BY <1>7, <2>6 DEF Written, Byte
  <2> QED
    BY <2>4, <2>7
<1>10. n \in Nat /\ Langs = 1..n /\ (j = 1 \/ j = 2) /\ at[1] = i /\ at[2] = j
  BY <1>1, ConstantTexts DEF Files
<1>11. CASE <<i, j>> = <<n, 2>>
  <2>1. pc' = "marks" /\ i = n /\ j = 2
    BY <1>2, <1>11
  <2>2. ASSUME NEW k \in Langs, NEW l \in Files
        PROVE  Placed(k, l)' /\ Written(k, l, {})'
    <3>1. CASE k = i /\ l = j
      BY <1>8, <3>1
    <3>2. CASE ~(k = i /\ l = j)
      <4>1. Earlier(k, l)
        BY <1>10, <2>1, <3>2 DEF Earlier, Files
      <4> QED
        BY <1>9, <4>1
    <3> QED
      BY <3>1, <3>2
  <2> QED
    BY <2>1, <2>2 DEF TInv
<1>12. CASE <<i, j>> # <<n, 2>>
  <2>1. pc' = "translating"
    BY <1>2, <1>12
  <2>2. ASSUME NEW k \in Langs, NEW l \in Files, Earlier(k, l)'
        PROVE  Placed(k, l)' /\ Written(k, l, {})'
    <3>1. (k = i /\ l = j) \/ Earlier(k, l)
      <4>1. /\ at'[1] = (IF j = 1 THEN i ELSE i + 1)
            /\ at'[2] = (IF j = 1 THEN 2 ELSE 1)
        BY <1>2
      <4>2. k < at'[1] \/ (k = at'[1] /\ l < at'[2])
        BY <2>2 DEF Earlier
      <4> QED
        BY <1>10, <4>1, <4>2 DEF Earlier, Files
    <3>2. CASE k = i /\ l = j
      BY <1>8, <3>2
    <3>3. CASE Earlier(k, l)
      BY <1>9, <3>3
    <3> QED
      BY <3>1, <3>2, <3>3
  <2> QED
    BY <2>1, <2>2 DEF TInv
<1> QED
  BY <1>11, <1>12

(* A mark that is found lies in the page that was searched. *)
LEMMA FoundInPage ==
  ASSUME AInv, TInv, pc = "marks", NEW i \in Langs, NEW ch,
         find_16(translated, assets[i][1], ch) # None
  PROVE  InPage(i, find_16(translated, assets[i][1], ch))
<1> DEFINE a == assets[i][1]
           S == {p \in a.data..(a.data + a.size - 1) :
                   /\ p + REPLACE_SIZE <= a.data + a.size
                   /\ \A k \in 0..(REPLACE_SIZE - 1) :
                        Byte(translated, p + k) = ch}
           x == find_16(translated, a, ch)
<1>1. Disk /\ a.data = Start(i, 1) /\ a.size = Need(i, 1)
  BY DEF AInv, TInv, Placed, Files
<1>2. Start(i, 1) \in Nat /\ Need(i, 1) \in Nat
  BY <1>1, Places DEF Files
<1>3. x = Least(S)
  <2>1. a.data \in Nat /\ a.size \in Nat
    BY <1>1, <1>2
  <2> HIDE DEF a
  <2>2. find_16(translated, a, ch) =
          Least({p \in a.data..(a.data + a.size - 1) :
                   /\ p + REPLACE_SIZE <= a.data + a.size
                   /\ \A k \in 0..(REPLACE_SIZE - 1) :
                        Byte(translated, p + k) = ch})
    BY <2>1, SearchFinds
  <2> QED
    BY <2>2, Zenon
<1>4. \A p \in S : /\ p \in Nat /\ a.data <= p
                   /\ p + REPLACE_SIZE <= a.data + a.size
  BY <1>1, <1>2
<1>5. Least(S) # None => Least(S) \in S
  <2>1. S # {} => (CHOOSE p \in S : \A q \in S : p <= q) \in S
    <3>1. S \subseteq Nat
      BY <1>4
    <3> HIDE DEF S
    <3>2. S # {} => \E p \in S : \A q \in S : p <= q
      BY <3>1, LeastExists
    <3> QED
      BY <3>2, Zenon
  <2> HIDE DEF S
  <2> QED
    BY <2>1, Zenon DEF Least
<1>6. x # None
  OBVIOUS
<1> HIDE DEF x, S
<1>7. x \in S
  BY <1>3, <1>5, <1>6
<1> QED
  BY <1>1, <1>4, <1>7 DEF InPage, x

(* Overwriting the marks of a page touches only that page. *)
LEMMA ServeKeeps ==
  ASSUME AInv, TInv, NEW i \in Langs, serve_root(i)
  PROVE  TInv'
<1> DEFINE n == Len(translated)
           over == MarkBytes(i)
<1>1. /\ Disk /\ translated \in Seq(Char) /\ Complete
      /\ pc = "serving" /\ pc' = "serving"
      /\ UNCHANGED <<files, assets, allocated, data_ptr, marks>>
  BY DEF serve_root, AInv
<1>2. translated' = [p \in 1..n |->
                       IF p - 1 \in over THEN "#" ELSE translated[p]]
  BY Zenon DEF serve_root
<1>3. \A k, l : /\ Start(k, l)' = Start(k, l) /\ Need(k, l)' = Need(k, l)
                /\ Text(k, l)' = Text(k, l)
  BY <1>1, SamePlaces
<1>4. \A k : MarkBytes(k)' = MarkBytes(k)
  BY <1>1 DEF MarkBytes
<1>5. n \in Nat /\ n = data_ptr /\ REPLACE_SIZE \in Nat
  BY <1>1, AssetsConstants DEF Complete
<1>6. \A q \in 0..(n - 1) : q \notin over => Byte(translated', q)
                                              = Byte(translated, q)
  <2> TAKE q \in 0..(n - 1)
  <2> HAVE q \notin over
  <2> DEFINE x == q + 1
  <2>1. x \in 1..n /\ x - 1 = q /\ q < n
    BY <1>5
  <2> HIDE DEF n, over
  <2>2. DOMAIN translated' = 1..n
    BY <1>2
  <2>3. Len(translated') = n
    BY <1>5, <2>2
  <2>4. translated'[x] = translated[x]
    <3> HIDE DEF x
    <3>1. translated'[x] = IF x - 1 \in over THEN "#" ELSE translated[x]
      BY <1>2, <2>1, Zenon
    <3> QED
      BY <2>1, <3>1
  <2> QED
    BY <2>1, <2>3, <2>4, Zenon DEF Byte, n
<1>7. ASSUME NEW q \in over
      PROVE  \E y \in 0..(Need(i, 1) - 1) : q = Start(i, 1) + y
  <2>1. InPage(i, marks[i].uptime) /\ InPage(i, marks[i].version)
    BY <1>1 DEF TInv
  <2>2. PICK x \in {marks[i].uptime, marks[i].version} :
          q \in x..(x + REPLACE_SIZE - 1)
    BY Zenon DEF MarkBytes
  <2>3. InPage(i, x)
    BY <2>1, <2>2
  <2>4. Start(i, 1) \in Nat /\ Need(i, 1) \in Nat
    BY <1>1, Places DEF Files
  <2>5. /\ x \in Nat /\ Start(i, 1) <= x
        /\ x + REPLACE_SIZE <= Start(i, 1) + Need(i, 1)
    BY <2>3 DEF InPage
  <2>6. /\ q - Start(i, 1) \in 0..(Need(i, 1) - 1)
        /\ q = Start(i, 1) + (q - Start(i, 1))
    BY <1>5, <2>2, <2>4, <2>5
  <2> QED
    BY <2>6
<1>8. ASSUME NEW k \in Langs, NEW l \in Files
      PROVE  Placed(k, l)' /\ Written(k, l, MarkBytes(k))'
  <2>1. Placed(k, l) /\ Written(k, l, MarkBytes(k)) /\ Done(k, l)
    BY <1>1 DEF TInv, Complete
  <2>2. Placed(k, l)'
    BY <1>1, <1>3, <2>1 DEF Placed
  <2>3. /\ Start(k, l) \in Nat /\ Need(k, l) \in Nat
        /\ Start(k, l) + Need(k, l) <= n
    BY <1>1, <1>5, <2>1, Places DEF Placed, Done
  <2>4. ASSUME NEW p \in 0..(Need(k, l) - 1)
        PROVE  Start(k, l) + p \in MarkBytes(k)
               \/ Byte(translated', Start(k, l) + p) = Text(k, l)[p + 1]
    <3> DEFINE q == Start(k, l) + p
    <3>1. q \in 0..(n - 1)
      BY <1>5, <2>3
    <3>2. q \in MarkBytes(k) \/ Byte(translated, q) = Text(k, l)[p + 1]
      BY <2>1 DEF Written
    <3>3. k # i => q \notin over
      <4>1. SUFFICES ASSUME k # i, q \in over PROVE FALSE
        BY Zenon
      <4>2. PICK y \in 0..(Need(i, 1) - 1) : q = Start(i, 1) + y
        BY <1>7, <4>1
      <4>3. 1 \in Files
        BY DEF Files
      <4>4. Start(k, l) + p # Start(i, 1) + y
        BY <1>1, <4>1, <4>3, Apart
      <4> QED
        BY <4>2, <4>4
    <3> HIDE DEF q
    <3>4. CASE q \in over
      <4>1. k = i
        BY <3>3, <3>4
      <4> QED
        BY <3>4, <4>1, Zenon DEF q
    <3>5. CASE q \notin over
      <4>1. Byte(translated', q) = Byte(translated, q)
        BY <1>6, <3>1, <3>5
      <4> QED
        BY <3>2, <4>1, Zenon DEF q
    <3> QED
      BY <3>4, <3>5
  <2>5. Written(k, l, MarkBytes(k))'
    BY <1>3, <1>4, <2>4 DEF Written, Byte
  <2> QED
    BY <2>2, <2>5
<1>9. ASSUME NEW k \in Langs
      PROVE  InPage(k, marks[k].uptime)' /\ InPage(k, marks[k].version)'
  BY <1>1, <1>3 DEF TInv, InPage
<1> QED
  BY <1>1, <1>8, <1>9 DEF TInv

(* Every step keeps what the memory holds. *)
LEMMA TStep == AInv /\ TInv /\ [Next]_vars => TInv'
<1> SUFFICES ASSUME AInv, TInv, [Next]_vars PROVE TInv'
  OBVIOUS
<1>1. CASE load_fails
  BY <1>1 DEF load_fails, TInv
<1>2. CASE assets_load
  BY <1>2 DEF assets_load, TInv
<1>3. CASE copy_assets
  BY <1>3 DEF copy_assets, TInv
<1>4. CASE measure
  <2>1. pc' = "translating" /\ UNCHANGED at /\ Begun
    BY <1>4 DEF measure, AInv
  <2>2. \A i \in Langs, j \in Files : ~Earlier(i, j)'
    BY <2>1, ConstantTexts DEF Begun, Earlier, Files
  <2> QED
    BY <2>1, <2>2 DEF TInv
<1>5. CASE \E i \in Langs, j \in Files : translate(i, j)
  BY <1>5, TranslateWrites
<1>6. CASE find_marks
  <2> DEFINE up(i) == find_16(translated, assets[i][1], UPTIME_CH)
             ver(i) == find_16(translated, assets[i][1], VERSION_CH)
             found == [i \in Langs |-> [uptime |-> up(i), version |-> ver(i)]]
  <2>1. /\ pc = "marks" /\ marks' = found
        /\ UNCHANGED <<files, assets, translated>>
        /\ pc' = IF \E i \in Langs : None \in {found[i].uptime,
                                               found[i].version}
                 THEN "failed" ELSE "serving"
    BY <1>6, Zenon DEF find_marks
  <2> HIDE DEF up, ver
  <2>2. CASE pc' = "failed"
    BY <2>2 DEF TInv
  <2>3. CASE pc' = "serving"
    <3>1. \A i \in Langs : /\ marks'[i].uptime = up(i)
                           /\ marks'[i].version = ver(i)
      BY <2>1
    <3>2. \A i \in Langs : up(i) # None /\ ver(i) # None
      BY <2>1, <2>3
    <3>3. \A k, l : /\ Start(k, l)' = Start(k, l) /\ Need(k, l)' = Need(k, l)
                    /\ Text(k, l)' = Text(k, l)
      BY <2>1, SamePlaces
    <3>4. ASSUME NEW i \in Langs
          PROVE  InPage(i, marks[i].uptime)' /\ InPage(i, marks[i].version)'
      <4>1. InPage(i, up(i)) /\ InPage(i, ver(i))
        BY <2>1, <3>2, FoundInPage DEF up, ver
      <4> QED
        BY <3>1, <3>3, <4>1 DEF InPage
    <3>5. ASSUME NEW i \in Langs, NEW j \in Files
          PROVE  Placed(i, j)' /\ Written(i, j, MarkBytes(i))'
      <4>1. Placed(i, j) /\ Written(i, j, {})
        BY <2>1 DEF TInv
      <4>2. Placed(i, j)'
        BY <2>1, <3>3, <4>1 DEF Placed
      <4>3. Written(i, j, MarkBytes(i))'
        BY <2>1, <3>3, <4>1 DEF Written, Byte
      <4> QED
        BY <4>2, <4>3
    <3> QED
      BY <2>3, <3>4, <3>5 DEF TInv
  <2> QED
    BY <2>1, <2>2, <2>3
<1>7. CASE Stopped \/ UNCHANGED vars
  <2>1. UNCHANGED vars
    BY <1>7 DEF Stopped
  <2>2. \A k, l : /\ Start(k, l)' = Start(k, l) /\ Need(k, l)' = Need(k, l)
                  /\ Text(k, l)' = Text(k, l)
    BY <2>1, SamePlaces DEF vars
  <2>3. \A k : MarkBytes(k)' = MarkBytes(k)
    BY <2>1 DEF MarkBytes, vars
  <2> QED
    BY <2>1, <2>2, <2>3
       DEF vars, TInv, Earlier, Placed, Written, Byte, InPage
<1>8. CASE \E i \in Langs : serve_root(i)
  BY <1>8, ServeKeeps
<1> QED
  BY <1>1, <1>2, <1>3, <1>4, <1>5, <1>6, <1>7, <1>8 DEF Next

(***************************************************************************)
(* Every language always serves each file with each key replaced by that   *)
(* language's text and everything else as it was, however often the marks  *)
(* of the pages were overwritten: for any number of languages, any keys    *)
(* @name@ and any files in which no key follows right behind another.      *)
(***************************************************************************)
THEOREM TranslatedCorrect == Spec => []Translated
<1>1. Init => TInv
  BY DEF Init, TInv
<1>2. AInv /\ TInv => Translated
  <2> SUFFICES ASSUME AInv, TInv, pc = "serving" PROVE Translated
    BY DEF Translated
  <2>1. ASSUME NEW i \in Langs, NEW j \in Files, ~Adjacent(j)
        PROVE  LET want == FlattenSeq([k \in DOMAIN files[j] |->
                                         Value(i, files[j][k])]) \o Tail_
                   a == assets[i][j]
               IN  /\ a.size = Len(want)
                   /\ \A p \in 0..(a.size - 1) :
                        a.data + p \in MarkBytes(i)
                        \/ Byte(translated, a.data + p) = want[p + 1]
    <3> DEFINE want == FlattenSeq([k \in DOMAIN files[j] |->
                                     Value(i, files[j][k])]) \o Tail_
               b == assets[i][j]
    <3>1. Disk /\ Placed(i, j) /\ Written(i, j, MarkBytes(i))
      BY DEF AInv, TInv
    <3>2. Text(i, j) = want
      BY <2>1, <3>1, TranslatesWell, Zenon DEF Text
    <3>3. Need(i, j) = Len(Text(i, j))
      BY <3>1, Places
    <3>4. b.data = Start(i, j) /\ b.size = Need(i, j)
      BY <3>1 DEF Placed
    <3> HIDE DEF want, b
    <3>5. /\ b.size = Len(want)
          /\ \A p \in 0..(b.size - 1) :
               b.data + p \in MarkBytes(i)
               \/ Byte(translated, b.data + p) = want[p + 1]
      BY <3>1, <3>2, <3>3, <3>4 DEF Written
    <3> QED
      BY <3>5, Zenon DEF want, b
  <2> QED
    BY <2>1, Zenon DEF Translated
<1> QED
  BY <1>1, <1>2, TStep, AInvHolds, PTL DEF Spec
=============================================================================
