------------------------- MODULE NativeQueryProofs -------------------------
(***************************************************************************)
(* Proofs about NativeQuery for any template, predicates, arguments and    *)
(* answers, and about the sort of its rows for any orders.  What the       *)
(* recursive functions of the model compute is proved by induction over    *)
(* sets of numbers and of predicates.                                      *)
(***************************************************************************)
EXTENDS NativeQuery, SequenceTheorems, FiniteSetTheorems, TLAPS

LEMMA Least ==
  ASSUME NEW T \in SUBSET Nat, T # {}
  PROVE  \E n \in T : \A m \in T : n <= m
<1> DEFINE R == {ss \in Nat \X Nat : ss[1] < ss[2]}
<1>1. IsWellFoundedOn(R, Nat)
  BY NatLessThanWellFounded DEF OpToRel
<1>2. PICK n \in T : \A m \in T : ~ (<<m, n>> \in R)
  BY <1>1, WFMin
<1>3. \A m \in T : <<m, n>> \in Nat \X Nat
  OBVIOUS
<1>4. \A m \in T : <<m, n>>[1] = m /\ <<m, n>>[2] = n
  OBVIOUS
<1>5. \A m \in T : ~ (m < n)
  BY <1>2, <1>3, <1>4
<1> QED
  BY <1>5

(* Induction up to N: T is the set of numbers of which the fact holds. *)
LEMMA Induct ==
  ASSUME NEW N \in Nat, NEW T, 0 \in T,
         \A n \in 1 .. N : n - 1 \in T => n \in T
  PROVE  \A n \in 0 .. N : n \in T
<1>1. SUFFICES ASSUME (0 .. N) \ T # {} PROVE FALSE
  OBVIOUS
<1>2. PICK n \in (0 .. N) \ T : \A m \in (0 .. N) \ T : n <= m
  <2>1. (0 .. N) \ T \in SUBSET Nat
    OBVIOUS
  <2> QED
    BY <1>1, <2>1, Least
<1>3. n \in 1 .. N /\ n - 1 \in 0 .. N
  BY <1>2
<1>4. n - 1 \in T
  BY <1>2, <1>3
<1> QED
  BY <1>2, <1>3, <1>4

(* A recursion over 1 .. N in S, and a function that follows it.           *)
IsNext(next, N, S) == next \in [1 .. N -> [S -> S]]

Follows(f, first, next, N, S) ==
  /\ f \in [0 .. N -> S] /\ f[0] = first
  /\ \A n \in 1 .. N : f[n] = next[n][f[n - 1]]

LEMMA Recursion ==
  ASSUME NEW N \in Nat, NEW S, NEW first \in S, NEW next, IsNext(next, N, S)
  PROVE  \E f : Follows(f, first, next, N, S)
<1> DEFINE Up(f, k) == Follows(f, first, next, k, S)
           T == {k \in 0 .. N : \E f : Up(f, k)}
<1> USE DEF Follows, IsNext
<1>1. 0 \in T
  <2>1. Up([n \in 0 .. 0 |-> first], 0)
    OBVIOUS
  <2> HIDE DEF Up
  <2>2. 0 \in 0 .. N
    OBVIOUS
  <2> QED
    BY <2>1, <2>2
<1>2. ASSUME NEW k \in 1 .. N, k - 1 \in T
      PROVE  k \in T
  <2>1. PICK f : Up(f, k - 1)
    BY <1>2
  <2>2. f \in [0 .. k - 1 -> S] /\ f[k - 1] \in S
    BY <2>1
  <2>3. next[k] \in [S -> S]
    OBVIOUS
  <2> DEFINE y == next[k][f[k - 1]]
             g == [n \in 0 .. k |-> IF n = k THEN y ELSE f[n]]
  <2>4. y \in S
    BY <2>2, <2>3
  <2> HIDE DEF y
  <2>5. g \in [0 .. k -> S] /\ g[k] = y
    BY <2>2, <2>4
  <2>6. \A n \in 0 .. k - 1 : n # k /\ n \in 0 .. k /\ g[n] = f[n]
    OBVIOUS
  <2>7. g[0] = first
    BY <2>1, <2>6
  <2>8. \A n \in 1 .. k : g[n] = next[n][g[n - 1]]
    <3>1. TAKE n \in 1 .. k
    <3>2. n - 1 \in 0 .. k - 1 /\ g[n - 1] = f[n - 1]
      BY <2>6
    <3>3. CASE n = k
      BY <3>2, <3>3, <2>5 DEF y
    <3>4. CASE n # k
      <4>1. n \in 1 .. k - 1 /\ n \in 0 .. k - 1
        BY <3>4
      <4> QED
        BY <4>1, <3>2, <2>6, <2>1
    <3> QED
      BY <3>3, <3>4
  <2>9. Up(g, k)
    BY <2>5, <2>7, <2>8
  <2> HIDE DEF Up, g
  <2>10. k \in 0 .. N
    OBVIOUS
  <2> QED
    BY <2>9, <2>10
<1> HIDE DEF T
<1>3. N \in T
  <2>1. \A n \in 0 .. N : n \in T
    BY <1>1, <1>2, Induct
  <2> QED
    BY <2>1
<1> QED
  BY <1>3 DEF T

-----------------------------------------------------------------------------
LEMMA ElementType == ASSUME NEW S, NEW q \in Seq(S), NEW i \in DOMAIN q PROVE q[i] \in S
OBVIOUS

LEMMA SeqDomain ==
  ASSUME NEW S, NEW q \in Seq(S)
  PROVE  DOMAIN q = 1 .. Len(q) /\ Len(q) \in Nat
OBVIOUS

LEMMA ExpandedSteps ==
  ASSUME NEW q \in Query, NEW f \in [Symbols -> Query]
  PROVE  /\ Expanded(q, f) \in [0 .. Len(q) -> Query]
         /\ Expanded(q, f)[0] = << >>
         /\ \A n \in 1 .. Len(q) : Expanded(q, f)[n] = Expanded(q, f)[n - 1] \o f[q[n]]
<1> DEFINE next == [n \in 1 .. Len(q) |-> [s \in Query |-> s \o f[q[n]]]]
<1>1. Len(q) \in Nat /\ \A n \in 1 .. Len(q) : q[n] \in Symbols
  BY DEF Query
<1>2. \A n \in 1 .. Len(q) : \A s \in Query : s \o f[q[n]] \in Query
  BY <1>1 DEF Query
<1>3. next \in [1 .. Len(q) -> [Query -> Query]]
  BY <1>2
<1>4. << >> \in Query
  BY DEF Query
<1>5. PICK e : Follows(e, << >>, next, Len(q), Query)
  <2>1. IsNext(next, Len(q), Query)
    BY <1>3 DEF IsNext
  <2> HIDE DEF next
  <2> QED
    BY <1>1, <2>1, <1>4, Recursion
<1>6. \A n \in 1 .. Len(q) : e[n] = e[n - 1] \o f[q[n]]
  <2>1. TAKE n \in 1 .. Len(q)
  <2>2. n - 1 \in 0 .. Len(q)
    BY <1>1
  <2>3. e[n - 1] \in Query
    BY <2>2, <1>5 DEF Follows
  <2>4. next[n][e[n - 1]] = e[n - 1] \o f[q[n]]
    BY <2>3
  <2> HIDE DEF next
  <2> QED
    BY <2>4, <1>5 DEF Follows
<1>7. e = [n \in 0 .. Len(q) |-> IF n = 0 THEN << >> ELSE e[n - 1] \o f[q[n]]]
  <2>1. \A n \in 0 .. Len(q) : e[n] = IF n = 0 THEN << >> ELSE e[n - 1] \o f[q[n]]
    <3>1. TAKE n \in 0 .. Len(q)
    <3>2. n = 0 \/ n \in 1 .. Len(q)
      BY <1>1
    <3> QED
      BY <3>2, <1>5, <1>6, <1>1 DEF Follows
  <2> QED
    BY <2>1, <1>5 DEF Follows
<1> DEFINE Good(g) == g = [n \in 0 .. Len(q) |-> IF n = 0 THEN << >> ELSE g[n - 1] \o f[q[n]]]
<1>8. Expanded(q, f) = CHOOSE g : Good(g)
  BY DEF Expanded
<1>9. Good(Expanded(q, f))
  <2>1. Good(e)
    BY <1>7
  <2> HIDE DEF Good
  <2> QED
    BY <1>8, <2>1
<1> DEFINE x == Expanded(q, f)
<1>10. x = [n \in 0 .. Len(q) |-> IF n = 0 THEN << >> ELSE x[n - 1] \o f[q[n]]]
  BY <1>9
<1> HIDE DEF x
<1>11. \A n \in 0 .. Len(q) : x[n] = IF n = 0 THEN << >> ELSE x[n - 1] \o f[q[n]]
  BY <1>10
<1>12. x[0] = << >>
  BY <1>11, <1>1
<1>13. \A n \in 1 .. Len(q) : x[n] = x[n - 1] \o f[q[n]]
  <2>1. \A n \in 1 .. Len(q) : n \in 0 .. Len(q) /\ n # 0
    BY <1>1
  <2> QED
    BY <1>11, <2>1
<1>14. x \in [0 .. Len(q) -> Query]
  <2> DEFINE T == {n \in 0 .. Len(q) : x[n] \in Query}
  <2>1. 0 \in T
    BY <1>12, <1>4, <1>1
  <2>2. ASSUME NEW n \in 1 .. Len(q), n - 1 \in T PROVE n \in T
    <3>1. n \in 0 .. Len(q) /\ x[n - 1] \in Query
      BY <2>2, <1>1
    <3>2. x[n - 1] \o f[q[n]] \in Query
      BY <3>1, <1>2
    <3>3. x[n] \in Query
      BY <3>2, <1>13
    <3> QED
      BY <3>1, <3>3
  <2>3. \A n \in 0 .. Len(q) : n \in T
    <3> HIDE DEF T
    <3> QED
      BY <2>1, <2>2, <1>1, Induct
  <2> QED
    BY <2>3, <1>10
<1> QED
  BY <1>12, <1>13, <1>14 DEF x

LEMMA ExpandType ==
  ASSUME NEW q \in Query, NEW f \in [Symbols -> Query]
  PROVE  /\ Expand(q, f) \in Query
         /\ \A n \in 0 .. Len(q) : Expanded(q, f)[n] \in Query
<1>1. Len(q) \in 0 .. Len(q)
  BY DEF Query
<1> QED
  BY <1>1, ExpandedSteps DEF Expand

LEMMA QueryParts ==
  ASSUME NEW q \in Query
  PROVE  /\ Len(q) \in Nat /\ DOMAIN q = 1 .. Len(q)
         /\ \A n \in 1 .. Len(q) : q[n] \in Symbols
         /\ ToSet(q) \subseteq Symbols
         /\ \A n \in 1 .. Len(q) : q[n] \in ToSet(q)
BY DEF Query, ToSet

LEMMA ConcatParts ==
  ASSUME NEW q \in Query, NEW r \in Query
  PROVE  /\ q \o r \in Query /\ Len(q \o r) = Len(q) + Len(r)
         /\ \A n \in 1 .. Len(q) : (q \o r)[n] = q[n]
         /\ \A n \in 1 .. Len(r) : (q \o r)[Len(q) + n] = r[n]
BY DEF Query

LEMMA ExpandOne ==
  ASSUME NEW x \in Symbols, NEW f \in [Symbols -> Query]
  PROVE  Expand(<<x>>, f) = f[x]
<1>1. <<x>> \in Query /\ Len(<<x>>) = 1 /\ <<x>>[1] = x
  BY DEF Query
<1>2. Expanded(<<x>>, f)[1] = Expanded(<<x>>, f)[0] \o f[x] /\ Expanded(<<x>>, f)[0] = << >>
  <2> DEFINE q == <<x>>
  <2>1. 1 \in 1 .. Len(q) /\ 1 - 1 = 0 /\ q \in Query /\ q[1] = x
    BY <1>1
  <2> HIDE DEF q
  <2>2. Expanded(q, f)[1] = Expanded(q, f)[1 - 1] \o f[q[1]] /\ Expanded(q, f)[0] = << >>
    BY <2>1, ExpandedSteps
  <2> QED
    BY <2>1, <2>2 DEF q
<1>3. << >> \o f[x] = f[x]
  <2>1. f[x] \in Query
    OBVIOUS
  <2> QED
    BY <2>1, ConcatEmptySeq DEF Query
<1> QED
  BY <1>1, <1>2, <1>3 DEF Expand

LEMMA ExpandPrefix ==
  ASSUME NEW q \in Query, NEW r \in Query, NEW f \in [Symbols -> Query]
  PROVE  \A n \in 0 .. Len(q) : Expanded(q \o r, f)[n] = Expanded(q, f)[n]
<1> DEFINE s == q \o r
           T == {n \in 0 .. Len(q) : Expanded(s, f)[n] = Expanded(q, f)[n]}
<1>1. /\ s \in Query /\ Len(s) = Len(q) + Len(r)
      /\ \A n \in 1 .. Len(q) : s[n] = q[n]
      /\ Len(q) \in Nat /\ Len(r) \in Nat
  BY ConcatParts, QueryParts
<1> HIDE DEF s
<1>2. 0 \in T
  <2>1. Expanded(s, f)[0] = << >> /\ Expanded(q, f)[0] = << >>
    BY <1>1, ExpandedSteps
  <2> QED
    BY <1>1, <2>1
<1>3. ASSUME NEW n \in 1 .. Len(q), n - 1 \in T PROVE n \in T
  <2>1. n \in 1 .. Len(s) /\ n \in 0 .. Len(q)
    BY <1>1
  <2>2. Expanded(s, f)[n] = Expanded(s, f)[n - 1] \o f[s[n]]
    BY <1>1, <2>1, ExpandedSteps
  <2>3. Expanded(q, f)[n] = Expanded(q, f)[n - 1] \o f[q[n]]
    BY <1>3, ExpandedSteps
  <2> QED
    BY <2>1, <2>2, <2>3, <1>3, <1>1
<1>4. \A n \in 0 .. Len(q) : n \in T
  <2> HIDE DEF T
  <2> QED
    BY <1>1, <1>2, <1>3, Induct
<1> QED
  BY <1>4 DEF s

LEMMA ExpandConcat ==
  ASSUME NEW q \in Query, NEW r \in Query, NEW f \in [Symbols -> Query]
  PROVE  Expand(q \o r, f) = Expand(q, f) \o Expand(r, f)
<1> DEFINE s == q \o r
           T == {n \in 0 .. Len(r) :
                   Expanded(s, f)[Len(q) + n] = Expand(q, f) \o Expanded(r, f)[n]}
<1>1. /\ s \in Query /\ Len(s) = Len(q) + Len(r)
      /\ \A n \in 1 .. Len(r) : s[Len(q) + n] = r[n]
      /\ Len(q) \in Nat /\ Len(r) \in Nat
  BY ConcatParts, QueryParts
<1>2. 0 \in T
  <2>1. Expanded(s, f)[Len(q)] = Expand(q, f)
    <3>1. Len(q) \in 0 .. Len(q)
      BY <1>1
    <3> QED
      BY <3>1, ExpandPrefix DEF Expand
  <2>2. Expanded(r, f)[0] = << >>
    BY ExpandedSteps
  <2>3. Expand(q, f) \o << >> = Expand(q, f)
    BY ExpandType, ConcatEmptySeq DEF Query
  <2>4. Len(q) + 0 = Len(q) /\ 0 \in 0 .. Len(r)
    BY <1>1
  <2> QED
    BY <2>1, <2>2, <2>3, <2>4
<1> HIDE DEF s
<1>3. ASSUME NEW n \in 1 .. Len(r), n - 1 \in T PROVE n \in T
  <2> DEFINE m == Len(q) + n
  <2>1. m \in 1 .. Len(s) /\ n \in 0 .. Len(r) /\ m - 1 = Len(q) + (n - 1)
    BY <1>1
  <2>2. Expanded(s, f)[m] = Expanded(s, f)[m - 1] \o f[s[m]]
    BY <1>1, <2>1, ExpandedSteps
  <2>3. Expanded(r, f)[n] = Expanded(r, f)[n - 1] \o f[r[n]]
    BY <1>3, ExpandedSteps
  <2>4. Expanded(s, f)[m - 1] = Expand(q, f) \o Expanded(r, f)[n - 1]
    BY <1>3, <2>1
  <2>5. s[m] = r[n]
    BY <1>1
  <2>6. /\ Expand(q, f) \in Query /\ Expanded(r, f)[n - 1] \in Query /\ f[r[n]] \in Query
    <3>1. n - 1 \in 0 .. Len(r) /\ r[n] \in Symbols
      BY <1>1, QueryParts
    <3> QED
      BY <3>1, ExpandType
  <2>7. Expanded(s, f)[m] = Expand(q, f) \o Expanded(r, f)[n]
    <3> DEFINE a == Expand(q, f)
               b == Expanded(r, f)[n - 1]
               c == f[r[n]]
    <3>1. (a \o b) \o c = a \o (b \o c)
      <4>1. a \in Seq(Symbols) /\ b \in Seq(Symbols) /\ c \in Seq(Symbols)
        BY <2>6 DEF Query
      <4> HIDE DEF a, b, c
      <4> QED
        BY <4>1, ConcatAssociative
    <3> QED
      BY <3>1, <2>2, <2>3, <2>4, <2>5
  <2> QED
    BY <2>7, <2>1
<1>4. \A n \in 0 .. Len(r) : n \in T
  <2> HIDE DEF T
  <2> QED
    BY <1>1, <1>2, <1>3, Induct
<1>5. Expanded(s, f)[Len(q) + Len(r)] = Expand(q, f) \o Expanded(r, f)[Len(r)]
  <2>1. Len(r) \in 0 .. Len(r)
    BY <1>1
  <2> QED
    BY <2>1, <1>4
<1> QED
  BY <1>1, <1>5 DEF Expand, s

(* What is expanded twice is expanded once, by what the first expansion    *)
(* becomes in the second.                                                  *)
LEMMA ExpandTwice ==
  ASSUME NEW q \in Query, NEW f \in [Symbols -> Query], NEW g \in [Symbols -> Query],
         NEW h \in [Symbols -> Query],
         \A x \in ToSet(q) : h[x] = Expand(f[x], g)
  PROVE  Expand(Expand(q, f), g) = Expand(q, h)
<1> DEFINE T == {n \in 0 .. Len(q) : Expand(Expanded(q, f)[n], g) = Expanded(q, h)[n]}
<1>1. Len(q) \in Nat
  BY QueryParts
<1>2. 0 \in T
  <2>1. Expanded(q, f)[0] = << >> /\ Expanded(q, h)[0] = << >>
    BY ExpandedSteps
  <2>2. Expand(<< >>, g) = << >>
    <3>1. << >> \in Query /\ Len(<< >>) = 0
      BY DEF Query
    <3> QED
      BY <3>1, ExpandedSteps DEF Expand
  <2> QED
    BY <1>1, <2>1, <2>2
<1>3. ASSUME NEW n \in 1 .. Len(q), n - 1 \in T PROVE n \in T
  <2> DEFINE a == Expanded(q, f)[n - 1]
             x == q[n]
  <2>1. n \in 0 .. Len(q) /\ n - 1 \in 0 .. Len(q) /\ x \in ToSet(q) /\ x \in Symbols
    BY <1>1, QueryParts
  <2>2. Expanded(q, f)[n] = a \o f[x] /\ Expanded(q, h)[n] = Expanded(q, h)[n - 1] \o h[x]
    BY <1>3, ExpandedSteps
  <2>3. a \in Query /\ f[x] \in Query
    BY <2>1, ExpandType
  <2>4. Expand(a, g) = Expanded(q, h)[n - 1]
    BY <1>3
  <2> HIDE DEF a
  <2>5. Expand(a \o f[x], g) = Expand(a, g) \o Expand(f[x], g)
    BY <2>3, ExpandConcat
  <2> QED
    BY <2>1, <2>2, <2>4, <2>5
<1>4. \A n \in 0 .. Len(q) : n \in T
  <2> HIDE DEF T
  <2> QED
    BY <1>1, <1>2, <1>3, Induct
<1>5. Len(q) \in T
  BY <1>1, <1>4
<1> QED
  BY <1>5 DEF Expand

LEMMA ExpandSame ==
  ASSUME NEW q \in Query, NEW f \in [Symbols -> Query],
         \A x \in ToSet(q) : f[x] = <<x>>
  PROVE  Expand(q, f) = q
<1> DEFINE T == {n \in 0 .. Len(q) : Expanded(q, f)[n] = SubSeq(q, 1, n)}
<1>1. Len(q) \in Nat /\ q \in Seq(Symbols)
  BY QueryParts DEF Query
<1>2. 0 \in T
  <2>1. Expanded(q, f)[0] = << >>
    BY ExpandedSteps
  <2>2. SubSeq(q, 1, 0) = << >>
    BY SubSeqEmpty
  <2>3. Expanded(q, f)[0] = SubSeq(q, 1, 0) /\ 0 \in 0 .. Len(q)
    BY <1>1, <2>1, <2>2
  <2> QED
    BY <2>3, Zenon
<1>3. ASSUME NEW n \in 1 .. Len(q), n - 1 \in T PROVE n \in T
  <2>1. Expanded(q, f)[n] = Expanded(q, f)[n - 1] \o <<q[n]>>
    BY ExpandedSteps, QueryParts
  <2>2. SubSeq(q, 1, n) = SubSeq(q, 1, n - 1) \o <<q[n]>>
    <3>1. 1 \in 1 .. Len(q) /\ n \in 1 .. Len(q)
      BY <1>1
    <3> QED
      BY <1>1, <3>1, SubSeqRecursiveSecond
  <2>3. n \in 0 .. Len(q)
    BY <1>1
  <2> QED
    BY <1>3, <2>1, <2>2, <2>3
<1>4. \A n \in 0 .. Len(q) : n \in T
  <2> HIDE DEF T
  <2> QED
    BY <1>1, <1>2, <1>3, Induct
<1>5. Len(q) \in T
  BY <1>1, <1>4
<1>6. SubSeq(q, 1, Len(q)) = q
  BY <1>1, SubSeqFull
<1> QED
  BY <1>5, <1>6 DEF Expand

LEMMA ConcatElements ==
  ASSUME NEW E, NEW q \in Seq(E), NEW r \in Seq(E)
  PROVE  ToSet(q \o r) = ToSet(q) \cup ToSet(r)
<1> DEFINE c == q \o r
<1>1. Len(q) \in Nat /\ Len(r) \in Nat /\ DOMAIN q = 1 .. Len(q) /\ DOMAIN r = 1 .. Len(r)
  BY SeqDomain
<1>2. DOMAIN c = 1 .. Len(q) + Len(r)
      /\ \A k \in 1 .. Len(q) + Len(r) : c[k] = IF k <= Len(q) THEN q[k] ELSE r[k - Len(q)]
  <2>1. c \in Seq(E) /\ Len(c) = Len(q) + Len(r)
        /\ \A k \in 1 .. Len(q) + Len(r) : c[k] = IF k <= Len(q) THEN q[k] ELSE r[k - Len(q)]
    BY ConcatProperties
  <2>2. DOMAIN c = 1 .. Len(c)
    BY <2>1, SeqDomain
  <2> QED
    BY <2>1, <2>2
<1> HIDE DEF c
<1>3. \A k \in 1 .. Len(q) : k \in DOMAIN c /\ c[k] = q[k]
  BY <1>1, <1>2
<1>4. \A k \in 1 .. Len(r) : k + Len(q) \in DOMAIN c /\ c[k + Len(q)] = r[k]
  <2>1. TAKE k \in 1 .. Len(r)
  <2>2. k + Len(q) \in 1 .. Len(q) + Len(r) /\ ~ (k + Len(q) <= Len(q))
        /\ (k + Len(q)) - Len(q) = k
    BY <1>1
  <2> QED
    BY <2>2, <1>2
<1>5. \A k \in DOMAIN c : c[k] \in ToSet(q) \cup ToSet(r)
  <2>1. TAKE k \in DOMAIN c
  <2>2. CASE k <= Len(q)
    <3>1. k \in DOMAIN q /\ c[k] = q[k]
      BY <2>2, <1>1, <1>2
    <3> QED
      BY <3>1 DEF ToSet
  <2>3. CASE ~ (k <= Len(q))
    <3>1. k - Len(q) \in DOMAIN r /\ c[k] = r[k - Len(q)]
      BY <2>3, <1>1, <1>2
    <3> QED
      BY <3>1 DEF ToSet
  <2> QED
    BY <2>2, <2>3
<1>6. \A x : x \in ToSet(q) => x \in ToSet(c)
  BY <1>1, <1>3 DEF ToSet
<1>7. \A x : x \in ToSet(r) => x \in ToSet(c)
  BY <1>1, <1>4 DEF ToSet
<1>8. \A x : x \in ToSet(c) => x \in ToSet(q) \cup ToSet(r)
  BY <1>5 DEF ToSet
<1>9. \A x : x \in ToSet(c) <=> x \in ToSet(q) \cup ToSet(r)
  BY <1>6, <1>7, <1>8
<1> QED
  BY <1>9 DEF c

LEMMA ExpandSymbols ==
  ASSUME NEW q \in Query, NEW f \in [Symbols -> Query], NEW y
  PROVE  y \in ToSet(Expand(q, f)) <=> \E x \in ToSet(q) : y \in ToSet(f[x])
<1> DEFINE T == {n \in 0 .. Len(q) : y \in ToSet(Expanded(q, f)[n])
                                       <=> \E i \in 1 .. n : y \in ToSet(f[q[i]])}
<1>1. Len(q) \in Nat
  BY QueryParts
<1>2. 0 \in T
  <2>1. Expanded(q, f)[0] = << >>
    BY ExpandedSteps
  <2>2. ToSet(<< >>) = {}
    BY DEF ToSet
  <2>3. 1 .. 0 = {}
    OBVIOUS
  <2> QED
    BY <1>1, <2>1, <2>2, <2>3
<1>3. ASSUME NEW n \in 1 .. Len(q), n - 1 \in T PROVE n \in T
  <2> DEFINE a == Expanded(q, f)[n - 1]
             b == f[q[n]]
  <2>1. Expanded(q, f)[n] = a \o b
    BY ExpandedSteps
  <2>2. n \in 0 .. Len(q) /\ n - 1 \in 0 .. Len(q) /\ a \in Query /\ b \in Query
    BY <1>1, ExpandType, QueryParts
  <2> HIDE DEF a
  <2>3. ToSet(a \o b) = ToSet(a) \cup ToSet(b)
    BY <2>2, ConcatElements DEF Query
  <2>4. y \in ToSet(a) <=> \E i \in 1 .. n - 1 : y \in ToSet(f[q[i]])
    BY <1>3 DEF a
  <2>5. 1 .. n = (1 .. n - 1) \cup {n}
    BY <1>1
  <2> QED
    BY <2>1, <2>2, <2>3, <2>4, <2>5
<1>4. \A n \in 0 .. Len(q) : n \in T
  <2> HIDE DEF T
  <2> QED
    BY <1>1, <1>2, <1>3, Induct
<1>5. Len(q) \in T
  BY <1>1, <1>4
<1>6. y \in ToSet(Expand(q, f)) <=> \E i \in 1 .. Len(q) : y \in ToSet(f[q[i]])
  BY <1>5 DEF Expand
<1>7. ToSet(q) = {q[i] : i \in 1 .. Len(q)}
  BY QueryParts DEF ToSet
<1> QED
  BY <1>6, <1>7

-----------------------------------------------------------------------------
LEMMA PointerType ==
  ASSUME NEW S, NEW p \in Pointers(S)
  PROVE  /\ p \in Seq(S)
         /\ p = << >> \/ /\ p # << >> /\ p[1] \in S /\ p = <<p[1]>> /\ DOMAIN p = {1}
                         /\ ToSet(p) = {p[1]}
<1>1. p \in Seq(S) /\ Len(p) <= 1 /\ Len(p) \in Nat
  BY DEF Pointers
<1>2. CASE Len(p) = 0
  BY <1>1, <1>2
<1>3. CASE Len(p) = 1
  <2>1. DOMAIN p = 1 .. 1 /\ 1 .. 1 = {1}
    BY <1>1, <1>3
  <2>2. p[1] \in S /\ p # << >>
    BY <1>1, <1>3
  <2>3. p = <<p[1]>>
    BY <1>1, <1>3
  <2>4. ToSet(p) = {p[1]}
    BY <2>1 DEF ToSet
  <2> QED
    BY <1>1, <2>1, <2>2, <2>3, <2>4
<1>4. Len(p) = 0 \/ Len(p) = 1
  <2>1. \A m \in Nat : m <= 1 => m = 0 \/ m = 1
    OBVIOUS
  <2> QED
    BY <1>1, <2>1, Zenon
<1> QED
  BY <1>2, <1>3, <1>4

LEMMA PointerElement ==
  ASSUME NEW S, NEW p \in Pointers(S), p # << >>
  PROVE  p[1] \in S /\ p[1] \in ToSet(p) /\ p = <<p[1]>>
BY PointerType

LEMMA PointerTo == ASSUME NEW S, NEW x \in S PROVE <<x>> \in Pointers(S)
BY DEF Pointers

LEMMA NilPointer == ASSUME NEW S PROVE << >> \in Pointers(S)
BY DEF Pointers

LEMMA TermType ==
  ASSUME NEW e \in Expressions, e.kind = "time"
  PROVE  e.bound \in Pointers(Nat) /\ e.ok \in BOOLEAN /\ e.var \in BOOLEAN
<1>1. e \in Leaves
  <2>1. IsTerm(e)
    BY NativeAssumption
  <2> QED
    BY <2>1 DEF IsTerm
<1>2. e \in [kind : {"time"}, op : STRING, bound : Pointers(Nat), ok : BOOLEAN, var : BOOLEAN,
             text : {"undecodable", "none", "some"}]
  BY <1>1 DEF Leaves
<1> QED
  BY <1>2

Taking == [ok : BOOLEAN, time : [Fields -> Pointers(Nat)]]

LEMMA TakeType ==
  ASSUME NEW acc \in Taking, NEW e \in Expressions
  PROVE  Take(acc, e) \in Taking
<1>1. acc.ok \in BOOLEAN /\ acc.time \in [Fields -> Pointers(Nat)]
      /\ acc = [ok |-> acc.ok, time |-> acc.time]
  BY DEF Taking
<1>2. CASE /\ e.kind = "time" /\ e.op \in TimeOps /\ Decodable(e)
           /\ acc.time[FieldOf(e.op)] = << >>
  <2>1. Take(acc, e) = [acc EXCEPT !.time[FieldOf(e.op)] = e.bound]
    BY <1>2 DEF Take
  <2>2. e.bound \in Pointers(Nat)
    BY <1>2, TermType
  <2> QED
    BY <1>1, <2>1, <2>2 DEF Taking
<1>3. CASE ~ /\ e.kind = "time" /\ e.op \in TimeOps /\ Decodable(e)
             /\ acc.time[FieldOf(e.op)] = << >>
  <2>1. Take(acc, e) = [acc EXCEPT !.ok = acc.ok /\ e.kind \notin {"time", "other"}]
    BY <1>3 DEF Take
  <2>2. (acc.ok /\ e.kind \notin {"time", "other"}) \in BOOLEAN
    OBVIOUS
  <2> QED
    BY <1>1, <2>1, <2>2 DEF Taking
<1> QED
  BY <1>2, <1>3

NothingTaken == [ok |-> TRUE, time |-> NoTime]

LEMMA TakenSteps ==
  ASSUME NEW terms \in Seq(Expressions)
  PROVE  /\ Taken(terms) \in [0 .. Len(terms) -> Taking]
         /\ Taken(terms)[0] = NothingTaken
         /\ \A n \in 1 .. Len(terms) : Taken(terms)[n] = Take(Taken(terms)[n - 1], terms[n])
<1> DEFINE next == [n \in 1 .. Len(terms) |-> [s \in Taking |-> Take(s, terms[n])]]
<1>1. Len(terms) \in Nat /\ \A n \in 1 .. Len(terms) : terms[n] \in Expressions
  OBVIOUS
<1>2. \A n \in 1 .. Len(terms) : \A s \in Taking : Take(s, terms[n]) \in Taking
  BY <1>1, TakeType
<1>3. IsNext(next, Len(terms), Taking)
  BY <1>2 DEF IsNext
<1>4. NothingTaken \in Taking
  BY NilPointer DEF NothingTaken, Taking, NoTime
<1>5. PICK e : Follows(e, NothingTaken, next, Len(terms), Taking)
  <2> HIDE DEF next
  <2> QED
    BY <1>1, <1>3, <1>4, Recursion
<1>6. \A n \in 1 .. Len(terms) : e[n] = Take(e[n - 1], terms[n])
  <2>1. TAKE n \in 1 .. Len(terms)
  <2>2. n - 1 \in 0 .. Len(terms)
    BY <1>1
  <2>3. e[n - 1] \in Taking
    BY <2>2, <1>5 DEF Follows
  <2>4. next[n][e[n - 1]] = Take(e[n - 1], terms[n])
    BY <2>3
  <2> HIDE DEF next
  <2> QED
    BY <2>4, <1>5 DEF Follows
<1> DEFINE Good(g) ==
      g = [n \in 0 .. Len(terms) |->
             IF n = 0 THEN [ok |-> TRUE, time |-> NoTime] ELSE Take(g[n - 1], terms[n])]
<1>7. Good(e)
  <2>1. \A n \in 0 .. Len(terms) : e[n] = IF n = 0 THEN NothingTaken ELSE Take(e[n - 1], terms[n])
    <3>1. TAKE n \in 0 .. Len(terms)
    <3>2. n = 0 \/ n \in 1 .. Len(terms)
      BY <1>1
    <3>3. e[0] = NothingTaken
      BY <1>5 DEF Follows
    <3> QED
      BY <3>2, <3>3, <1>6, <1>1
  <2>2. e = [n \in 0 .. Len(terms) |-> e[n]]
    BY <1>5 DEF Follows
  <2> QED
    BY <2>1, <2>2 DEF NothingTaken
<1>8. Taken(terms) = CHOOSE g : Good(g)
  BY DEF Taken
<1>9. Good(Taken(terms))
  <2> HIDE DEF Good
  <2> QED
    BY <1>7, <1>8
<1> DEFINE x == Taken(terms)
<1>10. x = [n \in 0 .. Len(terms) |-> IF n = 0 THEN NothingTaken ELSE Take(x[n - 1], terms[n])]
  BY <1>9 DEF NothingTaken
<1> HIDE DEF x
<1>11. \A n \in 0 .. Len(terms) : x[n] = IF n = 0 THEN NothingTaken ELSE Take(x[n - 1], terms[n])
  BY <1>10
<1>12. x[0] = NothingTaken
  BY <1>11, <1>1
<1>13. \A n \in 1 .. Len(terms) : x[n] = Take(x[n - 1], terms[n])
  <2>1. \A n \in 1 .. Len(terms) : n \in 0 .. Len(terms) /\ n # 0
    BY <1>1
  <2> QED
    BY <1>11, <2>1
<1>14. x \in [0 .. Len(terms) -> Taking]
  <2> DEFINE T == {n \in 0 .. Len(terms) : x[n] \in Taking}
  <2>1. 0 \in T
    BY <1>12, <1>4, <1>1
  <2>2. ASSUME NEW n \in 1 .. Len(terms), n - 1 \in T PROVE n \in T
    <3>1. n \in 0 .. Len(terms) /\ x[n - 1] \in Taking
      BY <2>2, <1>1
    <3>2. Take(x[n - 1], terms[n]) \in Taking
      BY <3>1, <1>2
    <3>3. x[n] \in Taking
      BY <3>2, <1>13
    <3> QED
      BY <3>1, <3>3
  <2>3. \A n \in 0 .. Len(terms) : n \in T
    <3> HIDE DEF T
    <3> QED
      BY <2>1, <2>2, <1>1, Induct
  <2> QED
    BY <2>3, <1>10
<1> QED
  BY <1>12, <1>13, <1>14 DEF x

(* The bounds that the first n terms set for a field, and a term that the  *)
(* ones before it leave acceptable.                                        *)
Marked(terms, n, field) ==
  {terms[i].bound[1] : i \in {j \in 1 .. n : Sets(terms[j], field)}}

Fine(terms, i) ==
  /\ terms[i].kind # "other"
  /\ terms[i].kind = "time" =>
       /\ terms[i].op \in TimeOps /\ Decodable(terms[i])
       /\ \A j \in 1 .. (i - 1) : ~Sets(terms[j], FieldOf(terms[i].op))

TakenMeans(terms, n) ==
  /\ Taken(terms)[n].ok <=> \A i \in 1 .. n : Fine(terms, i)
  /\ \A f \in Fields :
       /\ ToSet(Taken(terms)[n].time[f]) \subseteq Marked(terms, n, f)
       /\ Taken(terms)[n].ok /\ Taken(terms)[n].time[f] = << >> =>
            \A i \in 1 .. n : ~Sets(terms[i], f)

LEMMA FieldOfType == \A op : FieldOf(op) \in Fields
BY DEF FieldOf, Fields

LEMMA SplitLast ==
  ASSUME NEW n \in Nat \ {0}
  PROVE  1 .. n = (1 .. n - 1) \cup {n} /\ n \notin 1 .. n - 1
OBVIOUS

LEMMA MarkedNext ==
  ASSUME NEW terms, NEW n \in Nat \ {0}, NEW f
  PROVE  /\ Marked(terms, n - 1, f) \subseteq Marked(terms, n, f)
         /\ Sets(terms[n], f) => terms[n].bound[1] \in Marked(terms, n, f)
BY SplitLast DEF Marked

LEMMA TakenOne ==
  ASSUME NEW terms \in Seq(Expressions), NEW n \in 1 .. Len(terms), TakenMeans(terms, n - 1)
  PROVE  TakenMeans(terms, n)
<1> DEFINE acc == Taken(terms)[n - 1]
           new == Taken(terms)[n]
           e == terms[n]
           F == FieldOf(e.op)
<1>1. n \in Nat \ {0} /\ n - 1 \in 0 .. Len(terms) /\ n \in 0 .. Len(terms) /\ e \in Expressions
  OBVIOUS
<1>2. new = Take(acc, e) /\ acc \in Taking /\ new \in Taking
  BY <1>1, TakenSteps
<1>3. /\ acc.ok \in BOOLEAN /\ acc.time \in [Fields -> Pointers(Nat)]
      /\ F \in Fields /\ acc = [ok |-> acc.ok, time |-> acc.time]
  BY <1>2, FieldOfType DEF Taking
<1>4. /\ acc.ok <=> \A i \in 1 .. n - 1 : Fine(terms, i)
      /\ \A f \in Fields :
           /\ ToSet(acc.time[f]) \subseteq Marked(terms, n - 1, f)
           /\ acc.ok /\ acc.time[f] = << >> => \A i \in 1 .. n - 1 : ~Sets(terms[i], f)
  BY DEF TakenMeans
<1>5. 1 .. n = (1 .. n - 1) \cup {n}
  BY <1>1, SplitLast
<1>6. \A f \in Fields : Marked(terms, n - 1, f) \subseteq Marked(terms, n, f)
  BY <1>1, MarkedNext
<1> HIDE DEF acc, new
<1>7. ASSUME acc.time[F] # << >>, NEW dummy
      PROVE  \E j \in 1 .. n - 1 : Sets(terms[j], F)
  <2>1. acc.time[F] \in Pointers(Nat)
    BY <1>3
  <2> DEFINE p == acc.time[F]
  <2>2. p[1] \in ToSet(p)
    <3> HIDE DEF p
    <3> QED
      BY <1>7, <2>1, PointerElement DEF p
  <2>3. p[1] \in Marked(terms, n - 1, F)
    BY <2>2, <1>4, <1>3
  <2> QED
    BY <2>3 DEF Marked
<1>8. CASE e.kind = "time" /\ e.op \in TimeOps /\ Decodable(e) /\ acc.time[F] = << >>
  <2>1. new.ok = acc.ok /\ new.time = [acc.time EXCEPT ![F] = e.bound]
    BY <1>2, <1>3, <1>8 DEF Take
  <2>2. e.bound \in Pointers(Nat)
    BY <1>1, <1>8, TermType
  <2>3. acc.ok => Fine(terms, n)
    BY <1>3, <1>4, <1>8 DEF Fine
  <2>4. new.ok <=> \A i \in 1 .. n : Fine(terms, i)
    BY <1>4, <1>5, <2>1, <2>3
  <2>5. ASSUME NEW f \in Fields
        PROVE  /\ ToSet(new.time[f]) \subseteq Marked(terms, n, f)
               /\ new.ok /\ new.time[f] = << >> => \A i \in 1 .. n : ~Sets(terms[i], f)
    <3>1. CASE f = F
      <4>1. new.time[f] = e.bound
        BY <2>1, <1>3, <3>1
      <4>2. Sets(e, f) <=> e.bound # << >>
        BY <1>8, <3>1 DEF Sets
      <4>3. ToSet(e.bound) \subseteq Marked(terms, n, f)
        <5>1. CASE e.bound = << >>
          BY <5>1 DEF ToSet
        <5>2. CASE e.bound # << >>
          BY <5>2, <2>2, <4>2, <1>1, MarkedNext, PointerType
        <5> QED
          BY <5>1, <5>2
      <4>4. new.ok /\ new.time[f] = << >> => \A i \in 1 .. n : ~Sets(terms[i], f)
        BY <4>1, <4>2, <1>4, <1>5, <1>8, <2>1, <3>1
      <4> QED
        BY <4>1, <4>3, <4>4
    <3>2. CASE f # F
      <4>1. new.time[f] = acc.time[f]
        BY <2>1, <1>3, <3>2
      <4>2. ~Sets(e, f)
        BY <3>2 DEF Sets
      <4> QED
        BY <4>1, <4>2, <1>4, <1>5, <1>6, <2>1
    <3> QED
      BY <3>1, <3>2
  <2> QED
    BY <2>4, <2>5 DEF TakenMeans, new
<1>9. CASE ~(e.kind = "time" /\ e.op \in TimeOps /\ Decodable(e) /\ acc.time[F] = << >>)
  <2>1. new = [acc EXCEPT !.ok = acc.ok /\ e.kind \notin {"time", "other"}]
    BY <1>2, <1>9 DEF Take
  <2>2. new.ok = (acc.ok /\ e.kind \notin {"time", "other"}) /\ new.time = acc.time
    <3>1. (acc.ok /\ e.kind \notin {"time", "other"}) \in BOOLEAN
      OBVIOUS
    <3> QED
      BY <2>1, <3>1, <1>3
  <2>3. Fine(terms, n) /\ acc.ok => e.kind \notin {"time", "other"}
    <3>1. ASSUME Fine(terms, n), acc.ok, e.kind = "time" PROVE FALSE
      <4>1. acc.time[F] # << >>
        BY <1>9, <3>1 DEF Fine
      <4>2. PICK j \in 1 .. n - 1 : Sets(terms[j], F)
        BY <4>1, <1>7
      <4> QED
        BY <3>1, <4>2 DEF Fine
    <3> QED
      BY <3>1 DEF Fine
  <2>4. e.kind \notin {"time", "other"} => Fine(terms, n)
    BY DEF Fine
  <2>5. new.ok <=> \A i \in 1 .. n : Fine(terms, i)
    BY <1>4, <1>5, <2>2, <2>3, <2>4
  <2>6. ASSUME NEW f \in Fields
        PROVE  /\ ToSet(new.time[f]) \subseteq Marked(terms, n, f)
               /\ new.ok /\ new.time[f] = << >> => \A i \in 1 .. n : ~Sets(terms[i], f)
    <3>1. e.kind # "time" => ~Sets(e, f)
      BY DEF Sets
    <3> QED
      BY <3>1, <1>4, <1>5, <1>6, <2>2
  <2> QED
    BY <2>5, <2>6 DEF TakenMeans, new
<1> QED
  BY <1>8, <1>9

LEMMA TakenFacts ==
  ASSUME NEW terms \in Seq(Expressions)
  PROVE  TakenMeans(terms, Len(terms))
<1> DEFINE T == {n \in 0 .. Len(terms) : TakenMeans(terms, n)}
<1>1. Len(terms) \in Nat
  OBVIOUS
<1>2. 0 \in T
  <2>1. Taken(terms)[0].ok = TRUE /\ \A f \in Fields : Taken(terms)[0].time[f] = << >>
    BY TakenSteps DEF NothingTaken, NoTime
  <2>2. ToSet(<< >>) = {} /\ 1 .. 0 = {}
    BY DEF ToSet
  <2>3. TakenMeans(terms, 0)
    BY <2>1, <2>2 DEF TakenMeans
  <2> QED
    BY <1>1, <2>3
<1>3. ASSUME NEW n \in 1 .. Len(terms), n - 1 \in T PROVE n \in T
  <2>1. n \in 0 .. Len(terms)
    BY <1>1
  <2> QED
    BY <1>3, <2>1, TakenOne
<1>4. \A n \in 0 .. Len(terms) : n \in T
  <2> HIDE DEF T
  <2> QED
    BY <1>1, <1>2, <1>3, Induct
<1> QED
  BY <1>1, <1>4

-----------------------------------------------------------------------------
LEMMA RequestType ==
  ASSUME TypeOK
  PROVE  /\ request.kind \in {"native", "raw"} /\ request.explain \in BOOLEAN
         /\ request.predicate \in Pointers(Expressions)
         /\ request.arguments \in [Names -> Pointers(Argument)]
         /\ request.step.ok \in BOOLEAN /\ request.step.value \in Nat
         /\ request.timeout.ok \in BOOLEAN /\ request.flat.ok \in BOOLEAN
         /\ request.order.ok \in BOOLEAN
         /\ request.query.ok \in BOOLEAN /\ request.query.value \in Query
         /\ request.times \in [Fields -> TimeArgument]
<1>1. request \in Request
  BY NativeAssumption DEF TypeOK
<1>2. /\ request.kind \in {"native", "raw"} /\ request.explain \in BOOLEAN
      /\ request.predicate \in Pointers(Expressions)
      /\ request.arguments \in [Names -> Pointers(Argument)]
      /\ request.times \in [Fields -> TimeArgument]
  BY <1>1 DEF Request
<1>3. /\ request.step \in [ok : BOOLEAN, value : Nat]
      /\ request.timeout \in [ok : BOOLEAN]
      /\ request.flat \in [ok : BOOLEAN, value : Pointers(BOOLEAN)]
      /\ request.order \in [ok : BOOLEAN, by : Orders]
      /\ request.query \in Argument
  BY <1>1 DEF Request
<1>4. request.step.ok \in BOOLEAN /\ request.step.value \in Nat
  BY <1>3
<1>5. /\ request.timeout.ok \in BOOLEAN /\ request.flat.ok \in BOOLEAN
      /\ request.order.ok \in BOOLEAN
  BY <1>3
<1>6. request.query.ok \in BOOLEAN /\ request.query.value \in Query
  BY <1>3 DEF Argument
<1> QED
  BY <1>2, <1>4, <1>5, <1>6

LEMMA SettingType ==
  ASSUME TypeOK, NEW key \in Settings
  PROVE  /\ request[key].ok \in BOOLEAN
         /\ key = "step" => request[key].ok = request.step.ok
         /\ key = "timeout" => request[key].ok = request.timeout.ok
<1>1. key = "step" \/ key = "timeout"
  BY DEF Settings
<1> QED
  BY <1>1, RequestType

LEMMA ArgumentType ==
  ASSUME TypeOK, NEW k \in Names, request.arguments[k] # << >>
  PROVE  /\ request.arguments[k][1].ok \in BOOLEAN
         /\ request.arguments[k][1].value \in Query
         /\ DOMAIN request.arguments[k] = {1}
<1>1. request.arguments[k] \in Pointers(Argument)
  BY RequestType
<1> DEFINE p == request.arguments[k]
<1>2. p[1] \in Argument /\ DOMAIN p = {1}
  <2>1. p \in Pointers(Argument) /\ p # << >>
    BY <1>1
  <2> HIDE DEF p
  <2> QED
    BY <2>1, PointerType
<1> QED
  BY <1>2 DEF Argument

LEMMA GivenFacts ==
  ASSUME TypeOK
  PROVE  /\ Given \subseteq Declared /\ Given \subseteq Names /\ Given \cap Settings = {}
         /\ \A k \in Declared \ Settings :
              k \in Given <=> request.arguments[k] # << >> /\ request.arguments[k][1].ok
         /\ \A k \in Given : request.arguments[k][1].value \in Query
<1>1. Given \subseteq Declared /\ Given \subseteq Names /\ Given \cap Settings = {}
  BY NativeAssumption DEF Given
<1>2. ASSUME NEW k \in Declared \ Settings
      PROVE  k \in Given <=> request.arguments[k] # << >> /\ request.arguments[k][1].ok
  <2>1. k \in Names
    BY NativeAssumption
  <2>2. CASE request.arguments[k] = << >>
    <3>1. DOMAIN request.arguments[k] = {}
      BY <2>2
    <3> QED
      BY <2>2, <3>1 DEF Given
  <2>3. CASE request.arguments[k] # << >>
    <3>1. DOMAIN request.arguments[k] = {1}
      BY <2>1, <2>3, ArgumentType
    <3> QED
      BY <2>3, <3>1 DEF Given
  <2> QED
    BY <2>2, <2>3
<1>3. \A k \in Given : request.arguments[k][1].value \in Query
  BY <1>1, <1>2, ArgumentType
<1> QED
  BY <1>1, <1>2, <1>3

LEMMA TermsType == ASSUME TypeOK PROVE Terms \in Seq(Expressions)
<1>1. request.predicate \in Pointers(Expressions)
  BY RequestType
<1>2. CASE request.predicate = << >>
  BY <1>2 DEF Terms
<1>3. CASE request.predicate # << >>
  <2>1. request.predicate[1] \in Expressions
    BY <1>1, <1>3, PointerElement
  <2> QED
    BY <2>1, <1>3, StrippedAssumption DEF Terms
<1> QED
  BY <1>2, <1>3

LEMMA ValuesType ==
  ASSUME TypeOK, NEW names, names \subseteq Given
  PROVE  /\ ValuesOf(names) \in [Symbols -> Query]
         /\ \A x \in Symbols : ValuesOf(names)[x] =
              IF x \in names THEN request.arguments[x][1].value ELSE <<x>>
<1>1. \A x \in Symbols : <<x>> \in Query
  BY DEF Query
<1> QED
  BY <1>1, GivenFacts DEF ValuesOf

LEMMA InsteadType ==
  ASSUME NEW name, NEW value \in Query
  PROVE  /\ Instead(name, value) \in [Symbols -> Query]
         /\ \A x \in Symbols : Instead(name, value)[x] = IF x = name THEN value ELSE <<x>>
<1>1. \A x \in Symbols : <<x>> \in Query
  BY DEF Query
<1> QED
  BY <1>1 DEF Instead

LEMMA ReplaceType ==
  ASSUME NEW q \in Query, NEW name, NEW value \in Query
  PROVE  Replace(q, name, value) \in Query
BY InsteadType, ExpandType DEF Replace

(* Replacing one more placeholder is replacing one more at once.           *)
LEMMA ReplaceOneMore ==
  ASSUME TypeOK, Plain, NEW names, names \subseteq Given, NEW key \in Given
  PROVE  Replace(Expand(Template, ValuesOf(names)), key, request.arguments[key][1].value)
           = Expand(Template, ValuesOf(names \cup {key}))
<1> DEFINE v == request.arguments[key][1].value
           f == ValuesOf(names)
           g == Instead(key, v)
           h == ValuesOf(names \cup {key})
<1>1. v \in Query /\ key \in Names /\ Template \in Query
  BY GivenFacts, NativeAssumption
<1>2. /\ f \in [Symbols -> Query]
      /\ \A x \in Symbols : f[x] = IF x \in names THEN request.arguments[x][1].value ELSE <<x>>
  BY ValuesType
<1>3. /\ h \in [Symbols -> Query]
      /\ \A x \in Symbols : h[x] = IF x \in names \cup {key}
                                   THEN request.arguments[x][1].value ELSE <<x>>
  <2>1. names \cup {key} \subseteq Given
    OBVIOUS
  <2> QED
    BY <2>1, ValuesType
<1>4. g \in [Symbols -> Query] /\ \A x \in Symbols : g[x] = IF x = key THEN v ELSE <<x>>
  BY <1>1, InsteadType
<1>5. ASSUME NEW x \in Symbols PROVE h[x] = Expand(f[x], g)
  <2>1. CASE x \in names
    <3>1. f[x] = request.arguments[x][1].value /\ h[x] = f[x] /\ f[x] \in Query
      BY <1>2, <1>3, <2>1
    <3>2. key \notin ToSet(f[x])
      BY <3>1, <2>1, <1>1 DEF Plain
    <3>3. \A y \in ToSet(f[x]) : g[y] = <<y>>
      <4>1. ToSet(f[x]) \subseteq Symbols
        BY <3>1, QueryParts
      <4> QED
        BY <4>1, <3>2, <1>4
    <3>4. Expand(f[x], g) = f[x]
      <4> HIDE DEF f, g
      <4> QED
        BY <3>1, <3>3, <1>4, ExpandSame
    <3> QED
      BY <3>1, <3>4
  <2>2. CASE x \notin names
    <3>1. f[x] = <<x>>
      BY <1>2, <2>2
    <3>2. Expand(<<x>>, g) = g[x]
      <4> HIDE DEF g
      <4> QED
        BY <1>4, ExpandOne
    <3>3. h[x] = g[x]
      BY <1>3, <1>4, <2>2
    <3> QED
      BY <3>1, <3>2, <3>3
  <2> QED
    BY <2>1, <2>2
<1>6. \A x \in ToSet(Template) : h[x] = Expand(f[x], g)
  BY <1>1, <1>5, QueryParts
<1>7. Expand(Expand(Template, f), g) = Expand(Template, h)
  <2> HIDE DEF f, g, h
  <2> QED
    BY <1>1, <1>2, <1>3, <1>4, <1>6, ExpandTwice
<1> QED
  BY <1>7 DEF Replace

LEMMA NothingReplaced == ASSUME TypeOK PROVE Expand(Template, ValuesOf({})) = Template
<1>1. /\ ValuesOf({}) \in [Symbols -> Query]
      /\ \A x \in Symbols : ValuesOf({})[x] = <<x>>
  <2>1. {} \subseteq Given
    OBVIOUS
  <2> QED
    BY <2>1, ValuesType
<1>2. Template \in Query /\ ToSet(Template) \subseteq Symbols
  BY NativeAssumption, QueryParts
<1> DEFINE f == ValuesOf({})
<1> HIDE DEF f
<1> QED
  BY <1>1, <1>2, ExpandSame DEF f

LEMMA RequestSteady ==
  ASSUME request' = request
  PROVE  /\ Terms' = Terms /\ TimesAcceptable' = TimesAcceptable
         /\ \A f : Bounds(f)' = Bounds(f)
         /\ Given' = Given /\ Plain' = Plain
         /\ \A names : ValuesOf(names)' = ValuesOf(names)
         /\ Acceptable' = Acceptable /\ IsInstant' = IsInstant /\ Sendable' = Sendable
<1>1. Terms' = Terms
  BY DEF Terms
<1>2. \A e : Decodable(e)' = Decodable(e)
  BY DEF Decodable
<1>3. TimesAcceptable' = TimesAcceptable
  BY <1>1, <1>2 DEF TimesAcceptable
<1>4. \A f : Bounds(f)' = Bounds(f)
  BY <1>1 DEF Bounds
<1>5. Given' = Given
  BY DEF Given
<1>6. Plain' = Plain
  BY <1>5 DEF Plain
<1>7. \A names : ValuesOf(names)' = ValuesOf(names)
  BY DEF ValuesOf
<1>8. ArgumentsAcceptable' = ArgumentsAcceptable
  BY <1>5 DEF ArgumentsAcceptable
<1>12. Sendable' = Sendable
  BY DEF Sendable
<1>9. Acceptable' = Acceptable
  BY <1>3, <1>8, <1>12 DEF Acceptable
<1>10. \A f : Asked(f)' = Asked(f)
  BY <1>4 DEF Asked
<1>11. IsInstant' = IsInstant
  BY <1>10 DEF IsInstant
<1> QED
  BY <1>1, <1>3, <1>4, <1>5, <1>6, <1>7, <1>9, <1>11, <1>12

LEMMA InitHeld == Init => Held
<1> SUFFICES ASSUME Init PROVE Held
  OBVIOUS
<1>1. /\ request \in Requests /\ stage = "predicate" /\ outcome = "" /\ time = NoTime
      /\ expression = << >> /\ hasValue = FALSE /\ query = Template /\ step = 0
      /\ call = << >> /\ answer = << >>
      /\ todo = {k \in Names : request.arguments[k] # << >>} \cup Settings
  BY DEF Init
<1>2. TypeOK
  <2>1. NoTime \in [Fields -> Pointers(Nat)]
    BY NilPointer DEF NoTime
  <2>2. << >> \in Pointers(Calls)
    BY NilPointer
  <2>3. Template \in Query /\ 0 \in Nat
    BY NativeAssumption
  <2>4. step \in Nat
    BY <1>1, <2>3
  <2>5. call \in Pointers(Calls) /\ time \in [Fields -> Pointers(Nat)] /\ query \in Query
    BY <1>1, <2>1, <2>2, <2>3
  <2>6. expression \in Seq(Expressions)
    <3>1. expression = << >>
      BY <1>1
    <3>2. << >> \in Seq(Expressions)
      OBVIOUS
    <3> QED
      BY <3>1, <3>2
  <2>8. hasValue \in BOOLEAN
    BY <1>1
  <2>9. answer \in Answers \cup {<< >>}
    BY <1>1
  <2>7. todo \subseteq Names \cup Settings
    BY <1>1
  <2> QED
    BY <1>1, <2>4, <2>5, <2>6, <2>7, <2>8, <2>9 DEF TypeOK
<1>3. ~Passed /\ ~Resolved
  BY <1>1 DEF Passed, Resolved
<1>4. StartHeld
  BY <1>1 DEF StartHeld
<1>5. PredicateHeld /\ ArgumentsHeld /\ ResolvedHeld
  BY <1>3 DEF PredicateHeld, ArgumentsHeld, ResolvedHeld
<1>6. RawHeld
  BY <1>1, <1>3 DEF RawHeld
<1>7. SentHeld /\ RefusedHeld
  BY <1>1 DEF SentHeld, RefusedHeld
<1> QED
  BY <1>2, <1>4, <1>5, <1>6, <1>7 DEF Held

(* A refusal before anything is sent is one for a cause.                   *)
LEMMA RefuseHeld ==
  ASSUME Held, TypeOK', request' = request, call' = call, call = << >>, Refuse,
         Plain => ~Acceptable
  PROVE  Held'
<1>1. stage' = "done" /\ outcome' = "refused" /\ call' = << >>
  BY DEF Refuse
<1>2. ~Passed' /\ ~Resolved'
  BY <1>1 DEF Passed, Resolved
<1>3. StartHeld' /\ PredicateHeld' /\ ArgumentsHeld' /\ ResolvedHeld' /\ RawHeld'
  BY <1>1, <1>2 DEF StartHeld, PredicateHeld, ArgumentsHeld, ResolvedHeld, RawHeld
<1>4. SentHeld'
  BY <1>1 DEF SentHeld
<1>5. RefusedHeld'
  BY RequestSteady DEF RefusedHeld
<1> QED
  BY <1>3, <1>4, <1>5 DEF Held

LEMMA TimesFine ==
  ASSUME TypeOK
  PROVE  /\ Taken(Terms)[Len(Terms)].ok <=> TimesAcceptable
         /\ Taken(Terms)[Len(Terms)].time \in [Fields -> Pointers(Nat)]
         /\ TimesAcceptable => \A f \in Fields :
              LET p == Taken(Terms)[Len(Terms)].time[f] IN
              ToSet(p) \subseteq Bounds(f) /\ (p = << >> => Bounds(f) = {})
<1> DEFINE terms == Terms
           n == Len(terms)
           last == Taken(terms)[n]
<1>1. terms \in Seq(Expressions) /\ n \in Nat /\ DOMAIN terms = 1 .. n
  BY TermsType
<1>2. TakenMeans(terms, n)
  <2> HIDE DEF terms
  <2> QED
    BY <1>1, TakenFacts
<1>3. TimesAcceptable <=> \A i \in 1 .. n : Fine(terms, i)
  BY <1>1 DEF TimesAcceptable, Fine
<1>4. \A f : Bounds(f) = Marked(terms, n, f)
  BY <1>1 DEF Bounds, Marked
<1>5. last \in Taking
  <2>1. n \in 0 .. n
    BY <1>1
  <2> HIDE DEF terms
  <2> QED
    BY <2>1, <1>1, TakenSteps
<1>6. last.time \in [Fields -> Pointers(Nat)] /\ last.ok \in BOOLEAN
  <2> HIDE DEF last
  <2> QED
    BY <1>5 DEF Taking
<1>7. last.ok <=> TimesAcceptable
  BY <1>2, <1>3 DEF TakenMeans
<1>8. ASSUME TimesAcceptable, NEW f \in Fields
      PROVE  ToSet(last.time[f]) \subseteq Bounds(f) /\ (last.time[f] = << >> => Bounds(f) = {})
  <2>1. ToSet(last.time[f]) \subseteq Marked(terms, n, f)
    BY <1>2 DEF TakenMeans
  <2>2. last.time[f] = << >> => \A i \in 1 .. n : ~Sets(terms[i], f)
    BY <1>2, <1>7, <1>8 DEF TakenMeans
  <2>3. (\A i \in 1 .. n : ~Sets(terms[i], f)) => Marked(terms, n, f) = {}
    BY DEF Marked
  <2> QED
    BY <2>1, <2>2, <2>3, <1>4
<1> QED
  BY <1>6, <1>7, <1>8

LEMMA NotPassed ==
  ASSUME Held, stage = "predicate"
  PROVE  /\ call = << >> /\ outcome = "" /\ query = Template /\ step = 0
         /\ todo = {k \in Names : request.arguments[k] # << >>} \cup Settings
BY DEF Held, SentHeld, StartHeld, TypeOK

LEMMA StrippedType ==
  ASSUME TypeOK
  PROVE  (IF request.predicate = << >> THEN << >> ELSE Stripped[request.predicate[1]])
           \in Seq(Expressions)
<1>1. CASE request.predicate = << >>
  BY <1>1
<1>2. CASE request.predicate # << >>
  <2>1. request.predicate[1] \in Expressions
    BY <1>2, RequestType, PointerElement
  <2> QED
    BY <2>1, <1>2, StrippedAssumption
<1> QED
  BY <1>1, <1>2

LEMMA EvalPredicateHeld == ASSUME Held, EvalPredicate PROVE Held'
<1> DEFINE taken == Taken(Terms)[Len(Terms)]
<1>1. /\ stage = "predicate" /\ request.kind = "native"
      /\ time' = taken.time
      /\ hasValue' = (\E i \in DOMAIN Terms : Terms[i].kind = "value")
      /\ IF taken.ok /\ request.order.ok THEN Goto("arguments") ELSE Refuse
      /\ expression' = IF request.predicate = << >> THEN << >>
                       ELSE Stripped[request.predicate[1]]
      /\ request' = request /\ todo' = todo /\ query' = query /\ step' = step
      /\ call' = call /\ answer' = answer
  BY DEF EvalPredicate
<1>2. TypeOK /\ RefusedHeld
  BY DEF Held
<1>3. /\ call = << >> /\ outcome = "" /\ query = Template /\ step = 0
      /\ todo = {k \in Names : request.arguments[k] # << >>} \cup Settings
  BY <1>1, NotPassed
<1>4. time' \in [Fields -> Pointers(Nat)] /\ (taken.ok <=> TimesAcceptable)
  BY <1>1, <1>2, TimesFine
<1>5. TypeOK'
  <2>1. expression' \in Seq(Expressions)
    BY <1>1, <1>2, StrippedType
  <2>2. hasValue' \in BOOLEAN
    BY <1>1
  <2>3. /\ stage' \in {"arguments", "done"}
        /\ outcome' \in {"", "refused"}
        /\ (outcome' = "") = (stage' # "done")
    BY <1>1 DEF Goto, Refuse
  <2>4. /\ request' \in Requests /\ todo' \subseteq Names \cup Settings
        /\ query' \in Query /\ step' \in Nat /\ call' \in Pointers(Calls)
        /\ answer' \in Answers \cup {<< >>}
    BY <1>1, <1>2 DEF TypeOK
  <2> QED
    BY <2>1, <2>2, <2>3, <2>4, <1>4 DEF TypeOK
<1> HIDE DEF taken
<1>6. CASE taken.ok /\ request.order.ok
  <2>1. stage' = "arguments" /\ outcome' = "" /\ call' = << >>
    BY <1>1, <1>3, <1>6 DEF Goto
  <2>2. ~Resolved'
    BY <2>1 DEF Resolved
  <2>3. StartHeld' /\ ResolvedHeld' /\ RawHeld' /\ RefusedHeld'
    BY <2>1, <2>2, <1>1 DEF StartHeld, ResolvedHeld, RawHeld, RefusedHeld
  <2>4. SentHeld'
    BY <2>1 DEF SentHeld
  <2>5. PredicateHeld'
    <3>1. TimesAcceptable
      BY <1>4, <1>6
    <3>2. \A f \in Fields : /\ ToSet(time'[f]) \subseteq Bounds(f)
                            /\ time'[f] = << >> => Bounds(f) = {}
      BY <3>1, <1>1, <1>2, TimesFine DEF taken
    <3> QED
      BY <3>1, <3>2, <1>1, <1>6, RequestSteady DEF PredicateHeld
  <2>6. ArgumentsHeld'
    <3>1. Given \ todo = {} /\ Given \subseteq Names /\ Settings \ todo = {} /\ "step" \in todo
      BY <1>2, <1>3, GivenFacts, NativeAssumption DEF Settings
    <3>2. query' = Expand(Template, ValuesOf(Given \ todo))
      BY <1>1, <1>2, <1>3, <3>1, NothingReplaced
    <3>3. \A k \in todo \ Settings : request.arguments[k] # << >>
      BY <1>3
    <3>4. \A k \in Declared \ (todo \cup Settings) : request.arguments[k] = << >>
      BY <1>3, NativeAssumption
    <3>5. step' = 0
      BY <1>1, <1>3
    <3>6. (Given \ todo)' = Given \ todo /\ Plain' = Plain
           /\ ValuesOf(Given \ todo)' = ValuesOf(Given \ todo)
      BY <1>1, RequestSteady
    <3>7. (Plain => query = Expand(Template, ValuesOf(Given \ todo)))'
      BY <3>2, <3>6
    <3> QED
      BY <1>1, <3>1, <3>3, <3>4, <3>5, <3>7 DEF ArgumentsHeld
  <2> QED
    BY <1>5, <2>3, <2>4, <2>5, <2>6 DEF Held
<1>7. CASE ~(taken.ok /\ request.order.ok)
  <2>1. Refuse /\ ~Acceptable
    BY <1>1, <1>4, <1>7 DEF Acceptable
  <2> QED
    BY <2>1, <1>1, <1>3, <1>5, RefuseHeld
<1> QED
  BY <1>6, <1>7

LEMMA EvalRawHeld == ASSUME Held, EvalRaw PROVE Held'
<1> DEFINE good == /\ request.query.ok /\ request.step.ok /\ request.timeout.ok
                   /\ \A f \in Fields : request.times[f].ok
<1>1. /\ stage = "predicate" /\ request.kind = "raw"
      /\ IF good
         THEN /\ Explained
              /\ time' = [f \in Fields |-> request.times[f].value]
              /\ step' = request.step.value
              /\ query' = request.query.value
         ELSE Refuse /\ UNCHANGED <<time, step, query>>
      /\ todo' = {} /\ request' = request /\ expression' = expression
      /\ hasValue' = hasValue /\ call' = call /\ answer' = answer
  BY DEF EvalRaw
<1>2. TypeOK /\ RefusedHeld
  BY DEF Held
<1>3. call = << >> /\ outcome = ""
  BY <1>1, NotPassed
<1> HIDE DEF good
<1>4. CASE good
  <2>1. /\ time' = [f \in Fields |-> request.times[f].value]
        /\ step' = request.step.value /\ query' = request.query.value
    BY <1>1, <1>4
  <2>2. \/ stage' = "done" /\ outcome' = "explained" /\ request.explain
        \/ stage' = "send" /\ outcome' = "" /\ ~request.explain
    BY <1>1, <1>4 DEF Explained, Goto
  <2>3. TypeOK'
    <3>1. \A f \in Fields : request.times[f].value \in Pointers(Nat)
      BY <1>2, RequestType DEF TimeArgument
    <3>2. time' \in [Fields -> Pointers(Nat)] /\ step' \in Nat /\ query' \in Query
      BY <2>1, <3>1, <1>2, RequestType
    <3>3. /\ stage' \in {"send", "done"} /\ outcome' \in {"", "explained"}
          /\ (outcome' = "") = (stage' # "done")
      BY <2>2
    <3>4. /\ request' \in Requests /\ todo' = {} /\ expression' \in Seq(Expressions)
          /\ hasValue' \in BOOLEAN /\ call' \in Pointers(Calls)
          /\ answer' \in Answers \cup {<< >>}
      BY <1>1, <1>2 DEF TypeOK
    <3> QED
      BY <3>2, <3>3, <3>4 DEF TypeOK
  <2>4. call' = << >> /\ request'.kind = "raw" /\ todo' = {}
    BY <1>1, <1>3
  <2>5. StartHeld' /\ PredicateHeld' /\ ArgumentsHeld'
    BY <2>2, <2>4 DEF StartHeld, PredicateHeld, ArgumentsHeld
  <2>6. ResolvedHeld'
    BY <2>4 DEF ResolvedHeld
  <2>7. RawHeld'
    <3>1. stage' # "arguments" /\ outcome' # "panic"
      BY <2>2
    <3> QED
      BY <3>1, <2>1, <1>1, <1>4 DEF RawHeld, good
  <2>8. SentHeld'
    BY <2>2, <2>4, <1>1 DEF SentHeld
  <2>9. RefusedHeld'
    BY <2>2 DEF RefusedHeld
  <2> QED
    BY <2>3, <2>5, <2>6, <2>7, <2>8, <2>9 DEF Held
<1>5. CASE ~good
  <2>1. Refuse /\ UNCHANGED <<time, step, query>>
    BY <1>1, <1>5
  <2>2. TypeOK'
    BY <1>1, <1>2, <2>1 DEF TypeOK, Refuse
  <2>3. ~Acceptable
    BY <1>1, <1>5 DEF Acceptable, good
  <2> QED
    BY <2>1, <2>2, <2>3, <1>1, <1>3, RefuseHeld
<1> QED
  BY <1>4, <1>5

LEMMA ArgumentsParts ==
  ASSUME Held, stage = "arguments"
  PROVE  /\ TypeOK /\ request.kind = "native" /\ Passed /\ ~Resolved
         /\ call = << >> /\ outcome = ""
         /\ request.order.ok /\ TimesAcceptable
         /\ \A f \in Fields : /\ ToSet(time[f]) \subseteq Bounds(f)
                              /\ time[f] = << >> => Bounds(f) = {}
         /\ \A key \in Settings \ todo : request[key].ok
         /\ step = IF "step" \in todo THEN 0 ELSE request.step.value
         /\ \A k \in todo \ Settings : request.arguments[k] # << >>
         /\ \A k \in Declared \ (todo \cup Settings) : request.arguments[k] # << >> => k \in Given
         /\ Plain => query = Expand(Template, ValuesOf(Given \ todo))
<1>1. TypeOK /\ StartHeld /\ PredicateHeld /\ ArgumentsHeld /\ RawHeld /\ SentHeld
  BY DEF Held
<1>2. request.kind = "native"
  BY <1>1, RequestType DEF RawHeld
<1>3. call = << >> /\ outcome = ""
  BY <1>1 DEF SentHeld, TypeOK
<1>4. Passed /\ ~Resolved
  BY <1>3 DEF Passed, Resolved
<1> QED
  BY <1>1, <1>2, <1>3, <1>4 DEF PredicateHeld, ArgumentsHeld

(* What the invariant says after a step of the walk.                       *)
LEMMA WalkHeld ==
  ASSUME Held, stage = "arguments", stage' = "arguments", outcome' = "", TypeOK',
         request' = request, time' = time, call' = call, ArgumentsHeld'
  PROVE  Held'
<1>1. /\ request'.kind = "native" /\ call' = << >> /\ request.order.ok /\ TimesAcceptable
      /\ \A f \in Fields : /\ ToSet(time[f]) \subseteq Bounds(f)
                           /\ time[f] = << >> => Bounds(f) = {}
  BY ArgumentsParts
<1>2. ~Resolved'
  BY <1>1 DEF Resolved
<1>3. StartHeld' /\ RawHeld' /\ ResolvedHeld' /\ SentHeld' /\ RefusedHeld'
  BY <1>1, <1>2 DEF StartHeld, RawHeld, ResolvedHeld, SentHeld, RefusedHeld
<1>4. PredicateHeld'
  BY <1>1, RequestSteady DEF PredicateHeld
<1> QED
  BY <1>3, <1>4 DEF Held

LEMMA EvalSettingHeld == ASSUME Held, NEW key \in Settings, EvalSetting(key) PROVE Held'
<1>1. /\ stage = "arguments" /\ key \in todo
      /\ IF request[key].ok THEN Goto("arguments") ELSE Refuse
      /\ step' = IF key = "step" /\ request.step.ok THEN request.step.value ELSE step
      /\ todo' = todo \ {key}
      /\ request' = request /\ time' = time /\ expression' = expression
      /\ hasValue' = hasValue /\ query' = query /\ call' = call /\ answer' = answer
  BY DEF EvalSetting
<1>2. /\ TypeOK /\ call = << >>
      /\ \A k \in Settings \ todo : request[k].ok
      /\ step = IF "step" \in todo THEN 0 ELSE request.step.value
      /\ \A k \in todo \ Settings : request.arguments[k] # << >>
      /\ \A k \in Declared \ (todo \cup Settings) : request.arguments[k] # << >> => k \in Given
      /\ Plain => query = Expand(Template, ValuesOf(Given \ todo))
  BY <1>1, ArgumentsParts
<1>3. TypeOK'
  <2>1. step' \in Nat
    <3>1. step \in Nat /\ request.step.value \in Nat
      BY <1>2, RequestType DEF TypeOK
    <3> QED
      BY <3>1, <1>1
  <2>2. /\ stage' \in {"arguments", "done"} /\ outcome' \in {"", "refused"}
        /\ (outcome' = "") = (stage' # "done")
    BY <1>1 DEF Goto, Refuse
  <2>3. /\ request' \in Requests /\ todo' \subseteq Names \cup Settings
        /\ query' \in Query /\ time' \in [Fields -> Pointers(Nat)] /\ call' \in Pointers(Calls)
        /\ answer' \in Answers \cup {<< >>} /\ expression' \in Seq(Expressions)
        /\ hasValue' \in BOOLEAN
    BY <1>1, <1>2 DEF TypeOK
  <2> QED
    BY <2>1, <2>2, <2>3 DEF TypeOK
<1>4. key = "step" \/ key = "timeout"
  BY DEF Settings
<1>5. CASE request[key].ok
  <2>1. stage' = "arguments" /\ outcome' = ""
    BY <1>1, <1>5 DEF Goto
  <2>2. ArgumentsHeld'
    <3>1. \A k \in Settings \ todo' : request[k].ok
      BY <1>1, <1>2, <1>5
    <3>2. step' = IF "step" \in todo' THEN 0 ELSE request.step.value
      <4>1. CASE key = "step"
        <5>1. request.step.ok /\ "step" \notin todo'
          BY <4>1, <1>1, <1>2, <1>5, SettingType
        <5> QED
          BY <5>1, <4>1, <1>1
      <4>2. CASE key # "step"
        BY <4>2, <1>1, <1>2
      <4> QED
        BY <4>1, <4>2
    <3>3. \A k \in todo' \ Settings : request.arguments[k] # << >>
      BY <1>1, <1>2
    <3>4. /\ Given \ todo' = Given \ todo
          /\ Declared \ (todo' \cup Settings) = Declared \ (todo \cup Settings)
      <4>1. key \in Settings /\ key \notin Given
        BY <1>2, GivenFacts, NativeAssumption
      <4> QED
        BY <4>1, <1>1
    <3>5. (\A k \in Declared \ (todo \cup Settings) : request.arguments[k] # << >> => k \in Given)'
      BY <1>1, <1>2, <3>4, RequestSteady
    <3>6. (Plain => query = Expand(Template, ValuesOf(Given \ todo)))'
      <4>1. Plain' = Plain /\ Given' = Given /\ \A names : ValuesOf(names)' = ValuesOf(names)
        BY <1>1, RequestSteady
      <4> QED
        BY <4>1, <3>4, <1>1, <1>2
    <3> QED
      BY <3>1, <3>2, <3>3, <3>5, <3>6, <1>1 DEF ArgumentsHeld
  <2> QED
    BY <2>1, <2>2, <1>1, <1>3, WalkHeld
<1>6. CASE ~request[key].ok
  <2>1. Refuse
    BY <1>1, <1>6
  <2>2. ~Acceptable
    BY <1>2, <1>4, <1>6, SettingType DEF Acceptable
  <2> QED
    BY <2>1, <2>2, <1>1, <1>2, <1>3, RefuseHeld
<1> QED
  BY <1>5, <1>6

LEMMA EvalArgumentHeld == ASSUME Held, NEW key \in Names, EvalArgument(key) PROVE Held'
<1> DEFINE arg == request.arguments[key][1]
           wrong == key \in Declared /\ ~arg.ok
           right == key \in Declared /\ arg.ok
<1>1. /\ stage = "arguments" /\ key \in todo /\ key \notin Settings
      /\ IF wrong THEN Refuse ELSE Goto("arguments")
      /\ query' = IF right THEN Replace(query, key, arg.value) ELSE query
      /\ todo' = todo \ {key}
      /\ request' = request /\ time' = time /\ expression' = expression
      /\ hasValue' = hasValue /\ step' = step /\ call' = call /\ answer' = answer
  BY DEF EvalArgument
<1>2. /\ TypeOK /\ call = << >>
      /\ \A k \in Settings \ todo : request[k].ok
      /\ step = IF "step" \in todo THEN 0 ELSE request.step.value
      /\ \A k \in todo \ Settings : request.arguments[k] # << >>
      /\ \A k \in Declared \ (todo \cup Settings) : request.arguments[k] # << >> => k \in Given
      /\ Plain => query = Expand(Template, ValuesOf(Given \ todo))
  BY <1>1, ArgumentsParts
<1>3. request.arguments[key] # << >> /\ arg.ok \in BOOLEAN /\ arg.value \in Query
  BY <1>1, <1>2, ArgumentType
<1>4. /\ right <=> key \in Given
      /\ wrong <=> key \in Declared /\ key \notin Given
  BY <1>1, <1>2, <1>3, GivenFacts
<1>5. TypeOK'
  <2>1. query' \in Query
    <3>1. query \in Query
      BY <1>2 DEF TypeOK
    <3> QED
      BY <3>1, <1>1, <1>3, ReplaceType
  <2>2. /\ stage' \in {"arguments", "done"} /\ outcome' \in {"", "refused"}
        /\ (outcome' = "") = (stage' # "done")
    BY <1>1 DEF Goto, Refuse
  <2>3. /\ request' \in Requests /\ todo' \subseteq Names \cup Settings
        /\ step' \in Nat /\ time' \in [Fields -> Pointers(Nat)] /\ call' \in Pointers(Calls)
        /\ answer' \in Answers \cup {<< >>} /\ expression' \in Seq(Expressions)
        /\ hasValue' \in BOOLEAN
    BY <1>1, <1>2 DEF TypeOK
  <2> QED
    BY <2>1, <2>2, <2>3 DEF TypeOK
<1>6. CASE wrong
  <2>1. ~Acceptable
    <3>1. key \in Declared \ (Given \cup Settings)
      BY <1>1, <1>4, <1>6
    <3>2. ~ArgumentsAcceptable
      BY <3>1, <1>3 DEF ArgumentsAcceptable
    <3>3. request.kind # "raw"
      BY <1>1, ArgumentsParts
    <3> QED
      BY <3>2, <3>3 DEF Acceptable
  <2> QED
    BY <2>1, <1>1, <1>2, <1>5, <1>6, RefuseHeld
<1>7. CASE ~wrong
  <2>1. stage' = "arguments" /\ outcome' = ""
    BY <1>1, <1>7 DEF Goto
  <2>2. ArgumentsHeld'
    <3>1. Settings \ todo' = Settings \ todo /\ ("step" \in todo') = ("step" \in todo)
      BY <1>1 DEF Settings
    <3>2. (\A k \in Settings \ todo : request[k].ok)'
      BY <1>1, <1>2, <3>1
    <3>3. step' = IF "step" \in todo' THEN 0 ELSE request'.step.value
      BY <1>1, <1>2, <3>1
    <3>4. \A k \in todo' \ Settings : request'.arguments[k] # << >>
      BY <1>1, <1>2
    <3>5. (\A k \in Declared \ (todo \cup Settings) : request.arguments[k] # << >> => k \in Given)'
      <4>1. \A k \in Declared \ (todo' \cup Settings) : request.arguments[k] # << >> => k \in Given
        BY <1>1, <1>2, <1>4, <1>7
      <4> QED
        BY <4>1, <1>1, RequestSteady
    <3>6. Plain => query' = Expand(Template, ValuesOf(Given \ todo'))
      <4>1. SUFFICES ASSUME Plain PROVE query' = Expand(Template, ValuesOf(Given \ todo'))
        OBVIOUS
      <4>2. CASE key \in Given
        <5>1. Given \ todo' = (Given \ todo) \cup {key} /\ Given \ todo \subseteq Given
          BY <4>2, <1>1
        <5>2. query' = Replace(query, key, arg.value)
          BY <4>2, <1>1, <1>4
        <5>3. query = Expand(Template, ValuesOf(Given \ todo))
          BY <4>1, <1>2
        <5> QED
          BY <5>1, <5>2, <5>3, <4>1, <4>2, <1>2, ReplaceOneMore
      <4>3. CASE key \notin Given
        <5>1. Given \ todo' = Given \ todo /\ query' = query
          BY <4>3, <1>1, <1>4
        <5> QED
          BY <5>1, <4>1, <1>2
      <4> QED
        BY <4>2, <4>3
    <3>7. (Plain => query = Expand(Template, ValuesOf(Given \ todo)))'
      <4>1. Plain' = Plain /\ Given' = Given /\ \A names : ValuesOf(names)' = ValuesOf(names)
        BY <1>1, RequestSteady
      <4> QED
        BY <4>1, <3>6
    <3> QED
      BY <3>2, <3>3, <3>4, <3>5, <3>7 DEF ArgumentsHeld
  <2> QED
    BY <2>1, <2>2, <1>1, <1>5, WalkHeld
<1> QED
  BY <1>6, <1>7

-----------------------------------------------------------------------------
(* The step of any range is a length of time, and at most 11,000 of them   *)
(* fit into a range of as many years.                                      *)
LEMMA StepFound ==
  ASSUME NEW d \in Int, d <= Base
  PROVE  \E i \in DOMAIN Steps : EvalStep(d) = Steps[i][2] /\ d <= Steps[i][1]
<1> DEFINE T == {i \in 1 .. 10 : d <= Steps[i][1]}
           Found(i) == i \in DOMAIN Steps /\ d <= Steps[i][1]
                         /\ \A j \in 1 .. i - 1 : d > Steps[j][1]
<1>1. DOMAIN Steps = 1 .. 10 /\ Steps[10][1] = Base
  BY DEF Steps
<1>2. \A i \in 1 .. 10 : Steps[i][1] \in Int
  BY DEF Steps, Hour, Day, Base
<1>3. T \in SUBSET Nat /\ 10 \in T
  BY <1>1
<1>4. PICK i \in T : \A m \in T : i <= m
  <2> HIDE DEF T
  <2> QED
    BY <1>3, Least
<1>5. Found(i)
  <2>1. \A j \in 1 .. i - 1 : j \in 1 .. 10 /\ ~(i <= j)
    BY <1>4
  <2>2. \A j \in 1 .. i - 1 : j \notin T
    BY <2>1, <1>4
  <2> QED
    BY <2>1, <2>2, <1>1, <1>2, <1>4
<1>6. EvalStep(d) = Steps[CHOOSE j : Found(j)][2]
  BY DEF EvalStep
<1>7. Found(CHOOSE j : Found(j))
  <2> HIDE DEF Found
  <2> QED
    BY <1>5
<1> QED
  BY <1>6, <1>7

LEMMA Quotient ==
  ASSUME NEW a \in Int, NEW b \in Nat \ {0}, a <= b
  PROVE  a \div b <= 1
<1> DEFINE q == a \div b
<1>1. q \in Int /\ b * q <= a
  OBVIOUS
<1> HIDE DEF q
<1>2. SUFFICES ASSUME q >= 2 PROVE FALSE
  BY <1>1 DEF q
<1>3. b * q >= b * 2
  BY <1>1, <1>2
<1> QED
  BY <1>1, <1>3

LEMMA CeilingFacts ==
  ASSUME NEW d \in Int, Base < d, d <= 30 * Base
  PROVE  Ceiling(d, Base) \in 1 .. 30 /\ d <= Base * Ceiling(d, Base)
BY DEF Ceiling, Base, Day, Hour

LEMMA StepType == ASSUME NEW d \in Int PROVE EvalStep(d) \in Nat \ {0}
<1>1. CASE d <= Base
  <2>1. PICK i \in DOMAIN Steps : EvalStep(d) = Steps[i][2]
    BY <1>1, StepFound
  <2>2. i \in 1 .. 10
    BY DEF Steps
  <2>3. Steps[i][2] \in Nat \ {0}
    BY <2>2 DEF Steps
  <2> QED
    BY <2>1, <2>3
<1>2. CASE d > Base /\ d <= 30 * Base
  <2>1. EvalStep(d) = 60 * Base * Ceiling(d, Base)
    BY <1>2 DEF EvalStep, Base, Day, Hour
  <2>2. Ceiling(d, Base) \in 1 .. 30
    BY <1>2, CeilingFacts
  <2> DEFINE c == Ceiling(d, Base)
  <2> HIDE DEF c
  <2>3. \A n \in 1 .. 30 : 60 * Base * n \in Nat \ {0}
    BY DEF Base, Day, Hour
  <2> QED
    BY <2>1, <2>2, <2>3
<1>3. CASE d > 30 * Base
  BY <1>3 DEF EvalStep, Base, Day, Hour
<1> QED
  BY <1>1, <1>2, <1>3 DEF Base, Day, Hour

LEMMA FewSteps ==
  ASSUME NEW d \in Int, Years(d) <= 11000
  PROVE  AtMost(d, EvalStep(d), 11000)
<1>1. CASE d <= Base
  <2>1. PICK i \in DOMAIN Steps : EvalStep(d) = Steps[i][2] /\ d <= Steps[i][1]
    BY <1>1, StepFound
  <2>2. i \in {1, 2, 3, 4, 5, 6, 7, 8, 9, 10}
    BY DEF Steps
  <2>3. \/ EvalStep(d) = 1    /\ d <= 5
        \/ EvalStep(d) = 15   /\ d <= 60
        \/ EvalStep(d) = 30   /\ d <= 120
        \/ EvalStep(d) = 60   /\ d <= 240
        \/ EvalStep(d) = 120  /\ d <= 720
        \/ EvalStep(d) = 300  /\ d <= 1440
        \/ EvalStep(d) = 600  /\ d <= 2880
        \/ EvalStep(d) = 1200 /\ d <= 5760
        \/ EvalStep(d) = 1800 /\ d <= 10080
        \/ EvalStep(d) = 3600 /\ d <= 43200
    BY <2>1, <2>2 DEF Steps, Hour, Day, Base
  <2>4. /\ d <= 5     => AtMost(d, 1, 11000)
        /\ d <= 60    => AtMost(d, 15, 11000)
        /\ d <= 120   => AtMost(d, 30, 11000)
        /\ d <= 240   => AtMost(d, 60, 11000)
        /\ d <= 720   => AtMost(d, 120, 11000)
    BY DEF AtMost
  <2>5. /\ d <= 1440  => AtMost(d, 300, 11000)
        /\ d <= 2880  => AtMost(d, 600, 11000)
        /\ d <= 5760  => AtMost(d, 1200, 11000)
        /\ d <= 10080 => AtMost(d, 1800, 11000)
        /\ d <= 43200 => AtMost(d, 3600, 11000)
    BY DEF AtMost
  <2> QED
    BY <2>3, <2>4, <2>5
<1>2. CASE d > Base /\ d <= 30 * Base
  <2> DEFINE c == Ceiling(d, Base)
             b == Base * c
             s == 60 * Base * c
  <2>1. EvalStep(d) = s
    BY <1>2 DEF EvalStep, Base, Day, Hour
  <2>2. c \in 1 .. 30 /\ d <= b
    BY <1>2, CeilingFacts
  <2> HIDE DEF c
  <2>3. b \in Nat \ {0} /\ s % 60 = 0 /\ s \div 60 = b
    BY <2>2 DEF Base, Day, Hour
  <2> HIDE DEF b, s
  <2>4. d \div b <= 1 /\ d \div b \in Int
    BY <2>2, <2>3, Quotient
  <2>5. d \div b <= 11000
    BY <2>4
  <2> QED
    BY <2>1, <2>3, <2>5 DEF AtMost
<1>3. CASE d > 30 * Base
  <2>1. EvalStep(d) = 31536000
    BY <1>3 DEF EvalStep, Base, Day, Hour
  <2>2. d \div 525600 <= 11000
    BY DEF Years, Day, Hour
  <2>3. 31536000 % 60 = 0 /\ 31536000 \div 60 = 525600
    OBVIOUS
  <2> QED
    BY <2>1, <2>2, <2>3 DEF AtMost
<1> QED
  BY <1>1, <1>2, <1>3 DEF Base, Day, Hour

LEMMA ValuesSymbols ==
  ASSUME TypeOK, Plain, NEW y
  PROVE  y \in ToSet(Substituted) /\ y \in Names <=> y \in ToSet(Template) /\ y \in Names \ Given
<1> DEFINE f == ValuesOf(Given)
<1>1. /\ f \in [Symbols -> Query]
      /\ \A x \in Symbols : f[x] = IF x \in Given THEN request.arguments[x][1].value ELSE <<x>>
  BY ValuesType
<1>2. Template \in Query /\ ToSet(Template) \subseteq Symbols
  BY NativeAssumption, QueryParts
<1>3. y \in ToSet(Substituted) <=> \E x \in ToSet(Template) : y \in ToSet(f[x])
  <2> HIDE DEF f
  <2> QED
    BY <1>1, <1>2, ExpandSymbols DEF Substituted, f
<1>4. \A x : ToSet(<<x>>) = {x}
  BY DEF ToSet
<1>5. ASSUME y \in Names, NEW x \in ToSet(Template), y \in ToSet(f[x])
      PROVE  x = y /\ y \notin Given
  <2>1. x \notin Given
    BY <1>1, <1>2, <1>5 DEF Plain
  <2> QED
    BY <2>1, <1>1, <1>2, <1>4, <1>5
<1>6. ASSUME y \in ToSet(Template), y \in Names \ Given PROVE y \in ToSet(f[y])
  BY <1>1, <1>2, <1>4, <1>6
<1> QED
  BY <1>3, <1>5, <1>6

LEMMA LeftOver ==
  ASSUME TypeOK
  PROVE  (\E i \in DOMAIN query : query[i] \in Names) <=> ToSet(query) \cap Names # {}
BY DEF ToSet

LEMMA CheckResolvedHeld == ASSUME Held, CheckResolved PROVE Held'
<1>1. /\ stage = "arguments" /\ todo = {}
      /\ IF \E i \in DOMAIN query : query[i] \in Names THEN Refuse ELSE Explained
      /\ request' = request /\ time' = time /\ expression' = expression
      /\ hasValue' = hasValue /\ todo' = todo /\ query' = query /\ step' = step
      /\ call' = call /\ answer' = answer
  BY DEF CheckResolved
<1>2. /\ TypeOK /\ request.kind = "native" /\ call = << >>
      /\ request.order.ok /\ TimesAcceptable
      /\ \A f \in Fields : /\ ToSet(time[f]) \subseteq Bounds(f)
                           /\ time[f] = << >> => Bounds(f) = {}
      /\ \A k \in Settings \ todo : request[k].ok
      /\ step = IF "step" \in todo THEN 0 ELSE request.step.value
      /\ \A k \in todo \ Settings : request.arguments[k] # << >>
      /\ \A k \in Declared \ (todo \cup Settings) : request.arguments[k] # << >> => k \in Given
      /\ Plain => query = Expand(Template, ValuesOf(Given \ todo))
  BY <1>1, ArgumentsParts
<1>3. Plain => query = Substituted
  <2>1. Given \ todo = Given
    BY <1>1
  <2> QED
    BY <2>1, <1>2 DEF Substituted
<1>4. CASE \E i \in DOMAIN query : query[i] \in Names
  <2>1. Refuse
    BY <1>1, <1>4
  <2>2. ASSUME Plain PROVE ~Acceptable
    <3>1. PICK y : y \in ToSet(query) /\ y \in Names
      BY <1>2, <1>4, LeftOver
    <3>2. y \in ToSet(Template) /\ y \in Names \ Given
      BY <3>1, <2>2, <1>2, <1>3, ValuesSymbols
    <3>3. ~ArgumentsAcceptable
      BY <3>2 DEF ArgumentsAcceptable
    <3> QED
      BY <3>3, <1>2 DEF Acceptable
  <2>3. TypeOK'
    BY <1>1, <1>2, <2>1 DEF TypeOK, Refuse
  <2> QED
    BY <2>1, <2>2, <2>3, <1>1, <1>2, RefuseHeld
<1>5. CASE ~ \E i \in DOMAIN query : query[i] \in Names
  <2>1. \/ stage' = "done" /\ outcome' = "explained" /\ request.explain
        \/ stage' = "send" /\ outcome' = "" /\ ~request.explain
    BY <1>1, <1>5 DEF Explained, Goto
  <2>2. ToSet(query) \cap Names = {}
    BY <1>2, <1>5, LeftOver
  <2>3. TypeOK'
    <3>1. /\ stage' \in {"send", "done"} /\ outcome' \in {"", "explained"}
          /\ (outcome' = "") = (stage' # "done")
      BY <2>1
    <3>2. /\ request' \in Requests /\ todo' = {} /\ query' \in Query
          /\ step' \in Nat /\ time' \in [Fields -> Pointers(Nat)] /\ call' \in Pointers(Calls)
          /\ answer' \in Answers \cup {<< >>} /\ expression' \in Seq(Expressions)
          /\ hasValue' \in BOOLEAN
      BY <1>1, <1>2 DEF TypeOK
    <3> QED
      BY <3>1, <3>2 DEF TypeOK
  <2>4. call' = << >> /\ request'.kind = "native" /\ todo' = {}
    BY <1>1, <1>2
  <2>5. StartHeld' /\ RawHeld'
    BY <2>1, <2>4 DEF StartHeld, RawHeld
  <2>6. PredicateHeld'
    BY <1>1, <1>2, RequestSteady DEF PredicateHeld
  <2>7. ArgumentsHeld'
    <3>1. (Plain => query = Expand(Template, ValuesOf(Given \ todo)))'
      <4>1. Plain' = Plain /\ Given' = Given /\ \A names : ValuesOf(names)' = ValuesOf(names)
        BY <1>1, RequestSteady
      <4> QED
        BY <4>1, <1>1, <1>2
    <3>2. (\A k \in Declared \ (todo \cup Settings) : request.arguments[k] # << >> => k \in Given)'
      BY <1>1, <1>2, RequestSteady
    <3> QED
      BY <3>1, <3>2, <1>1, <1>2 DEF ArgumentsHeld
  <2>8. ResolvedHeld'
    BY <2>2, <2>4, <1>1 DEF ResolvedHeld
  <2>9. SentHeld'
    BY <2>1, <2>4, <1>1 DEF SentHeld
  <2>10. RefusedHeld'
    BY <2>1 DEF RefusedHeld
  <2> QED
    BY <2>3, <2>5, <2>6, <2>7, <2>8, <2>9, <2>10 DEF Held
<1> QED
  BY <1>4, <1>5

-----------------------------------------------------------------------------
(* What the invariant says of a query that has been resolved lasts.        *)
LEMMA ResolvedKept ==
  ASSUME Held, Resolved, Passed, TypeOK', stage' \in {"answer", "done"},
         request' = request, time' = time, todo' = todo, query' = query, step' = step,
         request.kind = "native" \/ outcome' # "panic"
  PROVE  StartHeld' /\ PredicateHeld' /\ ArgumentsHeld' /\ RawHeld' /\ ResolvedHeld'
<1>1. TypeOK /\ PredicateHeld /\ ArgumentsHeld /\ RawHeld /\ ResolvedHeld
  BY DEF Held
<1>2. StartHeld'
  BY DEF StartHeld
<1>3. PredicateHeld'
  BY <1>1, RequestSteady DEF PredicateHeld
<1>4. ArgumentsHeld'
  <2>1. SUFFICES ASSUME request.kind = "native"
                 PROVE  ArgumentsHeld'
    BY DEF ArgumentsHeld
  <2>2. /\ \A k \in Settings \ todo : request[k].ok
        /\ step = IF "step" \in todo THEN 0 ELSE request.step.value
        /\ \A k \in todo \ Settings : request.arguments[k] # << >>
        /\ \A k \in Declared \ (todo \cup Settings) : request.arguments[k] # << >> => k \in Given
        /\ Plain => query = Expand(Template, ValuesOf(Given \ todo))
    BY <2>1, <1>1 DEF ArgumentsHeld
  <2>3. Plain' = Plain /\ Given' = Given /\ \A names : ValuesOf(names)' = ValuesOf(names)
    BY RequestSteady
  <2>4. (Plain => query = Expand(Template, ValuesOf(Given \ todo)))'
    BY <2>2, <2>3
  <2>5. (\A k \in Declared \ (todo \cup Settings) : request.arguments[k] # << >> => k \in Given)'
    BY <2>2, <2>3
  <2> QED
    BY <2>2, <2>4, <2>5 DEF ArgumentsHeld
<1>5. RawHeld'
  BY <1>1 DEF RawHeld
<1>6. ResolvedHeld'
  BY <1>1 DEF ResolvedHeld
<1> QED
  BY <1>2, <1>3, <1>4, <1>5, <1>6

LEMMA CallTypes ==
  ASSUME TypeOK
  PROVE  InstantCall \in Pointers(Calls) /\ RangeCall \in Pointers(Calls)
<1>1. \A f \in Fields : time[f] \in Pointers(Nat)
  BY DEF TypeOK
<1>2. InstantCall \in Pointers(Calls)
  <2>1. [api |-> "query", at |-> time.timestamp] \in Calls
    BY <1>1 DEF Calls, Fields
  <2> QED
    BY <2>1, PointerTo DEF InstantCall
<1> DEFINE range == NewRange(time.start, time.end, step, Now)
<1>3. range \in [start : Nat, end : Nat, step : Nat]
  <2> DEFINE from == IF time.start = << >> THEN 0 ELSE time.start[1]
             to == IF time.end = << >> THEN Now ELSE time.end[1]
             s == IF step = 0 THEN EvalStep(to - from) ELSE step
  <2>1. range = [start |-> from, end |-> to, step |-> s]
    BY DEF NewRange
  <2>2. time.start \in Pointers(Nat) /\ time.end \in Pointers(Nat)
    BY <1>1 DEF Fields
  <2>3. from \in Nat
    BY <2>2, PointerElement
  <2>4. to \in Nat
    BY <2>2, PointerElement, NativeAssumption
  <2>5. s \in Nat
    <3>0. step \in Nat
      BY DEF TypeOK
    <3>1. to - from \in Int
      <4> HIDE DEF from, to
      <4> QED
        BY <2>3, <2>4
    <3>2. EvalStep(to - from) \in Nat
      <4> HIDE DEF from, to
      <4> QED
        BY <3>1, StepType
    <3> QED
      BY <3>0, <3>2
  <2> HIDE DEF from, to, s, range
  <2> QED
    BY <2>1, <2>3, <2>4, <2>5
<1>4. RangeCall \in Pointers(Calls)
  <2>1. [api |-> "query_range", range |-> range] \in Calls
    BY <1>3 DEF Calls
  <2> QED
    BY <2>1, PointerTo DEF RangeCall
<1> QED
  BY <1>2, <1>4

LEMMA SendParts ==
  ASSUME Held, stage = "send"
  PROVE  /\ TypeOK /\ call = << >> /\ outcome = "" /\ Passed /\ Resolved /\ ~request.explain
BY DEF Held, SentHeld, TypeOK, Passed, Resolved

LEMMA TypeKept ==
  ASSUME TypeOK, request' = request, time' = time, expression' = expression,
         hasValue' = hasValue, todo' = todo, query' = query, step' = step,
         call' \in Pointers(Calls), answer' \in Answers \cup {<< >>},
         stage \in {"send", "answer"},
         \/ stage' = "answer" /\ outcome' = ""
         \/ stage' = "done" /\ outcome' \in {"refused", "panic", "answered"}
  PROVE  TypeOK'
<1>1. /\ request' \in Requests /\ todo' = {} /\ query' \in Query
      /\ step' \in Nat /\ time' \in [Fields -> Pointers(Nat)]
      /\ expression' \in Seq(Expressions) /\ hasValue' \in BOOLEAN
  BY DEF TypeOK
<1>2. /\ stage' \in {"answer", "done"} /\ outcome' \in {"", "refused", "panic", "answered"}
      /\ (outcome' = "") = (stage' # "done")
  OBVIOUS
<1> QED
  BY <1>1, <1>2 DEF TypeOK

(* A query has a time for the call that its kind makes.                    *)
LEMMA TimesAsked ==
  ASSUME Held, Passed, NEW f \in Fields
  PROVE  /\ ToSet(time[f]) \subseteq Asked(f) /\ (time[f] = << >> => Asked(f) = {})
         /\ time[f] \in Pointers(Nat)
<1>1. TypeOK /\ PredicateHeld /\ RawHeld
  BY DEF Held
<1>2. time[f] \in Pointers(Nat)
  BY <1>1 DEF TypeOK
<1>3. CASE request.kind = "raw"
  <2>1. time[f] = request.times[f].value
    BY <1>1, <1>3 DEF RawHeld
  <2>2. ToSet(<< >>) = {}
    BY DEF ToSet
  <2> QED
    BY <1>2, <1>3, <2>1, <2>2 DEF Asked
<1>4. CASE request.kind = "native"
  BY <1>1, <1>2, <1>4 DEF PredicateHeld, Asked
<1> QED
  BY <1>1, <1>3, <1>4, RequestType

LEMMA AskedTimes ==
  ASSUME Held, Passed, NEW f \in Fields
  PROVE  Asked(f) = {} <=> time[f] = << >>
<1>1. ToSet(time[f]) \subseteq Asked(f) /\ (time[f] = << >> => Asked(f) = {})
      /\ time[f] \in Pointers(Nat)
  BY TimesAsked
<1> DEFINE p == time[f]
<1>2. p # << >> => p[1] \in ToSet(p)
  <2> HIDE DEF p
  <2> QED
    BY <1>1, PointerElement DEF p
<1> QED
  BY <1>1, <1>2

LEMMA SendHeld == ASSUME Held, Send PROVE Held'
<1> DEFINE instant == IF request.kind = "raw" THEN ~Bounded ELSE time.timestamp # << >>
<1>1. /\ stage = "send"
      /\ IF ~Sendable THEN Refuse /\ UNCHANGED call
         ELSE IF instant THEN Goto("answer") /\ call' = InstantCall
         ELSE IF Bounded THEN Goto("answer") /\ call' = RangeCall
         ELSE stage' = "done" /\ outcome' = "panic" /\ UNCHANGED call
      /\ request' = request /\ time' = time /\ expression' = expression
      /\ hasValue' = hasValue /\ todo' = todo /\ query' = query /\ step' = step
      /\ answer' = answer
  BY DEF Send
<1>2. TypeOK /\ call = << >> /\ Passed /\ Resolved /\ ~request.explain
  BY <1>1, SendParts
<1>3. request.kind \in {"native", "raw"}
  BY <1>2, RequestType
<1>4. "timestamp" \in Fields /\ "start" \in Fields /\ "end" \in Fields
  BY DEF Fields
<1>5. instant <=> IsInstant
  <2>1. /\ Asked("timestamp") = {} <=> time.timestamp = << >>
        /\ Asked("start") = {} <=> time.start = << >>
        /\ Asked("end") = {} <=> time.end = << >>
    BY <1>2, <1>4, AskedTimes
  <2> QED
    BY <2>1, <1>3 DEF IsInstant, Bounded
<1> HIDE DEF instant
<1>6. InstantCall \in Pointers(Calls) /\ RangeCall \in Pointers(Calls)
  BY <1>2, CallTypes
<1>7. answer' \in Answers \cup {<< >>}
  BY <1>1, <1>2 DEF TypeOK
<1>8. CASE ~Sendable
  <2>1. Refuse /\ call' = call
    BY <1>1, <1>8
  <2>2. TypeOK'
    <3>1. stage' = "done" /\ outcome' = "refused" /\ call' \in Pointers(Calls)
      BY <2>1, <1>2 DEF Refuse, TypeOK
    <3> QED
      BY <3>1, <1>1, <1>2, <1>7, TypeKept
  <2>3. ~Acceptable
    BY <1>2, <1>8 DEF Acceptable
  <2> QED
    BY <2>1, <2>2, <2>3, <1>1, <1>2, RefuseHeld
<1>9. CASE Sendable /\ (instant \/ Bounded)
  <2>1. /\ stage' = "answer" /\ outcome' = ""
        /\ call' = IF IsInstant THEN InstantCall ELSE RangeCall
    BY <1>1, <1>5, <1>9 DEF Goto
  <2>2. call' \in Pointers(Calls)
    BY <2>1, <1>6
  <2>3. TypeOK'
    BY <2>1, <2>2, <1>1, <1>2, <1>7, TypeKept
  <2>4. StartHeld' /\ PredicateHeld' /\ ArgumentsHeld' /\ RawHeld' /\ ResolvedHeld'
    BY <2>1, <2>3, <1>1, <1>2, ResolvedKept
  <2>5. call' # << >>
    BY <2>1 DEF InstantCall, RangeCall
  <2>6. SentHeld'
    <3>1. /\ InstantCall' = InstantCall /\ RangeCall' = RangeCall /\ IsInstant' = IsInstant
          /\ Sendable' = Sendable
      BY <1>1, RequestSteady DEF InstantCall, RangeCall
    <3> QED
      BY <3>1, <2>1, <2>5, <1>1, <1>2, <1>9 DEF SentHeld
  <2>7. RefusedHeld'
    BY <2>1 DEF RefusedHeld
  <2> QED
    BY <2>3, <2>4, <2>6, <2>7 DEF Held
<1>10. CASE Sendable /\ ~instant /\ ~Bounded
  <2>1. stage' = "done" /\ outcome' = "panic" /\ call' = << >> /\ call' = call
    BY <1>1, <1>2, <1>10
  <2>2. request.kind = "native"
    BY <1>3, <1>10 DEF instant
  <2>3. TypeOK'
    <3>1. call' \in Pointers(Calls)
      BY <2>1, <1>2 DEF TypeOK
    <3> QED
      BY <3>1, <2>1, <1>1, <1>2, <1>7, TypeKept
  <2>4. StartHeld' /\ PredicateHeld' /\ ArgumentsHeld' /\ RawHeld' /\ ResolvedHeld'
    BY <2>1, <2>2, <2>3, <1>1, <1>2, ResolvedKept
  <2>5. \A f \in Fields : time[f] = << >>
    BY <2>2, <1>10 DEF instant, Bounded, Fields
  <2>6. \A f \in Fields : Bounds(f) = {}
    BY <2>2, <2>5, <1>2, AskedTimes DEF Asked
  <2>7. SentHeld'
    <3>1. (\A f \in Fields : Bounds(f) = {})' /\ Sendable' = Sendable
      BY <2>6, <1>1, RequestSteady
    <3> QED
      BY <3>1, <2>1, <1>1, <1>2, <1>10 DEF SentHeld
  <2>8. RefusedHeld'
    BY <2>1 DEF RefusedHeld
  <2> QED
    BY <2>3, <2>4, <2>7, <2>8 DEF Held
<1> QED
  BY <1>8, <1>9, <1>10

(* Once a query has been sent nothing but its outcome changes.             *)
LEMMA EndHeld ==
  ASSUME Held, stage = "answer", stage' = "done", outcome' \in {"refused", "answered"},
         request' = request, time' = time, expression' = expression,
         hasValue' = hasValue, todo' = todo, query' = query, step' = step, call' = call,
         answer' \in Answers \cup {<< >>}
  PROVE  Held'
<1>1. TypeOK /\ SentHeld
  BY DEF Held
<1>2. call # << >> /\ Passed /\ Resolved
  BY <1>1 DEF SentHeld, Passed, Resolved
<1>3. TypeOK'
  <2>1. call' \in Pointers(Calls)
    BY <1>1 DEF TypeOK
  <2> QED
    BY <2>1, <1>1, TypeKept
<1>4. StartHeld' /\ PredicateHeld' /\ ArgumentsHeld' /\ RawHeld' /\ ResolvedHeld'
  BY <1>2, <1>3, ResolvedKept
<1>5. SentHeld'
  <2>1. /\ InstantCall' = InstantCall /\ RangeCall' = RangeCall /\ IsInstant' = IsInstant
        /\ Sendable' = Sendable
    BY RequestSteady DEF InstantCall, RangeCall
  <2> QED
    BY <2>1, <1>1, <1>2 DEF SentHeld
<1>6. RefusedHeld'
  BY <1>2 DEF RefusedHeld
<1> QED
  BY <1>3, <1>4, <1>5, <1>6 DEF Held

LEMMA CallFailsHeld == ASSUME Held, CallFails PROVE Held'
<1>1. answer' \in Answers \cup {<< >>}
  BY DEF CallFails, Held, TypeOK
<1> QED
  BY <1>1, EndHeld DEF CallFails, Refuse

LEMMA AnswerHeld == ASSUME Held, Answer PROVE Held'
<1>1. /\ stage = "answer" /\ answer' \in Answers
      /\ request' = request /\ time' = time /\ expression' = expression
      /\ hasValue' = hasValue /\ todo' = todo /\ query' = query /\ step' = step
      /\ call' = call
  BY DEF Answer
<1>2. stage' = "done" /\ outcome' \in {"refused", "answered"}
  BY DEF Answer, Refuse
<1> QED
  BY <1>1, <1>2, EndHeld

LEMMA StutterHeld == ASSUME Held, UNCHANGED vars PROVE Held'
<1>1. /\ request' = request /\ stage' = stage /\ outcome' = outcome /\ time' = time
      /\ expression' = expression /\ hasValue' = hasValue /\ todo' = todo
      /\ query' = query /\ step' = step /\ call' = call /\ answer' = answer
  BY DEF vars
<1>2. /\ TypeOK /\ StartHeld /\ PredicateHeld /\ ArgumentsHeld /\ RawHeld
      /\ ResolvedHeld /\ SentHeld /\ RefusedHeld
  BY DEF Held
<1>3. /\ TimesAcceptable' = TimesAcceptable /\ \A f : Bounds(f)' = Bounds(f)
      /\ Given' = Given /\ Plain' = Plain /\ \A names : ValuesOf(names)' = ValuesOf(names)
      /\ Acceptable' = Acceptable /\ IsInstant' = IsInstant /\ Sendable' = Sendable
  BY <1>1, RequestSteady
<1>4. Passed' = Passed /\ Resolved' = Resolved
  BY <1>1 DEF Passed, Resolved
<1>5. TypeOK' /\ StartHeld'
  BY <1>1, <1>2 DEF TypeOK, StartHeld
<1>6. PredicateHeld'
  BY <1>1, <1>2, <1>3, <1>4 DEF PredicateHeld
<1>7. ArgumentsHeld'
  <2>1. (Given \ todo)' = Given \ todo /\ ValuesOf(Given \ todo)' = ValuesOf(Given \ todo)
    BY <1>1, <1>3
  <2>2. (Plain => query = Expand(Template, ValuesOf(Given \ todo)))'
          = (Plain => query = Expand(Template, ValuesOf(Given \ todo)))
    BY <2>1, <1>1, <1>3
  <2>3. (\A k \in Declared \ (todo \cup Settings) : request.arguments[k] # << >> => k \in Given)'
          = (\A k \in Declared \ (todo \cup Settings) : request.arguments[k] # << >> => k \in Given)
    BY <1>1, <1>3
  <2> QED
    BY <2>2, <2>3, <1>1, <1>2, <1>4 DEF ArgumentsHeld
<1>8. RawHeld' /\ ResolvedHeld'
  BY <1>1, <1>2, <1>4 DEF RawHeld, ResolvedHeld
<1>9. SentHeld' /\ RefusedHeld'
  <2>1. InstantCall' = InstantCall /\ RangeCall' = RangeCall
    BY <1>1 DEF InstantCall, RangeCall
  <2> QED
    BY <2>1, <1>1, <1>2, <1>3 DEF SentHeld, RefusedHeld
<1> QED
  BY <1>5, <1>6, <1>7, <1>8, <1>9 DEF Held

LEMMA NextHeld == ASSUME Held, [Next]_vars PROVE Held'
<1>1. CASE EvalPredicate
  BY <1>1, EvalPredicateHeld
<1>2. CASE EvalRaw
  BY <1>2, EvalRawHeld
<1>3. CASE \E key \in Settings : EvalSetting(key)
  BY <1>3, EvalSettingHeld
<1>4. CASE \E key \in Names : EvalArgument(key)
  BY <1>4, EvalArgumentHeld
<1>5. CASE CheckResolved
  BY <1>5, CheckResolvedHeld
<1>6. CASE Send
  BY <1>6, SendHeld
<1>7. CASE CallFails
  BY <1>7, CallFailsHeld
<1>8. CASE Answer
  BY <1>8, AnswerHeld
<1>9. CASE Done \/ UNCHANGED vars
  BY <1>9, StutterHeld DEF Done
<1> QED
  BY <1>1, <1>2, <1>3, <1>4, <1>5, <1>6, <1>7, <1>8, <1>9 DEF Next

LEMMA HeldInvariant == Spec => []Held
<1>1. Init => Held
  BY InitHeld
<1>2. Held /\ [Next]_vars => Held'
  BY NextHeld
<1> QED
  BY <1>1, <1>2, PTL DEF Spec

(* Every variable has its type.                                            *)
THEOREM TypeCorrect == Spec => []TypeOK
<1>1. Held => TypeOK
  BY DEF Held
<1> QED
  BY <1>1, HeldInvariant, PTL

-----------------------------------------------------------------------------
LEMMA QueryHeld == Held => QuerySubstituted
<1> SUFFICES ASSUME Held, call # << >> \/ outcome = "explained"
             PROVE  IF request.kind = "raw" THEN query = request.query.value
                    ELSE /\ ToSet(query) \cap Names = {}
                         /\ Plain => query = Substituted
  BY DEF QuerySubstituted
<1>1. TypeOK /\ ArgumentsHeld /\ RawHeld /\ ResolvedHeld /\ Passed /\ Resolved
  BY DEF Held, Passed, Resolved
<1>2. CASE request.kind = "raw"
  BY <1>1, <1>2 DEF RawHeld
<1>3. CASE request.kind = "native"
  <2>1. todo = {} /\ ToSet(query) \cap Names = {}
    BY <1>1, <1>3 DEF ResolvedHeld
  <2>2. Given \ todo = Given
    BY <2>1
  <2>3. Plain => query = Substituted
    BY <2>2, <1>1, <1>3 DEF ArgumentsHeld, Substituted
  <2> QED
    BY <2>1, <2>3, <1>3
<1> QED
  BY <1>1, <1>2, <1>3, RequestType

(* In any order of the walk over the arguments, no placeholder is sent to  *)
(* Prometheus or shown by Explain, and the query is the one with all       *)
(* placeholders replaced at once (evalArguments, evalUnknownArguments).    *)
THEOREM QueryIsSubstituted == Spec => []QuerySubstituted
BY QueryHeld, HeldInvariant, PTL

LEMMA SentAcceptable ==
  ASSUME Held, Plain, call # << >> \/ outcome \in {"panic", "explained"}
  PROVE  Acceptable
<1>1. /\ TypeOK /\ PredicateHeld /\ ArgumentsHeld /\ RawHeld /\ ResolvedHeld /\ SentHeld
      /\ Passed /\ Resolved
  BY DEF Held, Passed, Resolved
<1>2. Sendable \/ request.explain
  BY <1>1 DEF SentHeld
<1>3. todo = {}
  BY <1>1 DEF ResolvedHeld
<1>4. CASE request.kind = "raw"
  BY <1>1, <1>2, <1>4 DEF RawHeld, Acceptable
<1>5. CASE request.kind = "native"
  <2>1. request.order.ok /\ TimesAcceptable
    BY <1>1, <1>5 DEF PredicateHeld
  <2>2. /\ \A key \in Settings : request[key].ok
        /\ \A k \in Declared \ Settings : request.arguments[k] # << >> => k \in Given
        /\ query = Substituted
    <3>1. Given \ todo = Given
      BY <1>3
    <3> QED
      BY <3>1, <1>1, <1>3, <1>5 DEF ArgumentsHeld, Substituted
  <2>3. request.step.ok /\ request.timeout.ok
    <3>1. "step" \in Settings /\ "timeout" \in Settings
      BY DEF Settings
    <3> QED
      BY <3>1, <2>2, <1>1, SettingType
  <2>4. ToSet(Template) \cap Names \subseteq Given
    <3>1. SUFFICES ASSUME NEW y \in ToSet(Template), y \in Names, y \notin Given
                   PROVE  FALSE
      OBVIOUS
    <3>2. y \in ToSet(Substituted)
      BY <3>1, <1>1, ValuesSymbols
    <3> QED
      BY <3>1, <3>2, <2>2, <1>1, <1>5 DEF ResolvedHeld
  <2>5. ArgumentsAcceptable
    BY <2>2, <2>4 DEF ArgumentsAcceptable
  <2> QED
    BY <2>1, <2>3, <2>5, <1>2, <1>5 DEF Acceptable
<1> QED
  BY <1>1, <1>4, <1>5, RequestType

LEMMA RefusedForCauseHeld == Held => RefusedForCause
<1> SUFFICES ASSUME Held, Plain, stage \in {"answer", "done"}
             PROVE  (call # << >> \/ outcome \in {"panic", "explained"}) = Acceptable
  BY DEF RefusedForCause
<1>1. TypeOK /\ SentHeld /\ RefusedHeld
  BY DEF Held
<1>2. CASE call # << >> \/ outcome \in {"panic", "explained"}
  BY <1>2, SentAcceptable DEF Acceptable, TimesAcceptable, ArgumentsAcceptable
<1>3. CASE ~(call # << >> \/ outcome \in {"panic", "explained"})
  <2>1. stage = "done" /\ outcome = "refused"
    BY <1>1, <1>3 DEF SentHeld, TypeOK
  <2>2. ~Acceptable
    BY <2>1, <1>1, <1>3 DEF RefusedHeld
  <2> QED
    BY <2>2, <1>3 DEF Acceptable
<1> QED
  BY <1>2, <1>3

(* Whatever the order of the walk, a query is refused before it is sent if *)
(* and only if its predicate or its arguments are not acceptable (Explain, *)
(* evalQueryPredicate).                                                    *)
THEOREM RefusalHasCause == Spec => []RefusedForCause
BY RefusedForCauseHeld, HeldInvariant, PTL

LEMMA CallHeld == Held => CallMeant
<1> SUFFICES ASSUME Held PROVE CallMeant
  OBVIOUS
<1>1. TypeOK /\ SentHeld /\ ArgumentsHeld /\ RawHeld /\ ResolvedHeld
  BY DEF Held
<1>2. outcome = "panic" => \A f \in Fields : Bounds(f) = {}
  BY <1>1 DEF SentHeld
<1>3. ASSUME NEW i \in DOMAIN call
      PROVE  IF IsInstant
             THEN call[i].api = "query" /\ ToSet(call[i].at) \subseteq Asked("timestamp")
                    /\ (call[i].at = << >> => Asked("timestamp") = {})
             ELSE /\ call[i].api = "query_range"
                  /\ call[i].range.start \in OrElse(Asked("start"), 0)
                  /\ call[i].range.end \in OrElse(Asked("end"), Now)
                  /\ IF request.step.value # 0 THEN call[i].range.step = request.step.value
                     ELSE LET d == call[i].range.end - call[i].range.start
                          IN Years(d) <= 11000 => AtMost(d, call[i].range.step, 11000)
  <2>1. call # << >> /\ call \in Pointers(Calls) /\ i = 1
    <3>1. call \in Pointers(Calls)
      BY <1>1 DEF TypeOK
    <3>2. call # << >>
      <4>1. call = << >> => DOMAIN call = {}
        OBVIOUS
      <4> QED
        BY <4>1, <1>3
    <3>3. DOMAIN call = {1}
      BY <3>1, <3>2, PointerType
    <3> QED
      BY <3>1, <3>2, <3>3, <1>3
  <2>2. call = IF IsInstant THEN InstantCall ELSE RangeCall
    BY <2>1, <1>1 DEF SentHeld
  <2>3. Passed /\ Resolved
    BY <2>1 DEF Passed, Resolved
  <2>4. "timestamp" \in Fields /\ "start" \in Fields /\ "end" \in Fields
    BY DEF Fields
  <2>5. CASE IsInstant
    <3>1. call[1] = [api |-> "query", at |-> time.timestamp]
      BY <2>2, <2>5 DEF InstantCall
    <3>2. ToSet(time.timestamp) \subseteq Asked("timestamp")
          /\ (time.timestamp = << >> => Asked("timestamp") = {})
      BY <2>3, <2>4, TimesAsked
    <3> QED
      BY <3>1, <3>2, <2>1, <2>5
  <2>6. CASE ~IsInstant
    <3> DEFINE range == NewRange(time.start, time.end, step, Now)
               from == IF time.start = << >> THEN 0 ELSE time.start[1]
               to == IF time.end = << >> THEN Now ELSE time.end[1]
    <3>1. call[1] = [api |-> "query_range", range |-> range]
      BY <2>2, <2>6 DEF RangeCall
    <3>2. range = [start |-> from, end |-> to,
                   step |-> IF step = 0 THEN EvalStep(to - from) ELSE step]
      BY DEF NewRange
    <3>3. /\ ToSet(time.start) \subseteq Asked("start")
          /\ time.start = << >> => Asked("start") = {}
          /\ time.start \in Pointers(Nat)
          /\ ToSet(time.end) \subseteq Asked("end")
          /\ time.end = << >> => Asked("end") = {}
          /\ time.end \in Pointers(Nat)
      BY <2>3, <2>4, TimesAsked
    <3>4. from \in OrElse(Asked("start"), 0) /\ from \in Nat
      <4>1. CASE time.start = << >>
        BY <4>1, <3>3 DEF OrElse
      <4>2. CASE time.start # << >>
        <5>1. time.start[1] \in Asked("start") /\ time.start[1] \in Nat
          BY <4>2, <3>3, PointerElement
        <5> QED
          BY <5>1, <4>2 DEF OrElse
      <4> QED
        BY <4>1, <4>2
    <3>5. to \in OrElse(Asked("end"), Now) /\ to \in Nat
      <4>1. CASE time.end = << >>
        BY <4>1, <3>3, NativeAssumption DEF OrElse
      <4>2. CASE time.end # << >>
        <5>1. time.end[1] \in Asked("end") /\ time.end[1] \in Nat
          BY <4>2, <3>3, PointerElement
        <5> QED
          BY <5>1, <4>2 DEF OrElse
      <4> QED
        BY <4>1, <4>2
    <3>6. step = request.step.value
      <4>1. todo = {}
        BY <2>3, <1>1 DEF ResolvedHeld
      <4> QED
        BY <4>1, <2>3, <1>1, RequestType DEF ArgumentsHeld, RawHeld
    <3> HIDE DEF range, from, to
    <3>7. range.start = from /\ range.end = to
      BY <3>2
    <3>8. request.step.value # 0 => range.step = request.step.value
      BY <3>2, <3>6
    <3>9. request.step.value = 0 => range.step = EvalStep(to - from)
      BY <3>2, <3>6
    <3>10. to - from \in Int
      BY <3>4, <3>5
    <3>11. request.step.value = 0 =>
             (Years(to - from) <= 11000 => AtMost(to - from, range.step, 11000))
      BY <3>9, <3>10, FewSteps
    <3>12. call[i].api = "query_range" /\ call[i].range = range
      BY <3>1, <2>1
    <3> QED
      BY <2>6, <3>4, <3>5, <3>7, <3>8, <3>11, <3>12
  <2> QED
    BY <2>5, <2>6
<1> QED
  BY <1>2, <1>3 DEF CallMeant

(* The call sent is the one that the times and the step ask for, and a     *)
(* range has no more points than Prometheus accepts (execute,              *)
(* evalStepFromRange); only a query without any time panics.               *)
THEOREM CallIsMeant == Spec => []CallMeant
BY CallHeld, HeldInvariant, PTL
-----------------------------------------------------------------------------
(* Insertion, as it moves the places of a list.                            *)
Permutes(m, n) ==
  /\ m \in [1 .. n -> 1 .. n]
  /\ \A j, k \in 1 .. n : m[j] = m[k] => j = k
  /\ \A p \in 1 .. n : \E k \in 1 .. n : m[k] = p

Swapped(m, j) == [m EXCEPT ![j] = m[j - 1], ![j - 1] = m[j]]

(* T says which place comes before which. *)
Ordering(T, n) ==
  /\ \A j \in 1 .. n : <<j, j>> \notin T
  /\ \A j, k, l \in 1 .. n : <<j, k>> \in T /\ <<k, l>> \in T => <<j, l>> \in T

(* Only the first i places have been touched. *)
Within(m, n, i) ==
  /\ Permutes(m, n)
  /\ \A p \in i + 1 .. n : m[p] = p
  /\ \A p \in 1 .. i : m[p] \in 1 .. i

(* They are in order. *)
InOrder(m, n, i, T) ==
  /\ Within(m, n, i)
  /\ \A p, q \in 1 .. i : p < q => <<m[p], m[q]>> \in T

(* They are but for the last one, which has come down to j. *)
Inserting(m, n, i, j, T) ==
  /\ Within(m, n, i)
  /\ m[j] = i
  /\ \A p, q \in 1 .. i : p < q /\ p # j /\ q # j => <<m[p], m[q]>> \in T
  /\ \A q \in j + 1 .. i : <<i, m[q]>> \in T

LEMMA SwapWithin ==
  ASSUME NEW n \in Nat, NEW i \in 1 .. n, NEW j \in 2 .. i, NEW m, Within(m, n, i)
  PROVE  /\ Within(Swapped(m, j), n, i)
         /\ Swapped(m, j)[j] = m[j - 1] /\ Swapped(m, j)[j - 1] = m[j]
         /\ \A p \in 1 .. n : p # j /\ p # j - 1 => Swapped(m, j)[p] = m[p]
<1> DEFINE s == Swapped(m, j)
<1>1. m \in [1 .. n -> 1 .. n] /\ j \in 1 .. n /\ j - 1 \in 1 .. n /\ j - 1 # j
  BY DEF Within, Permutes
<1>2. /\ s \in [1 .. n -> 1 .. n]
      /\ s[j] = m[j - 1] /\ s[j - 1] = m[j]
      /\ \A p \in 1 .. n : p # j /\ p # j - 1 => s[p] = m[p]
  BY <1>1 DEF Swapped
<1> HIDE DEF s
<1>3. \A p \in i + 1 .. n : p \in 1 .. n /\ p # j /\ p # j - 1
  OBVIOUS
<1>4. j \in 1 .. i /\ j - 1 \in 1 .. i /\ \A p \in 1 .. i : p \in 1 .. n
  OBVIOUS
<1>5. ASSUME NEW p \in 1 .. n, NEW q \in 1 .. n, s[p] = s[q] PROVE p = q
  <2>1. \A k, l \in 1 .. n : m[k] = m[l] => k = l
    BY DEF Within, Permutes
  <2> QED
    BY <1>1, <1>2, <1>5, <2>1
<1>6. ASSUME NEW p \in 1 .. n PROVE \E k \in 1 .. n : s[k] = p
  <2>1. PICK k \in 1 .. n : m[k] = p
    BY DEF Within, Permutes
  <2> QED
    BY <1>1, <1>2, <2>1
<1>7. Permutes(s, n)
  BY <1>2, <1>5, <1>6 DEF Permutes
<1>8. \A p \in i + 1 .. n : s[p] = p
  BY <1>2, <1>3 DEF Within
<1>9. \A p \in 1 .. i : s[p] \in 1 .. i
  BY <1>2, <1>4 DEF Within
<1> QED
  BY <1>2, <1>7, <1>8, <1>9 DEF Within, s

LEMMA StartInserting ==
  ASSUME NEW n \in Nat, NEW i \in 1 .. n, NEW m, NEW T, InOrder(m, n, i - 1, T)
  PROVE  Inserting(m, n, i, i, T)
<1>1. /\ (i - 1) + 1 = i /\ i \in (i - 1) + 1 .. n /\ i - 1 \in 0 .. n
      /\ \A p \in 1 .. i : p = i \/ p \in 1 .. i - 1
      /\ \A p \in i + 1 .. n : p \in (i - 1) + 1 .. n
      /\ \A p \in 1 .. i - 1 : p \in 1 .. i
  OBVIOUS
<1>2. m[i] = i
  BY <1>1 DEF InOrder, Within
<1>3. Within(m, n, i)
  <2>1. \A p \in 1 .. i : m[p] \in 1 .. i
    BY <1>1, <1>2 DEF InOrder, Within
  <2> QED
    BY <1>1, <2>1 DEF InOrder, Within
<1>4. \A p, q \in 1 .. i : p < q /\ p # i /\ q # i => <<m[p], m[q]>> \in T
  BY <1>1 DEF InOrder
<1>5. \A q \in i + 1 .. i : FALSE
  OBVIOUS
<1> QED
  BY <1>2, <1>3, <1>4, <1>5 DEF Inserting

LEMMA SwapInserting ==
  ASSUME NEW n \in Nat, NEW i \in 1 .. n, NEW j \in 2 .. i, NEW m, NEW T,
         Inserting(m, n, i, j, T), <<i, m[j - 1]>> \in T
  PROVE  Inserting(Swapped(m, j), n, i, j - 1, T)
<1> DEFINE s == Swapped(m, j)
<1>0. Within(m, n, i)
  BY DEF Inserting
<1>1. /\ Within(s, n, i)
      /\ s[j] = m[j - 1] /\ s[j - 1] = m[j]
      /\ \A p \in 1 .. n : p # j /\ p # j - 1 => s[p] = m[p]
  BY <1>0, SwapWithin
<1> HIDE DEF s
<1>2. m[j] = i /\ s[j - 1] = i
  BY <1>1 DEF Inserting
<1>3. ASSUME NEW p \in 1 .. i, NEW q \in 1 .. i, p < q, p # j - 1, q # j - 1
      PROVE  <<s[p], s[q]>> \in T
  <2>1. p \in 1 .. n /\ q \in 1 .. n /\ j - 1 \in 1 .. i /\ j - 1 # j
    OBVIOUS
  <2>2. CASE p = j
    <3>1. j - 1 < q /\ q # j
      BY <1>3, <2>2
    <3>2. <<m[j - 1], m[q]>> \in T
      BY <2>1, <3>1 DEF Inserting
    <3> QED
      BY <3>1, <3>2, <2>1, <2>2, <1>1, <1>3
  <2>3. CASE q = j
    <3>1. p < j - 1 /\ p # j
      BY <1>3, <2>3
    <3>2. <<m[p], m[j - 1]>> \in T
      BY <2>1, <3>1 DEF Inserting
    <3> QED
      BY <3>1, <3>2, <2>1, <2>3, <1>1, <1>3
  <2>4. CASE p # j /\ q # j
    <3>1. <<m[p], m[q]>> \in T
      BY <1>3, <2>4 DEF Inserting
    <3> QED
      BY <3>1, <2>1, <2>4, <1>1, <1>3
  <2> QED
    BY <2>2, <2>3, <2>4
<1>4. ASSUME NEW q \in (j - 1) + 1 .. i PROVE <<i, s[q]>> \in T
  <2>1. q = j \/ (q \in j + 1 .. i /\ q \in 1 .. n /\ q # j /\ q # j - 1)
    OBVIOUS
  <2>2. CASE q = j
    BY <2>2, <1>1
  <2>3. CASE q \in j + 1 .. i /\ q \in 1 .. n /\ q # j /\ q # j - 1
    <3>1. <<i, m[q]>> \in T
      BY <2>3 DEF Inserting
    <3> QED
      BY <2>3, <3>1, <1>1
  <2> QED
    BY <2>1, <2>2, <2>3
<1> QED
  BY <1>1, <1>2, <1>3, <1>4 DEF Inserting, s

LEMMA StopInserting ==
  ASSUME NEW n \in Nat, NEW i \in 1 .. n, NEW j \in 1 .. i, NEW m, NEW T, Ordering(T, n),
         Inserting(m, n, i, j, T), j > 1 => <<m[j - 1], i>> \in T
  PROVE  InOrder(m, n, i, T)
<1>1. Within(m, n, i) /\ m[j] = i
  BY DEF Inserting
<1>2. \A p \in 1 .. i : m[p] \in 1 .. n
  <2>1. \A p \in 1 .. i : m[p] \in 1 .. i
    BY <1>1 DEF Within
  <2> QED
    BY <2>1
<1>3. ASSUME NEW p \in 1 .. i, NEW q \in 1 .. i, p < q
      PROVE  <<m[p], m[q]>> \in T
  <2>1. CASE p = j
    <3>1. q \in j + 1 .. i
      BY <2>1, <1>3
    <3> QED
      BY <3>1, <2>1, <1>1 DEF Inserting
  <2>2. CASE q = j
    <3>1. j > 1 /\ j - 1 \in 1 .. i /\ j - 1 # j /\ (p = j - 1 \/ p < j - 1)
      BY <2>2, <1>3
    <3>2. <<m[j - 1], i>> \in T
      BY <3>1
    <3>3. CASE p = j - 1
      BY <3>2, <3>3, <2>2, <1>1
    <3>4. CASE p < j - 1
      <4>1. <<m[p], m[j - 1]>> \in T
        BY <3>1, <3>4, <2>2, <1>3 DEF Inserting
      <4>2. m[p] \in 1 .. n /\ m[j - 1] \in 1 .. n /\ i \in 1 .. n
        BY <3>1, <1>2
      <4>3. <<m[p], i>> \in T
        BY <3>2, <4>1, <4>2 DEF Ordering
      <4> QED
        BY <4>3, <2>2, <1>1
    <3> QED
      BY <3>1, <3>3, <3>4
  <2>3. CASE p # j /\ q # j
    BY <2>3, <1>3 DEF Inserting
  <2> QED
    BY <2>1, <2>2, <2>3
<1> QED
  BY <1>1, <1>3 DEF InOrder

LEMMA IdentityInOrder ==
  ASSUME NEW n \in Nat, NEW T
  PROVE  InOrder([p \in 1 .. n |-> p], n, 0, T)
<1> DEFINE m == [p \in 1 .. n |-> p]
<1>1. Permutes(m, n)
  BY DEF Permutes
<1>2. \A p \in 0 + 1 .. n : m[p] = p
  OBVIOUS
<1>3. \A p \in 1 .. 0 : FALSE
  OBVIOUS
<1> HIDE DEF m
<1> QED
  BY <1>1, <1>2, <1>3 DEF InOrder, Within, m
-----------------------------------------------------------------------------
(* The steps of the sort. *)
Lists(E, n) == [1 .. n -> E]

States(E, n) == [list : Lists(E, n), placed : BOOLEAN]

IsComparison(compare, E) ==
  \A x, y \in E : compare[x][y] \in [a : E, b : E, order : Int]

LEMMA ShiftType ==
  ASSUME NEW E, NEW n \in Nat, NEW compare, IsComparison(compare, E),
         NEW acc \in States(E, n), NEW j \in 2 .. n
  PROVE  Shift(acc, j, compare) \in States(E, n)
<1> DEFINE c == compare[acc.list[j]][acc.list[j - 1]]
<1>1. acc.list \in Lists(E, n) /\ j \in 1 .. n /\ j - 1 \in 1 .. n
  BY DEF States
<1>2. acc.list[j] \in E /\ acc.list[j - 1] \in E
  BY <1>1 DEF Lists
<1>3. c \in [a : E, b : E, order : Int]
  BY <1>2 DEF IsComparison
<1>4. c.a \in E /\ c.b \in E
  BY <1>3
<1> HIDE DEF c
<1>5. [acc.list EXCEPT ![j] = c.b, ![j - 1] = c.a] \in Lists(E, n)
  BY <1>1, <1>4 DEF Lists
<1>6. [acc.list EXCEPT ![j] = c.a, ![j - 1] = c.b] \in Lists(E, n)
  BY <1>1, <1>4 DEF Lists
<1>7. Shift(acc, j, compare) =
        IF acc.placed THEN acc
        ELSE IF c.order < 0
        THEN [list |-> [acc.list EXCEPT ![j] = c.b, ![j - 1] = c.a], placed |-> FALSE]
        ELSE [list |-> [acc.list EXCEPT ![j] = c.a, ![j - 1] = c.b], placed |-> TRUE]
  BY DEF Shift, c
<1> QED
  BY <1>5, <1>6, <1>7 DEF States

Shifts(f, list, i, compare, S) ==
  /\ f \in [0 .. i - 1 -> S]
  /\ f[0] = [list |-> list, placed |-> FALSE]
  /\ \A k \in 1 .. i - 1 : f[k] = Shift(f[k - 1], i - k + 1, compare)

LEMMA InsertSteps ==
  ASSUME NEW E, NEW n \in Nat, NEW compare, IsComparison(compare, E),
         NEW list \in Lists(E, n), NEW i \in 1 .. n
  PROVE  \E f : Shifts(f, list, i, compare, States(E, n))
                  /\ Insert(list, i, compare) = f[i - 1].list
<1> DEFINE S == States(E, n)
           N == i - 1
           first == [list |-> list, placed |-> FALSE]
           next == [k \in 1 .. N |-> [acc \in S |-> Shift(acc, i - k + 1, compare)]]
<1>1. N \in Nat /\ \A k \in 1 .. N : i - k + 1 \in 2 .. n
  OBVIOUS
<1>2. first \in S
  BY DEF States
<1>3. \A k \in 1 .. N : \A acc \in S : Shift(acc, i - k + 1, compare) \in S
  BY <1>1, ShiftType
<1>4. next \in [1 .. N -> [S -> S]]
  BY <1>3
<1>5. PICK e : Follows(e, first, next, N, S)
  <2>1. IsNext(next, N, S)
    BY <1>4 DEF IsNext
  <2> HIDE DEF next, N, S, first
  <2> QED
    BY <1>1, <2>1, <1>2, Recursion
<1>6. \A k \in 1 .. N : e[k] = Shift(e[k - 1], i - k + 1, compare)
  <2>1. TAKE k \in 1 .. N
  <2>2. k - 1 \in 0 .. N
    BY <1>1
  <2>3. e[k - 1] \in S
    BY <2>2, <1>5 DEF Follows
  <2>4. next[k][e[k - 1]] = Shift(e[k - 1], i - k + 1, compare)
    BY <2>3
  <2> HIDE DEF next, S, N
  <2> QED
    BY <2>4, <1>5 DEF Follows
<1> HIDE DEF next, S, first
<1>7. e = [k \in 0 .. N |-> IF k = 0 THEN first ELSE Shift(e[k - 1], i - k + 1, compare)]
  <2>1. \A k \in 0 .. N : e[k] = IF k = 0 THEN first ELSE Shift(e[k - 1], i - k + 1, compare)
    <3>1. TAKE k \in 0 .. N
    <3>2. k = 0 \/ k \in 1 .. N
      BY <1>1
    <3> HIDE DEF N
    <3> QED
      BY <3>2, <1>5, <1>6 DEF Follows
  <2> QED
    BY <2>1, <1>5 DEF Follows
<1> DEFINE Good(g) == g = [k \in 0 .. i - 1 |->
                             IF k = 0 THEN [list |-> list, placed |-> FALSE]
                             ELSE Shift(g[k - 1], i - k + 1, compare)]
           x == CHOOSE g : Good(g)
<1>8. Insert(list, i, compare) = x[i - 1].list
  BY DEF Insert
<1>9. Good(x)
  <2>1. Good(e)
    BY <1>7 DEF first
  <2> HIDE DEF Good
  <2> QED
    BY <2>1
<1>10. x = [k \in 0 .. N |-> IF k = 0 THEN first ELSE Shift(x[k - 1], i - k + 1, compare)]
  BY <1>9 DEF first
<1> HIDE DEF x
<1>11. \A k \in 0 .. N : x[k] = IF k = 0 THEN first ELSE Shift(x[k - 1], i - k + 1, compare)
  BY <1>10
<1>12. x[0] = first
  BY <1>11, <1>1
<1>13. \A k \in 1 .. N : x[k] = Shift(x[k - 1], i - k + 1, compare)
  <2>1. \A k \in 1 .. N : k \in 0 .. N /\ k # 0
    BY <1>1
  <2> QED
    BY <1>11, <2>1
<1>14. x \in [0 .. N -> S]
  <2> DEFINE T == {k \in 0 .. N : x[k] \in S}
  <2>1. 0 \in T
    BY <1>12, <1>2, <1>1
  <2>2. ASSUME NEW k \in 1 .. N, k - 1 \in T PROVE k \in T
    <3>1. k \in 0 .. N /\ x[k - 1] \in S
      BY <2>2, <1>1
    <3>2. x[k] \in S
      BY <3>1, <1>3, <1>13
    <3> QED
      BY <3>1, <3>2
  <2>3. \A k \in 0 .. N : k \in T
    <3> HIDE DEF T, N
    <3> QED
      BY <2>1, <2>2, <1>1, Induct
  <2> QED
    BY <2>3, <1>10
<1>15. Shifts(x, list, i, compare, S)
  BY <1>12, <1>13, <1>14 DEF Shifts, first
<1> QED
  BY <1>8, <1>15 DEF S

LEMMA InsertType ==
  ASSUME NEW E, NEW n \in Nat, NEW compare, IsComparison(compare, E),
         NEW list \in Lists(E, n), NEW i \in 1 .. n
  PROVE  Insert(list, i, compare) \in Lists(E, n)
<1>1. PICK f : Shifts(f, list, i, compare, States(E, n)) /\ Insert(list, i, compare) = f[i - 1].list
  BY InsertSteps
<1>2. f[i - 1] \in States(E, n)
  <2>1. i - 1 \in 0 .. i - 1
    OBVIOUS
  <2> QED
    BY <2>1, <1>1 DEF Shifts
<1> QED
  BY <1>1, <1>2 DEF States

Inserts(f, list, n, compare, S) ==
  /\ f \in [0 .. n -> S]
  /\ f[0] = list
  /\ \A i \in 1 .. n : f[i] = Insert(f[i - 1], i, compare)

LEMMA SortSteps ==
  ASSUME NEW E, NEW compare, IsComparison(compare, E), NEW list \in Seq(E)
  PROVE  \E f : Inserts(f, list, Len(list), compare, Lists(E, Len(list)))
                  /\ SortFunc(list, compare) = f[Len(list)]
<1> DEFINE N == Len(list)
           S == Lists(E, N)
           next == [i \in 1 .. N |-> [l \in S |-> Insert(l, i, compare)]]
<1>1. N \in Nat
  OBVIOUS
<1>2. list \in S
  BY DEF Lists
<1>3. \A i \in 1 .. N : \A l \in S : Insert(l, i, compare) \in S
  <2> HIDE DEF N
  <2> QED
    BY <1>1, InsertType
<1>4. next \in [1 .. N -> [S -> S]]
  BY <1>3
<1>5. PICK e : Follows(e, list, next, N, S)
  <2>1. IsNext(next, N, S)
    BY <1>4 DEF IsNext
  <2> HIDE DEF next, N, S
  <2> QED
    BY <1>1, <2>1, <1>2, Recursion
<1>6. \A i \in 1 .. N : e[i] = Insert(e[i - 1], i, compare)
  <2>1. TAKE i \in 1 .. N
  <2>2. i - 1 \in 0 .. N
    BY <1>1
  <2>3. e[i - 1] \in S
    BY <2>2, <1>5 DEF Follows
  <2>4. next[i][e[i - 1]] = Insert(e[i - 1], i, compare)
    BY <2>3
  <2> HIDE DEF next, S, N
  <2> QED
    BY <2>4, <1>5 DEF Follows
<1> HIDE DEF next, S
<1>7. e = [i \in 0 .. N |-> IF i = 0 THEN list ELSE Insert(e[i - 1], i, compare)]
  <2>1. \A i \in 0 .. N : e[i] = IF i = 0 THEN list ELSE Insert(e[i - 1], i, compare)
    <3>1. TAKE i \in 0 .. N
    <3>2. i = 0 \/ i \in 1 .. N
      BY <1>1
    <3> HIDE DEF N
    <3> QED
      BY <3>2, <1>5, <1>6 DEF Follows
  <2> QED
    BY <2>1, <1>5 DEF Follows
<1> DEFINE Good(g) == g = [i \in 0 .. Len(list) |->
                             IF i = 0 THEN list ELSE Insert(g[i - 1], i, compare)]
           x == CHOOSE g : Good(g)
<1>8. SortFunc(list, compare) = x[N]
  BY DEF SortFunc
<1>9. Good(x)
  <2>1. Good(e)
    BY <1>7
  <2> HIDE DEF Good
  <2> QED
    BY <2>1
<1>10. x = [i \in 0 .. N |-> IF i = 0 THEN list ELSE Insert(x[i - 1], i, compare)]
  BY <1>9
<1> HIDE DEF x, N
<1>11. \A i \in 0 .. N : x[i] = IF i = 0 THEN list ELSE Insert(x[i - 1], i, compare)
  BY <1>10
<1>12. x[0] = list
  BY <1>11, <1>1
<1>13. \A i \in 1 .. N : x[i] = Insert(x[i - 1], i, compare)
  <2>1. \A i \in 1 .. N : i \in 0 .. N /\ i # 0
    BY <1>1
  <2> QED
    BY <1>11, <2>1
<1>14. x \in [0 .. N -> S]
  <2> DEFINE T == {i \in 0 .. N : x[i] \in S}
  <2>1. 0 \in T
    BY <1>12, <1>2, <1>1
  <2>2. ASSUME NEW i \in 1 .. N, i - 1 \in T PROVE i \in T
    <3>1. i \in 0 .. N /\ x[i - 1] \in S
      BY <2>2, <1>1
    <3>2. x[i] \in S
      BY <3>1, <1>3, <1>13
    <3> QED
      BY <3>1, <3>2
  <2>3. \A i \in 0 .. N : i \in T
    <3> HIDE DEF T
    <3> QED
      BY <2>1, <2>2, <1>1, Induct
  <2> QED
    BY <2>3, <1>10
<1>15. Inserts(x, list, N, compare, S)
  BY <1>12, <1>13, <1>14 DEF Inserts
<1> QED
  BY <1>8, <1>15 DEF S, N

LEMMA SortType ==
  ASSUME NEW E, NEW compare, IsComparison(compare, E), NEW list \in Seq(E)
  PROVE  SortFunc(list, compare) \in Seq(E) /\ Len(SortFunc(list, compare)) = Len(list)
<1>1. PICK f : /\ Inserts(f, list, Len(list), compare, Lists(E, Len(list)))
               /\ SortFunc(list, compare) = f[Len(list)]
  BY SortSteps
<1>2. Len(list) \in Nat /\ Len(list) \in 0 .. Len(list)
  OBVIOUS
<1>3. f[Len(list)] \in Lists(E, Len(list))
  BY <1>1, <1>2 DEF Inserts
<1>4. f[Len(list)] \in [1 .. Len(list) -> E]
  BY <1>3 DEF Lists
<1> QED
  BY <1>1, <1>2, <1>4
-----------------------------------------------------------------------------
(* What a comparison decides: it makes norm of both, and less orders them. *)
IsSplit(less, E) ==
  /\ \A x, y \in E : <<x, y>> \in less => <<y, x>> \notin less
  /\ \A x, y, z \in E : <<x, y>> \in less => <<x, z>> \in less \/ <<z, y>> \in less

IsNorm(norm, less, E) ==
  /\ norm \in [E -> E]
  /\ \A x \in E : norm[norm[x]] = norm[x]
  /\ \A x, y, u, v \in E : norm[x] = norm[u] /\ norm[y] = norm[v]
                             => (<<x, y>> \in less <=> <<u, v>> \in less)

Decides(compare, norm, less, E) ==
  /\ IsComparison(compare, E)
  /\ \A x, y \in E : /\ compare[x][y].a = norm[x] /\ compare[x][y].b = norm[y]
                     /\ compare[x][y].order < 0 <=> <<x, y>> \in less

(* The places of a list by less, and how a stable sort orders places. *)
Lesser(list, less) == {p \in Pairs(list) : <<list[p[1]], list[p[2]]>> \in less}

Stable(before, n) ==
  {p \in (1 .. n) \X (1 .. n) :
     p \in before \/ (p[1] < p[2] /\ <<p[2], p[1]>> \notin before)}

LEMMA StableIs ==
  ASSUME NEW n \in Nat, NEW before, NEW j \in 1 .. n, NEW k \in 1 .. n
  PROVE  <<j, k>> \in Stable(before, n)
           <=> <<j, k>> \in before \/ (j < k /\ <<k, j>> \notin before)
BY DEF Stable

LEMMA LesserIs ==
  ASSUME NEW E, NEW n \in Nat, NEW list \in Lists(E, n), NEW less,
         NEW j \in 1 .. n, NEW k \in 1 .. n
  PROVE  <<j, k>> \in Lesser(list, less) <=> <<list[j], list[k]>> \in less
BY DEF Lesser, Pairs, Lists

LEMMA SplitPlaces ==
  ASSUME NEW E, NEW n \in Nat, NEW list \in Lists(E, n), NEW less, IsSplit(less, E)
  PROVE  IsSplit(Lesser(list, less), 1 .. n)
<1>1. \A j \in 1 .. n : list[j] \in E
  BY DEF Lists
<1>2. \A j, k \in 1 .. n : <<j, k>> \in Lesser(list, less) <=> <<list[j], list[k]>> \in less
  BY LesserIs
<1> QED
  BY <1>1, <1>2 DEF IsSplit

LEMMA StableOrdering ==
  ASSUME NEW n \in Nat, NEW before, IsSplit(before, 1 .. n)
  PROVE  Ordering(Stable(before, n), n)
<1> DEFINE T == Stable(before, n)
<1>1. \A j, k \in 1 .. n :
        <<j, k>> \in T <=> <<j, k>> \in before \/ (j < k /\ <<k, j>> \notin before)
  BY StableIs
<1> HIDE DEF T
<1>2. ASSUME NEW j \in 1 .. n PROVE <<j, j>> \notin T
  <2>1. ~ (j < j)
    OBVIOUS
  <2> QED
    BY <1>1, <2>1 DEF IsSplit
<1>3. ASSUME NEW j \in 1 .. n, NEW k \in 1 .. n, NEW l \in 1 .. n,
             <<j, k>> \in T, <<k, l>> \in T
      PROVE  <<j, l>> \in T
  <2>1. j < k /\ k < l => j < l
    OBVIOUS
  <2>2. <<j, k>> \in before \/ (j < k /\ <<k, j>> \notin before)
    BY <1>1, <1>3
  <2>3. <<k, l>> \in before \/ (k < l /\ <<l, k>> \notin before)
    BY <1>1, <1>3
  <2>4. <<j, k>> \in before => <<j, l>> \in before \/ <<l, k>> \in before
    BY DEF IsSplit
  <2>5. <<k, l>> \in before => <<k, j>> \in before \/ <<j, l>> \in before
    BY DEF IsSplit
  <2>6. <<l, j>> \in before => <<l, k>> \in before \/ <<k, j>> \in before
    BY DEF IsSplit
  <2>7. <<k, l>> \in before => <<l, k>> \notin before
    BY DEF IsSplit
  <2>8. <<j, k>> \in before => <<k, j>> \notin before
    BY DEF IsSplit
  <2>9. <<j, l>> \in before \/ (j < l /\ <<l, j>> \notin before)
    BY <2>1, <2>2, <2>3, <2>4, <2>5, <2>6, <2>7, <2>8
  <2> QED
    BY <2>9, <1>1
<1> QED
  BY <1>2, <1>3 DEF Ordering, T
-----------------------------------------------------------------------------
(* A list on its way to be sorted: m has the places its elements come from.*)
Comes(l, list, m, norm, n) == \A p \in 1 .. n : norm[l[p]] = norm[list[m[p]]]

Normal(l, norm, i) == \A p \in 1 .. i : norm[l[p]] = l[p]

(* After k comparisons of the i-th element. *)
Inserted(acc, list, m, norm, T, n, i, k) ==
  /\ Comes(acc.list, list, m, norm, n)
  /\ acc.placed => k >= 1 /\ InOrder(m, n, i, T)
  /\ ~acc.placed => Inserting(m, n, i, i - k, T)
  /\ k >= 1 => Normal(acc.list, norm, i)
  /\ i >= 3 => Normal(acc.list, norm, i - 1)

LEMMA ComesSwapped ==
  ASSUME NEW E, NEW n \in Nat, NEW i \in 1 .. n, NEW j \in 2 .. i, NEW norm,
         NEW l \in Lists(E, n), NEW list \in Lists(E, n), NEW m, Within(m, n, i),
         \A x \in E : norm[x] \in E /\ norm[norm[x]] = norm[x],
         Comes(l, list, m, norm, n)
  PROVE  Comes([l EXCEPT ![j] = norm[l[j - 1]], ![j - 1] = norm[l[j]]],
               list, Swapped(m, j), norm, n)
<1> DEFINE s == Swapped(m, j)
           r == [l EXCEPT ![j] = norm[l[j - 1]], ![j - 1] = norm[l[j]]]
<1>1. j \in 1 .. n /\ j - 1 \in 1 .. n /\ j # j - 1
  OBVIOUS
<1>2. s[j] = m[j - 1] /\ s[j - 1] = m[j]
      /\ \A p \in 1 .. n : p # j /\ p # j - 1 => s[p] = m[p]
  BY SwapWithin
<1>3. l \in [1 .. n -> E]
  BY DEF Lists
<1>4. r[j] = norm[l[j - 1]] /\ r[j - 1] = norm[l[j]]
      /\ \A p \in 1 .. n : p # j /\ p # j - 1 => r[p] = l[p]
  BY <1>1, <1>3
<1> HIDE DEF s, r
<1>5. l[j] \in E /\ l[j - 1] \in E
  BY <1>1, <1>3
<1>6. ASSUME NEW p \in 1 .. n PROVE norm[r[p]] = norm[list[s[p]]]
  <2>1. CASE p = j
    <3>1. norm[l[j - 1]] = norm[list[m[j - 1]]]
      BY <1>1 DEF Comes
    <3> QED
      BY <3>1, <2>1, <1>2, <1>4, <1>5
  <2>2. CASE p = j - 1
    <3>1. norm[l[j]] = norm[list[m[j]]]
      BY <1>1 DEF Comes
    <3> QED
      BY <3>1, <2>2, <1>2, <1>4, <1>5
  <2>3. CASE p # j /\ p # j - 1
    BY <2>3, <1>2, <1>4 DEF Comes
  <2> QED
    BY <2>1, <2>2, <2>3
<1> QED
  BY <1>6 DEF Comes, r, s

LEMMA ComesCompared ==
  ASSUME NEW E, NEW n \in Nat, NEW i \in 1 .. n, NEW j \in 2 .. i, NEW norm,
         NEW l \in Lists(E, n), NEW list \in Lists(E, n), NEW m,
         \A x \in E : norm[x] \in E /\ norm[norm[x]] = norm[x],
         Comes(l, list, m, norm, n)
  PROVE  Comes([l EXCEPT ![j] = norm[l[j]], ![j - 1] = norm[l[j - 1]]], list, m, norm, n)
<1> DEFINE r == [l EXCEPT ![j] = norm[l[j]], ![j - 1] = norm[l[j - 1]]]
<1>1. j \in 1 .. n /\ j - 1 \in 1 .. n /\ j # j - 1
  OBVIOUS
<1>3. l \in [1 .. n -> E]
  BY DEF Lists
<1>4. r[j] = norm[l[j]] /\ r[j - 1] = norm[l[j - 1]]
      /\ \A p \in 1 .. n : p # j /\ p # j - 1 => r[p] = l[p]
  BY <1>1, <1>3
<1> HIDE DEF r
<1>5. l[j] \in E /\ l[j - 1] \in E
  BY <1>1, <1>3
<1>6. \A p \in 1 .. n : norm[r[p]] = norm[l[p]]
  BY <1>1, <1>4, <1>5
<1> QED
  BY <1>6 DEF Comes, r

LEMMA NormalAfter ==
  ASSUME NEW E, NEW n \in Nat, NEW i \in 1 .. n, NEW j \in 2 .. i, NEW norm,
         NEW l \in Lists(E, n), NEW u \in E, NEW v \in E,
         \A x \in E : norm[x] \in E /\ norm[norm[x]] = norm[x],
         j # i => Normal(l, norm, i),
         i >= 3 => Normal(l, norm, i - 1)
  PROVE  Normal([l EXCEPT ![j] = norm[u], ![j - 1] = norm[v]], norm, i)
<1> DEFINE r == [l EXCEPT ![j] = norm[u], ![j - 1] = norm[v]]
<1>1. j \in 1 .. n /\ j - 1 \in 1 .. n /\ j # j - 1 /\ \A p \in 1 .. i : p \in 1 .. n
  OBVIOUS
<1>2. l \in [1 .. n -> E]
  BY DEF Lists
<1>3. r[j] = norm[u] /\ r[j - 1] = norm[v]
      /\ \A p \in 1 .. n : p # j /\ p # j - 1 => r[p] = l[p]
  BY <1>1, <1>2
<1> HIDE DEF r
<1>4. ASSUME NEW p \in 1 .. i PROVE norm[r[p]] = r[p]
  <2>1. CASE p = j \/ p = j - 1
    BY <2>1, <1>3
  <2>2. CASE p # j /\ p # j - 1
    <3>1. norm[l[p]] = l[p]
      <4>1. CASE j # i
        BY <4>1 DEF Normal
      <4>2. CASE j = i
        <5>1. i >= 3 /\ p \in 1 .. i - 1
          BY <4>2, <2>2
        <5> QED
          BY <5>1 DEF Normal
      <4> QED
        BY <4>1, <4>2
    <3> QED
      BY <3>1, <2>2, <1>1, <1>3
  <2> QED
    BY <2>1, <2>2
<1> QED
  BY <1>4 DEF Normal, r

LEMMA NormalLess ==
  ASSUME NEW l, NEW norm, NEW i \in Nat, Normal(l, norm, i)
  PROVE  Normal(l, norm, i - 1)
<1>1. \A p \in 1 .. i - 1 : p \in 1 .. i
  OBVIOUS
<1> QED
  BY <1>1 DEF Normal

LEMMA ShiftInserted ==
  ASSUME NEW E, NEW n \in Nat, NEW compare, NEW norm, NEW less,
         Decides(compare, norm, less, E), IsNorm(norm, less, E), IsSplit(less, E),
         NEW list \in Lists(E, n), NEW i \in 1 .. n, NEW k \in 1 .. i - 1,
         NEW acc \in States(E, n), NEW m,
         Inserted(acc, list, m, norm, Stable(Lesser(list, less), n), n, i, k - 1)
  PROVE  \E s : Inserted(Shift(acc, i - k + 1, compare), list, s, norm,
                         Stable(Lesser(list, less), n), n, i, k)
<1> DEFINE T == Stable(Lesser(list, less), n)
           j == i - k + 1
           l == acc.list
           x == l[j]
           y == l[j - 1]
           c == compare[x][y]
<1>1. /\ j \in 2 .. i /\ j \in 1 .. n /\ j - 1 \in 1 .. n /\ j - 1 \in 1 .. i /\ j # j - 1
      /\ i - (k - 1) = j /\ i - k = j - 1 /\ k >= 1 /\ (j # i => k - 1 >= 1)
  OBVIOUS
<1>2. l \in Lists(E, n) /\ acc.placed \in BOOLEAN
  BY DEF States
<1> HIDE DEF l
<1>3. x \in E /\ y \in E
  BY <1>1, <1>2 DEF Lists
<1>4. \A e \in E : norm[e] \in E /\ norm[norm[e]] = norm[e]
  BY DEF IsNorm
<1>5. c.a = norm[x] /\ c.b = norm[y] /\ (c.order < 0 <=> <<x, y>> \in less)
  BY <1>3 DEF Decides
<1>6. /\ Comes(l, list, m, norm, n)
      /\ acc.placed => k - 1 >= 1 /\ InOrder(m, n, i, T)
      /\ ~acc.placed => Inserting(m, n, i, j, T)
      /\ k - 1 >= 1 => Normal(l, norm, i)
      /\ i >= 3 => Normal(l, norm, i - 1)
  BY <1>1 DEF Inserted, l
<1>7. Shift(acc, j, compare) =
        IF acc.placed THEN acc
        ELSE IF c.order < 0
        THEN [list |-> [l EXCEPT ![j] = c.b, ![j - 1] = c.a], placed |-> FALSE]
        ELSE [list |-> [l EXCEPT ![j] = c.a, ![j - 1] = c.b], placed |-> TRUE]
  BY DEF Shift, l
<1>8. CASE acc.placed
  <2>1. Normal(l, norm, i) /\ InOrder(m, n, i, T)
    BY <1>6, <1>8
  <2>2. Inserted(acc, list, m, norm, T, n, i, k)
    BY <2>1, <1>1, <1>6, <1>8 DEF Inserted, l
  <2>3. Shift(acc, j, compare) = acc
    BY <1>7, <1>8
  <2> HIDE DEF T, j
  <2>4. \E s : Inserted(Shift(acc, j, compare), list, s, norm, T, n, i, k)
    BY <2>2, <2>3
  <2> QED
    BY <2>4 DEF T, j
<1>9. CASE ~acc.placed
  <2>1. Inserting(m, n, i, j, T)
    BY <1>6, <1>9
  <2>2. Within(m, n, i) /\ m[j] = i
    BY <2>1 DEF Inserting
  <2>3. m[j - 1] \in 1 .. n /\ m[j - 1] < i
    <3>1. m[j - 1] \in 1 .. i
      BY <2>2, <1>1 DEF Within
    <3>2. m[j - 1] # m[j]
      BY <2>2, <1>1 DEF Within, Permutes
    <3> QED
      BY <3>1, <3>2, <2>2
  <2>4. <<i, m[j - 1]>> \in Lesser(list, less) <=> <<x, y>> \in less
    <3>1. norm[x] = norm[list[m[j]]] /\ norm[y] = norm[list[m[j - 1]]]
      BY <1>1, <1>6 DEF Comes
    <3>2. list[i] \in E /\ list[m[j - 1]] \in E
      BY <2>3 DEF Lists
    <3>3. <<x, y>> \in less <=> <<list[i], list[m[j - 1]]>> \in less
      BY <3>1, <3>2, <2>2, <1>3 DEF IsNorm
    <3> QED
      BY <3>3, <2>3, LesserIs
  <2> HIDE DEF x, y
  <2>5. Normal([l EXCEPT ![j] = c.b, ![j - 1] = c.a], norm, i)
        /\ Normal([l EXCEPT ![j] = c.a, ![j - 1] = c.b], norm, i)
    <3>1. j # i => Normal(l, norm, i)
      BY <1>1, <1>6
    <3>2. i >= 3 => Normal(l, norm, i - 1)
      BY <1>6
    <3> HIDE DEF j, c
    <3>3. /\ Normal([l EXCEPT ![j] = norm[y], ![j - 1] = norm[x]], norm, i)
          /\ Normal([l EXCEPT ![j] = norm[x], ![j - 1] = norm[y]], norm, i)
      BY <3>1, <3>2, <1>1, <1>2, <1>3, <1>4, NormalAfter
    <3> QED
      BY <3>3, <1>5
  <2>6. CASE c.order < 0
    <3> DEFINE s == Swapped(m, j)
               r == [l EXCEPT ![j] = c.b, ![j - 1] = c.a]
    <3>1. Inserting(s, n, i, j - 1, T)
      <4>1. <<i, m[j - 1]>> \in T
        <5> DEFINE p == m[j - 1]
        <5>1. p \in 1 .. n /\ <<i, p>> \in Lesser(list, less)
          BY <2>3, <2>4, <2>6, <1>5
        <5> HIDE DEF p
        <5>2. <<i, p>> \in T
          BY <5>1, StableIs
        <5> QED
          BY <5>2 DEF p
      <4> HIDE DEF T, j
      <4> QED
        BY <4>1, <2>1, <1>1, SwapInserting
    <3>2. Comes(r, list, s, norm, n)
      <4>1. Comes([l EXCEPT ![j] = norm[l[j - 1]], ![j - 1] = norm[l[j]]], list, s, norm, n)
        <5> HIDE DEF j
        <5> QED
          BY <1>1, <1>2, <1>4, <1>6, <2>2, ComesSwapped
      <4> QED
        BY <4>1, <1>5 DEF x, y
    <3>3. Shift(acc, j, compare) = [list |-> r, placed |-> FALSE]
      BY <1>7, <1>9, <2>6
    <3>4. Normal(r, norm, i)
      BY <2>5
    <3> HIDE DEF r, s, T, j, c
    <3>5. Normal(r, norm, i - 1)
      BY <3>4, NormalLess
    <3>6. Inserted(Shift(acc, j, compare), list, s, norm, T, n, i, k)
      BY <3>1, <3>2, <3>3, <3>4, <3>5, <1>1 DEF Inserted
    <3> QED
      BY <3>6 DEF T, j
  <2>7. CASE ~ (c.order < 0)
    <3> DEFINE r == [l EXCEPT ![j] = c.a, ![j - 1] = c.b]
    <3>1. InOrder(m, n, i, T)
      <4>1. <<m[j - 1], i>> \in T
        <5> DEFINE p == m[j - 1]
        <5>1. p \in 1 .. n /\ p < i /\ <<i, p>> \notin Lesser(list, less)
          BY <2>3, <2>4, <2>7, <1>5
        <5> HIDE DEF p
        <5>2. <<p, i>> \in T
          BY <5>1, StableIs
        <5> QED
          BY <5>2 DEF p
      <4>2. Ordering(T, n)
        BY SplitPlaces, StableOrdering
      <4> HIDE DEF T, j
      <4> QED
        BY <4>1, <4>2, <2>1, <1>1, StopInserting
    <3>2. Comes(r, list, m, norm, n)
      <4>1. Comes([l EXCEPT ![j] = norm[l[j]], ![j - 1] = norm[l[j - 1]]], list, m, norm, n)
        <5> HIDE DEF j
        <5> QED
          BY <1>1, <1>2, <1>4, <1>6, ComesCompared
      <4> QED
        BY <4>1, <1>5 DEF x, y
    <3>3. Shift(acc, j, compare) = [list |-> r, placed |-> TRUE]
      BY <1>7, <1>9, <2>7
    <3>4. Normal(r, norm, i)
      BY <2>5
    <3> HIDE DEF r, T, j, c
    <3>5. Normal(r, norm, i - 1)
      BY <3>4, NormalLess
    <3>6. Inserted(Shift(acc, j, compare), list, m, norm, T, n, i, k)
      BY <3>1, <3>2, <3>3, <3>4, <3>5, <1>1 DEF Inserted
    <3> QED
      BY <3>6 DEF T, j
  <2> QED
    BY <2>6, <2>7
<1> QED
  BY <1>2, <1>8, <1>9
-----------------------------------------------------------------------------
(* A list of which the first i elements are in order. *)
Arranged(l, list, m, norm, T, n, i) ==
  /\ Comes(l, list, m, norm, n)
  /\ InOrder(m, n, i, T)
  /\ i >= 2 => Normal(l, norm, i)

LEMMA InsertArranged ==
  ASSUME NEW E, NEW n \in Nat, NEW compare, NEW norm, NEW less,
         Decides(compare, norm, less, E), IsNorm(norm, less, E), IsSplit(less, E),
         NEW list \in Lists(E, n), NEW i \in 1 .. n, NEW l \in Lists(E, n), NEW m,
         Arranged(l, list, m, norm, Stable(Lesser(list, less), n), n, i - 1)
  PROVE  \E s : Arranged(Insert(l, i, compare), list, s, norm,
                         Stable(Lesser(list, less), n), n, i)
<1> DEFINE T == Stable(Lesser(list, less), n)
           Ins(acc, k) == \E s : Inserted(acc, list, s, norm, T, n, i, k)
<1>1. PICK f : Shifts(f, l, i, compare, States(E, n)) /\ Insert(l, i, compare) = f[i - 1].list
  BY InsertSteps DEF Decides
<1>2. /\ f \in [0 .. i - 1 -> States(E, n)]
      /\ f[0] = [list |-> l, placed |-> FALSE]
      /\ \A k \in 1 .. i - 1 : f[k] = Shift(f[k - 1], i - k + 1, compare)
  BY <1>1 DEF Shifts
<1>3. Ins(f[0], 0)
  <2>1. Comes(l, list, m, norm, n) /\ InOrder(m, n, i - 1, T)
        /\ (i - 1 >= 2 => Normal(l, norm, i - 1))
    BY DEF Arranged
  <2> HIDE DEF T
  <2>2. Inserting(m, n, i, i, T)
    BY <2>1, StartInserting
  <2>3. i - 0 = i /\ (i >= 3 => i - 1 >= 2) /\ ~ (0 >= 1)
    OBVIOUS
  <2>4. f[0].list = l /\ ~f[0].placed
    BY <1>2
  <2>5. Inserted(f[0], list, m, norm, T, n, i, 0)
    BY <2>1, <2>2, <2>3, <2>4 DEF Inserted
  <2> QED
    BY <2>5
<1> DEFINE K == {k \in 0 .. i - 1 : Ins(f[k], k)}
<1>4. 0 \in K
  BY <1>3
<1>5. ASSUME NEW k \in 1 .. i - 1, k - 1 \in K PROVE k \in K
  <2>1. PICK s : Inserted(f[k - 1], list, s, norm, T, n, i, k - 1)
    BY <1>5
  <2>2. k - 1 \in 0 .. i - 1 /\ k \in 0 .. i - 1
    OBVIOUS
  <2>3. f[k - 1] \in States(E, n)
    BY <2>2, <1>2
  <2>4. \E r : Inserted(Shift(f[k - 1], i - k + 1, compare), list, r, norm, T, n, i, k)
    BY <2>1, <2>3, ShiftInserted
  <2>5. f[k] = Shift(f[k - 1], i - k + 1, compare)
    BY <1>2
  <2> HIDE DEF T
  <2> QED
    BY <2>2, <2>4, <2>5
<1>6. i - 1 \in K
  <2>1. \A k \in 0 .. i - 1 : k \in K
    <3> HIDE DEF K
    <3>1. i - 1 \in Nat
      OBVIOUS
    <3> QED
      BY <1>4, <1>5, <3>1, Induct
  <2>2. i - 1 \in 0 .. i - 1
    OBVIOUS
  <2> QED
    BY <2>1, <2>2
<1> DEFINE acc == f[i - 1]
<1>7. PICK s : Inserted(acc, list, s, norm, T, n, i, i - 1)
  BY <1>6
<1>8. Comes(acc.list, list, s, norm, n) /\ (i >= 2 => Normal(acc.list, norm, i))
  <2>1. i >= 2 => i - 1 >= 1
    OBVIOUS
  <2> HIDE DEF acc, T
  <2> QED
    BY <1>7, <2>1 DEF Inserted
<1>9. InOrder(s, n, i, T)
  <2>1. CASE acc.placed
    BY <2>1, <1>7 DEF Inserted
  <2>2. CASE ~acc.placed
    <3>1. i - (i - 1) = 1 /\ 1 \in 1 .. i /\ ~ (1 > 1)
      OBVIOUS
    <3>2. Inserting(s, n, i, 1, T)
      <4> HIDE DEF T, acc
      <4> QED
        BY <2>2, <1>7, <3>1 DEF Inserted
    <3>3. Ordering(T, n)
      BY SplitPlaces, StableOrdering
    <3> HIDE DEF T
    <3> QED
      BY <3>1, <3>2, <3>3, StopInserting
  <2> QED
    BY <2>1, <2>2
<1>10. Arranged(acc.list, list, s, norm, T, n, i)
  BY <1>8, <1>9 DEF Arranged
<1> QED
  BY <1>1, <1>10

LEMMA SortArranged ==
  ASSUME NEW E, NEW compare, NEW norm, NEW less,
         Decides(compare, norm, less, E), IsNorm(norm, less, E), IsSplit(less, E),
         NEW list \in Seq(E)
  PROVE  \E m : Arranged(SortFunc(list, compare), list, m, norm,
                         Stable(Lesser(list, less), Len(list)), Len(list), Len(list))
<1> DEFINE n == Len(list)
           T == Stable(Lesser(list, less), n)
           Arr(l, i) == \E s : Arranged(l, list, s, norm, T, n, i)
<1>1. PICK f : Inserts(f, list, n, compare, Lists(E, n)) /\ SortFunc(list, compare) = f[n]
  BY SortSteps DEF Decides
<1>2. n \in Nat /\ list \in Lists(E, n)
  BY DEF Lists
<1> HIDE DEF n
<1>3. /\ f \in [0 .. n -> Lists(E, n)] /\ f[0] = list
      /\ \A i \in 1 .. n : f[i] = Insert(f[i - 1], i, compare)
  BY <1>1 DEF Inserts
<1> DEFINE K == {i \in 0 .. n : Arr(f[i], i)}
<1>4. 0 \in K
  <2> DEFINE m == [p \in 1 .. n |-> p]
  <2>1. InOrder(m, n, 0, T)
    BY <1>2, IdentityInOrder
  <2>2. \A p \in 1 .. n : m[p] = p
    OBVIOUS
  <2> HIDE DEF m, T
  <2>3. Comes(list, list, m, norm, n)
    BY <2>2 DEF Comes
  <2>4. Arranged(list, list, m, norm, T, n, 0)
    <3>1. ~ (0 >= 2)
      OBVIOUS
    <3> QED
      BY <2>1, <2>3, <3>1 DEF Arranged
  <2>5. 0 \in 0 .. n
    BY <1>2
  <2> QED
    BY <2>4, <2>5, <1>3
<1>5. ASSUME NEW i \in 1 .. n, i - 1 \in K PROVE i \in K
  <2>1. PICK s : Arranged(f[i - 1], list, s, norm, T, n, i - 1)
    BY <1>5
  <2>2. i - 1 \in 0 .. n /\ i \in 0 .. n
    BY <1>2
  <2>3. f[i - 1] \in Lists(E, n)
    BY <2>2, <1>3
  <2>4. \E r : Arranged(Insert(f[i - 1], i, compare), list, r, norm, T, n, i)
    BY <2>1, <2>3, <1>2, InsertArranged
  <2>5. f[i] = Insert(f[i - 1], i, compare)
    BY <1>3
  <2> HIDE DEF T
  <2> QED
    BY <2>2, <2>4, <2>5
<1>6. n \in K
  <2>1. \A k \in 0 .. n : k \in K
    <3> HIDE DEF K
    <3> QED
      BY <1>2, <1>4, <1>5, Induct
  <2>2. n \in 0 .. n
    BY <1>2
  <2> QED
    BY <2>1, <2>2
<1>7. PICK m : Arranged(f[n], list, m, norm, T, n, n)
  BY <1>6
<1> QED
  BY <1>1, <1>7 DEF n

(* What the sort makes of a list of more than one element, or by a         *)
(* comparison that leaves its elements alone.                              *)
LEMMA Sorted ==
  ASSUME NEW E, NEW compare, NEW norm, NEW less,
         Decides(compare, norm, less, E), IsNorm(norm, less, E), IsSplit(less, E),
         NEW list \in Seq(E), Len(list) >= 2 \/ \A x \in E : norm[x] = x
  PROVE  \E m : /\ InOrder(m, Len(list), Len(list), Stable(Lesser(list, less), Len(list)))
                /\ \A k \in 1 .. Len(list) : SortFunc(list, compare)[k] = norm[list[m[k]]]
<1> DEFINE n == Len(list)
           T == Stable(Lesser(list, less), n)
           r == SortFunc(list, compare)
<1>1. PICK m : Arranged(r, list, m, norm, T, n, n)
  BY SortArranged
<1>2. r \in Seq(E) /\ Len(r) = n /\ n \in Nat
  BY SortType DEF Decides
<1>3. \A k \in 1 .. n : r[k] \in E
  BY <1>2
<1>4. Len(list) >= 2 => n >= 2
  OBVIOUS
<1> HIDE DEF r, T, n
<1>5. /\ \A p \in 1 .. n : norm[r[p]] = norm[list[m[p]]]
      /\ InOrder(m, n, n, T) /\ (n >= 2 => \A p \in 1 .. n : norm[r[p]] = r[p])
  BY <1>1 DEF Arranged, Comes, Normal
<1>6. \A k \in 1 .. n : norm[r[k]] = r[k]
  BY <1>3, <1>4, <1>5
<1>7. \A k \in 1 .. n : r[k] = norm[list[m[k]]]
  BY <1>5, <1>6
<1> QED
  BY <1>5, <1>7 DEF n, r, T
-----------------------------------------------------------------------------
(* Ranking.                                                                *)
UpToPlace(before, n, i) ==
  {j \in 1 .. n : <<j, i>> \in before \/ (j <= i /\ <<i, j>> \notin before)}

PlaceOf(before, n, r) ==
  CHOOSE i \in 1 .. n : Cardinality(UpToPlace(before, n, i)) = r

LEMMA RankedIs ==
  ASSUME NEW E, NEW n \in Nat, NEW list \in Lists(E, n), NEW before
  PROVE  Ranked(list, before) = [r \in 1 .. n |-> list[PlaceOf(before, n, r)]]
<1>1. DOMAIN list = 1 .. n
  BY DEF Lists
<1> QED
  BY <1>1 DEF Ranked, UpToPlace, PlaceOf

LEMMA RankOf ==
  ASSUME NEW n \in Nat, NEW before, IsSplit(before, 1 .. n),
         NEW m, InOrder(m, n, n, Stable(before, n)), NEW r \in 1 .. n
  PROVE  Cardinality(UpToPlace(before, n, m[r])) = r
<1>1. /\ m \in [1 .. n -> 1 .. n]
      /\ \A j, k \in 1 .. n : m[j] = m[k] => j = k
      /\ \A p \in 1 .. n : \E k \in 1 .. n : m[k] = p
      /\ \A p, q \in 1 .. n : p < q => <<m[p], m[q]>> \in Stable(before, n)
  BY DEF InOrder, Within, Permutes
<1>2. \A p, q \in 1 .. n : p < q =>
        <<m[p], m[q]>> \in before \/ (m[p] < m[q] /\ <<m[q], m[p]>> \notin before)
  <2>1. TAKE p, q \in 1 .. n
  <2>2. m[p] \in 1 .. n /\ m[q] \in 1 .. n
    BY <1>1
  <2>3. <<m[p], m[q]>> \in Stable(before, n)
           <=> <<m[p], m[q]>> \in before \/ (m[p] < m[q] /\ <<m[q], m[p]>> \notin before)
    BY <2>2, StableIs
  <2> QED
    BY <2>3, <1>1
<1>3. ASSUME NEW s \in 1 .. n PROVE m[s] \in UpToPlace(before, n, m[r]) <=> s <= r
  <2>1. m[s] \in 1 .. n /\ m[r] \in 1 .. n
    BY <1>1
  <2>2. m[s] \in UpToPlace(before, n, m[r]) <=>
          <<m[s], m[r]>> \in before \/ (m[s] <= m[r] /\ <<m[r], m[s]>> \notin before)
    BY <2>1 DEF UpToPlace
  <2>3. CASE s < r
    <3>1. <<m[s], m[r]>> \in before \/ (m[s] < m[r] /\ <<m[r], m[s]>> \notin before)
      BY <2>3, <1>2
    <3> QED
      BY <3>1, <2>1, <2>2, <2>3
  <2>4. CASE s = r
    <3>1. m[r] <= m[r]
      BY <2>1
    <3> QED
      BY <3>1, <2>2, <2>4
  <2>5. CASE r < s
    <3>1. <<m[r], m[s]>> \in before \/ (m[r] < m[s] /\ <<m[s], m[r]>> \notin before)
      BY <2>5, <1>2
    <3>2. <<m[r], m[s]>> \in before => <<m[s], m[r]>> \notin before
      BY <2>1 DEF IsSplit
    <3>3. m[s] \notin UpToPlace(before, n, m[r])
      BY <3>1, <3>2, <2>1, <2>2
    <3> QED
      BY <3>3, <2>5
  <2> QED
    BY <2>3, <2>4, <2>5
<1> DEFINE g == [s \in 1 .. r |-> m[s]]
           U == UpToPlace(before, n, m[r])
<1>4. \A s \in 1 .. r : s \in 1 .. n /\ s <= r
  OBVIOUS
<1>5. g \in Bijection(1 .. r, U)
  <2>1. \A s \in 1 .. r : g[s] \in U
    BY <1>3, <1>4
  <2>2. \A s, t \in 1 .. r : g[s] = g[t] => s = t
    BY <1>1, <1>4
  <2>3. \A u \in U : \E s \in 1 .. r : g[s] = u
    <3>1. TAKE u \in U
    <3>2. u \in 1 .. n
      BY DEF UpToPlace
    <3>3. PICK s \in 1 .. n : m[s] = u
      BY <3>2, <1>1
    <3>4. s <= r
      BY <3>3, <1>3
    <3>5. s \in 1 .. r
      BY <3>4
    <3> QED
      BY <3>3, <3>5
  <2> HIDE DEF U
  <2> QED
    BY <2>1, <2>2, <2>3 DEF Bijection, Injection, Surjection, IsInjective
<1>6. IsFiniteSet(1 .. r) /\ Cardinality(1 .. r) = r
  <2>1. 1 \in Int /\ r \in Int /\ ~ (1 > r) /\ r - 1 + 1 = r
    OBVIOUS
  <2> QED
    BY <2>1, FS_Interval
<1>7. ExistsBijection(1 .. r, U)
  BY <1>5 DEF ExistsBijection
<1> HIDE DEF U, g
<1>8. Cardinality(U) = r
  BY <1>6, <1>7, FS_Bijection
<1> QED
  BY <1>8 DEF U

LEMMA RankedInOrder ==
  ASSUME NEW E, NEW n \in Nat, NEW list \in Lists(E, n), NEW before, IsSplit(before, 1 .. n),
         NEW m, InOrder(m, n, n, Stable(before, n))
  PROVE  Ranked(list, before) = [r \in 1 .. n |-> list[m[r]]]
<1>1. /\ m \in [1 .. n -> 1 .. n]
      /\ \A p \in 1 .. n : \E k \in 1 .. n : m[k] = p
  BY DEF InOrder, Within, Permutes
<1>2. \A r \in 1 .. n : Cardinality(UpToPlace(before, n, m[r])) = r
  BY RankOf
<1>3. ASSUME NEW r \in 1 .. n PROVE PlaceOf(before, n, r) = m[r]
  <2> DEFINE c == PlaceOf(before, n, r)
  <2>1. \E i \in 1 .. n : Cardinality(UpToPlace(before, n, i)) = r
    BY <1>1, <1>2
  <2>2. c \in 1 .. n /\ Cardinality(UpToPlace(before, n, c)) = r
    BY <2>1 DEF PlaceOf
  <2> HIDE DEF c
  <2>3. PICK k \in 1 .. n : m[k] = c
    BY <2>2, <1>1
  <2>4. k = r
    BY <2>2, <2>3, <1>2
  <2> QED
    BY <2>3, <2>4 DEF c
<1>4. Ranked(list, before) = [r \in 1 .. n |-> list[PlaceOf(before, n, r)]]
  BY RankedIs
<1> QED
  BY <1>3, <1>4

LEMMA RankedSteady ==
  ASSUME NEW E, NEW n \in Nat, NEW list \in Lists(E, n), NEW before, IsSplit(before, 1 .. n),
         \A p, q \in 1 .. n : p < q => <<q, p>> \notin before
  PROVE  Ranked(list, before) = list
<1> DEFINE m == [p \in 1 .. n |-> p]
<1>1. \A p \in 1 .. n : m[p] = p
  OBVIOUS
<1>2. Within(m, n, 0)
  BY IdentityInOrder DEF InOrder
<1>3. list = [p \in 1 .. n |-> list[p]]
  BY DEF Lists
<1> HIDE DEF m
<1>4. Within(m, n, n)
  <2>1. \A p \in n + 1 .. n : FALSE
    OBVIOUS
  <2> QED
    BY <1>1, <1>2, <2>1 DEF Within
<1>5. \A p, q \in 1 .. n : p < q => <<m[p], m[q]>> \in Stable(before, n)
  <2>1. \A p, q \in 1 .. n : p < q => <<p, q>> \in Stable(before, n)
    BY StableIs
  <2> QED
    BY <1>1, <2>1
<1>6. InOrder(m, n, n, Stable(before, n))
  BY <1>4, <1>5 DEF InOrder
<1>7. Ranked(list, before) = [p \in 1 .. n |-> list[m[p]]]
  BY <1>6, RankedInOrder
<1> QED
  BY <1>1, <1>3, <1>7
-----------------------------------------------------------------------------
Normed(norm, list) == [k \in 1 .. Len(list) |-> norm[list[k]]]

LEMMA SortedRanked ==
  ASSUME NEW E, NEW compare, NEW norm, NEW less,
         Decides(compare, norm, less, E), IsNorm(norm, less, E), IsSplit(less, E),
         NEW list \in Seq(E), Len(list) >= 2 \/ \A x \in E : norm[x] = x
  PROVE  SortFunc(list, compare) = Ranked(Normed(norm, list), Lesser(list, less))
<1> DEFINE n == Len(list)
           r == SortFunc(list, compare)
           q == Normed(norm, list)
           before == Lesser(list, less)
<1>1. PICK m : /\ InOrder(m, n, n, Stable(before, n))
               /\ \A k \in 1 .. n : r[k] = norm[list[m[k]]]
  BY Sorted
<1>2. r \in Seq(E) /\ Len(r) = n /\ n \in Nat
  BY SortType DEF Decides
<1>3. list \in Lists(E, n) /\ \A k \in 1 .. n : list[k] \in E
  BY DEF Lists
<1>4. \A x \in E : norm[x] \in E
  BY DEF IsNorm
<1> HIDE DEF n
<1>5. q = [k \in 1 .. n |-> norm[list[k]]]
  BY DEF Normed, n
<1>6. q \in Lists(E, n)
  BY <1>3, <1>4, <1>5 DEF Lists
<1>7. IsSplit(before, 1 .. n)
  BY <1>2, <1>3, SplitPlaces
<1> HIDE DEF q, before
<1>8. Ranked(q, before) = [k \in 1 .. n |-> q[m[k]]]
  BY <1>1, <1>2, <1>6, <1>7, RankedInOrder
<1>9. \A k \in 1 .. n : m[k] \in 1 .. n
  BY <1>1 DEF InOrder, Within, Permutes
<1>10. \A k \in 1 .. n : r[k] = q[m[k]]
  BY <1>1, <1>5, <1>9
<1> HIDE DEF r
<1>11. r = [k \in 1 .. n |-> r[k]]
  BY <1>2
<1>12. [k \in 1 .. n |-> r[k]] = [k \in 1 .. n |-> q[m[k]]]
  BY <1>10
<1> QED
  BY <1>8, <1>11, <1>12 DEF r, q, before

(* A comparison that leaves elements alone. *)
Same(E) == [x \in E |-> x]

LEMMA SameIsNorm ==
  ASSUME NEW E, NEW less
  PROVE  IsNorm(Same(E), less, E) /\ \A x \in E : Same(E)[x] = x
<1>1. Same(E) \in [E -> E] /\ \A x \in E : Same(E)[x] = x
  BY DEF Same
<1> QED
  BY <1>1 DEF IsNorm

LEMMA SortedSame ==
  ASSUME NEW E, NEW compare, NEW less, Decides(compare, Same(E), less, E), IsSplit(less, E),
         NEW list \in Seq(E)
  PROVE  SortFunc(list, compare) = Ranked(list, Lesser(list, less))
<1>1. IsNorm(Same(E), less, E) /\ \A x \in E : Same(E)[x] = x
  BY SameIsNorm
<1>2. SortFunc(list, compare) = Ranked(Normed(Same(E), list), Lesser(list, less))
  BY <1>1, SortedRanked
<1>3. Normed(Same(E), list) = list
  <2>1. \A k \in 1 .. Len(list) : list[k] \in E
    OBVIOUS
  <2>2. \A k \in 1 .. Len(list) : Same(E)[list[k]] = list[k]
    BY <2>1, <1>1
  <2>3. list = [k \in 1 .. Len(list) |-> list[k]]
    OBVIOUS
  <2> QED
    BY <2>2, <2>3 DEF Normed
<1> QED
  BY <1>2, <1>3

(* A sorted list stays as it is. *)
LEMMA SortedTwice ==
  ASSUME NEW E, NEW compare, NEW less, Decides(compare, Same(E), less, E), IsSplit(less, E),
         NEW list \in Seq(E)
  PROVE  SortFunc(SortFunc(list, compare), compare) = SortFunc(list, compare)
<1> DEFINE n == Len(list)
           r == SortFunc(list, compare)
           before == Lesser(list, less)
<1>1. IsNorm(Same(E), less, E) /\ \A x \in E : Same(E)[x] = x
  BY SameIsNorm
<1>2. PICK m : /\ InOrder(m, n, n, Stable(before, n))
               /\ \A k \in 1 .. n : r[k] = Same(E)[list[m[k]]]
  BY <1>1, Sorted
<1>3. r \in Seq(E) /\ Len(r) = n /\ n \in Nat
  BY SortType DEF Decides
<1>4. list \in Lists(E, n) /\ \A k \in 1 .. n : list[k] \in E
  BY DEF Lists
<1>5. r \in Lists(E, n) /\ \A k \in 1 .. n : r[k] \in E
  BY <1>3 DEF Lists
<1> HIDE DEF n, r
<1>6. /\ \A k \in 1 .. n : m[k] \in 1 .. n
      /\ \A p, q \in 1 .. n : p < q => <<m[p], m[q]>> \in Stable(before, n)
  BY <1>2 DEF InOrder, Within, Permutes
<1>7. \A k \in 1 .. n : r[k] = list[m[k]]
  BY <1>1, <1>2, <1>4, <1>6
<1>8. ASSUME NEW p \in 1 .. n, NEW q \in 1 .. n, p < q
      PROVE  <<q, p>> \notin Lesser(r, less)
  <2>1. m[p] \in 1 .. n /\ m[q] \in 1 .. n /\ <<m[p], m[q]>> \in Stable(before, n)
    BY <1>6, <1>8
  <2>2. <<m[p], m[q]>> \in before \/ <<m[q], m[p]>> \notin before
    BY <2>1, <1>3, StableIs
  <2>3. /\ <<m[p], m[q]>> \in before <=> <<list[m[p]], list[m[q]]>> \in less
        /\ <<m[q], m[p]>> \in before <=> <<list[m[q]], list[m[p]]>> \in less
    BY <2>1, <1>3, <1>4, LesserIs
  <2>4. <<q, p>> \in Lesser(r, less) <=> <<r[q], r[p]>> \in less
    BY <1>3, <1>5, LesserIs
  <2>5. r[p] \in E /\ r[q] \in E /\ r[p] = list[m[p]] /\ r[q] = list[m[q]]
    BY <1>5, <1>7
  <2>6. <<r[p], r[q]>> \in less => <<r[q], r[p]>> \notin less
    BY <2>5 DEF IsSplit
  <2> HIDE DEF before
  <2> QED
    BY <2>2, <2>3, <2>4, <2>5, <2>6
<1>9. IsSplit(Lesser(r, less), 1 .. n)
  BY <1>3, <1>5, SplitPlaces
<1>10. Ranked(r, Lesser(r, less)) = r
  BY <1>3, <1>5, <1>8, <1>9, RankedSteady
<1>11. SortFunc(r, compare) = Ranked(r, Lesser(r, less))
  BY <1>3, SortedSame
<1> QED
  BY <1>10, <1>11 DEF r
-----------------------------------------------------------------------------
(* What the columns compare.                                               *)
Elem == [column : Columns, descending : BOOLEAN]

Item == [label : Nat, sample : Sample]

LessValue(a, b) == a # NaN /\ (b = NaN \/ a < b)

(* c is less than d in the column, whichever way it is sorted. *)
Under(elem, c, d) ==
  CASE elem.column = "label"     -> c.label < d.label
    [] elem.column = "timestamp" -> c.sample.time < d.sample.time
    [] OTHER -> LessValue(c.sample.value, d.sample.value)

LEMMA BeforeByIs ==
  ASSUME NEW elem, NEW a, NEW b
  PROVE  BeforeBy(elem, a, b) =
           IF elem.descending THEN Under(elem, b, a) ELSE Under(elem, a, b)
BY DEF BeforeBy, Under, LessValue

(* A relation over a set of items, as sets. *)
By(elem, D) == {p \in D \X D : BeforeBy(elem, p[1], p[2])}

BySome(by, C, D) == {p \in D \X D : BeforeInOrder(by, C, p[1], p[2])}

LEMMA ByIs ==
  ASSUME NEW elem, NEW D, NEW x \in D, NEW y \in D
  PROVE  <<x, y>> \in By(elem, D) <=> BeforeBy(elem, x, y)
BY DEF By

LEMMA BySomeIs ==
  ASSUME NEW by, NEW C, NEW D, NEW x \in D, NEW y \in D
  PROVE  <<x, y>> \in BySome(by, C, D) <=>
           \E i \in C : /\ <<x, y>> \in By(by[i], D)
                        /\ \A j \in C : j < i => <<y, x>> \notin By(by[j], D)
<1>1. <<x, y>> \in BySome(by, C, D) <=> BeforeInOrder(by, C, x, y)
  BY DEF BySome
<1> QED
  BY <1>1, ByIs DEF BeforeInOrder

LEMMA LessValueSplit ==
  ASSUME NEW a \in Values, NEW b \in Values, NEW c \in Values, LessValue(a, b)
  PROVE  ~LessValue(b, a) /\ (LessValue(a, c) \/ LessValue(c, b))
<1>1. NaN \notin Nat
  BY NativeAssumption
<1> QED
  BY <1>1 DEF LessValue, Values

(* Under, on a set of items. *)
UnderSplit(elem, D) ==
  \A x, y, z \in D : Under(elem, x, y) => ~Under(elem, y, x) /\ (Under(elem, x, z) \/ Under(elem, z, y))

LEMMA LabelUnder ==
  ASSUME NEW elem, elem.column = "label", NEW x, NEW y
  PROVE  Under(elem, x, y) <=> x.label < y.label
BY DEF Under

LEMMA TimeUnder ==
  ASSUME NEW elem, elem.column = "timestamp", NEW x, NEW y
  PROVE  Under(elem, x, y) <=> x.sample.time < y.sample.time
BY DEF Under

LEMMA ValueUnder ==
  ASSUME NEW elem, elem.column = "value", NEW x, NEW y
  PROVE  Under(elem, x, y) <=> LessValue(x.sample.value, y.sample.value)
BY DEF Under

LEMMA LabelSplit ==
  ASSUME NEW elem, elem.column = "label", NEW D, \A x \in D : x.label \in Nat
  PROVE  UnderSplit(elem, D)
<1>1. \A x, y : Under(elem, x, y) <=> x.label < y.label
  BY LabelUnder
<1>2. ASSUME NEW x \in D, NEW y \in D, NEW z \in D, x.label < y.label
      PROVE  ~ (y.label < x.label) /\ (x.label < z.label \/ z.label < y.label)
  <2>1. x.label \in Nat /\ y.label \in Nat /\ z.label \in Nat
    OBVIOUS
  <2> QED
    BY <2>1, <1>2
<1> QED
  BY <1>1, <1>2 DEF UnderSplit

LEMMA TimeSplit ==
  ASSUME NEW elem, elem.column = "timestamp"
  PROVE  UnderSplit(elem, Item)
<1>1. \A x, y : Under(elem, x, y) <=> x.sample.time < y.sample.time
  BY TimeUnder
<1>2. \A x \in Item : x.sample.time \in Nat
  BY DEF Item, Sample
<1>3. ASSUME NEW x \in Item, NEW y \in Item, NEW z \in Item, x.sample.time < y.sample.time
      PROVE  ~ (y.sample.time < x.sample.time)
             /\ (x.sample.time < z.sample.time \/ z.sample.time < y.sample.time)
  <2>1. x.sample.time \in Nat /\ y.sample.time \in Nat /\ z.sample.time \in Nat
    BY <1>2
  <2> QED
    BY <2>1, <1>3
<1> QED
  BY <1>1, <1>3 DEF UnderSplit

LEMMA ValueSplit ==
  ASSUME NEW elem, elem.column = "value"
  PROVE  UnderSplit(elem, Item)
<1>1. \A x, y : Under(elem, x, y) <=> LessValue(x.sample.value, y.sample.value)
  BY ValueUnder
<1>2. \A x \in Item : x.sample.value \in Values
  BY DEF Item, Sample
<1> QED
  BY <1>1, <1>2, LessValueSplit DEF UnderSplit

LEMMA ItemSplit == ASSUME NEW elem \in Elem PROVE UnderSplit(elem, Item)
<1>1. \A x \in Item : x.label \in Nat
  BY DEF Item
<1>2. elem.column \in Columns
  BY DEF Elem
<1>3. elem.column = "label" \/ elem.column = "timestamp" \/ elem.column = "value"
  BY <1>2 DEF Columns
<1> QED
  BY <1>1, <1>3, LabelSplit, TimeSplit, ValueSplit

LEMMA BySplit ==
  ASSUME NEW elem, NEW D, UnderSplit(elem, D)
  PROVE  IsSplit(By(elem, D), D)
<1>1. \A x, y \in D : <<x, y>> \in By(elem, D) <=>
                        IF elem.descending THEN Under(elem, y, x) ELSE Under(elem, x, y)
  BY ByIs, BeforeByIs
<1> QED
  BY <1>1 DEF UnderSplit, IsSplit

(* An order by several columns is as good as each of them. *)
LEMMA BySomeSplit ==
  ASSUME NEW by, NEW C \in SUBSET Nat, NEW D, \A i \in C : IsSplit(By(by[i], D), D)
  PROVE  IsSplit(BySome(by, C, D), D)
<1> DEFINE W(i) == By(by[i], D)
           L == BySome(by, C, D)
<1>1. \A x, y \in D : <<x, y>> \in L <=>
        \E i \in C : <<x, y>> \in W(i) /\ \A j \in C : j < i => <<y, x>> \notin W(j)
  BY BySomeIs
<1>2. \A i \in C : \A x, y \in D : <<x, y>> \in W(i) => <<y, x>> \notin W(i)
  BY DEF IsSplit
<1>3. \A i \in C : \A x, y, z \in D : <<x, y>> \in W(i) => <<x, z>> \in W(i) \/ <<z, y>> \in W(i)
  BY DEF IsSplit
<1> HIDE DEF W, L
<1>4. ASSUME NEW x \in D, NEW y \in D, <<x, y>> \in L PROVE <<y, x>> \notin L
  <2>1. SUFFICES ASSUME <<y, x>> \in L PROVE FALSE
    OBVIOUS
  <2>2. PICK i \in C : <<x, y>> \in W(i) /\ \A j \in C : j < i => <<y, x>> \notin W(j)
    BY <1>1, <1>4
  <2>3. PICK k \in C : <<y, x>> \in W(k) /\ \A j \in C : j < k => <<x, y>> \notin W(j)
    BY <1>1, <2>1
  <2>4. i < k \/ k < i \/ i = k
    OBVIOUS
  <2> QED
    BY <2>2, <2>3, <2>4, <1>2
<1>5. ASSUME NEW x \in D, NEW y \in D, NEW z \in D, <<x, y>> \in L
      PROVE  <<x, z>> \in L \/ <<z, y>> \in L
  <2>1. PICK i \in C : <<x, y>> \in W(i) /\ \A j \in C : j < i => <<y, x>> \notin W(j)
    BY <1>1, <1>5
  <2> DEFINE Differ(k) == \/ <<x, z>> \in W(k) \/ <<z, x>> \in W(k)
                          \/ <<y, z>> \in W(k) \/ <<z, y>> \in W(k)
             K == {k \in C : Differ(k)}
  <2>2. i \in K
    BY <2>1, <1>3
  <2>3. PICK k \in K : \A j \in K : k <= j
    <3>1. K \in SUBSET Nat /\ K # {}
      BY <2>2
    <3> HIDE DEF K
    <3> QED
      BY <3>1, Least
  <2>4. k \in C /\ k <= i /\ Differ(k)
    BY <2>2, <2>3
  <2>5. \A j \in C : j < k => ~Differ(j)
    <3>1. \A j \in K : ~ (j < k)
      BY <2>3
    <3> QED
      BY <3>1
  <2>6. <<x, z>> \in W(k) => <<x, z>> \in L
    BY <1>1, <2>4, <2>5
  <2>7. <<z, y>> \in W(k) => <<z, y>> \in L
    BY <1>1, <2>4, <2>5
  <2>8. <<x, z>> \in W(k) \/ <<z, y>> \in W(k)
    <3>1. CASE k = i
      BY <3>1, <2>1, <1>3
    <3>2. CASE k < i
      <4>1. <<y, x>> \notin W(k)
        BY <3>2, <2>1, <2>4
      <4>2. <<z, x>> \in W(k) => <<z, y>> \in W(k) \/ <<y, x>> \in W(k)
        BY <1>3, <2>4
      <4>3. <<y, z>> \in W(k) => <<y, x>> \in W(k) \/ <<x, z>> \in W(k)
        BY <1>3, <2>4
      <4> QED
        BY <4>1, <4>2, <4>3, <2>4
    <3>3. k = i \/ k < i
      BY <2>4
    <3> QED
      BY <3>1, <3>2, <3>3
  <2> QED
    BY <2>6, <2>7, <2>8
<1> QED
  BY <1>4, <1>5 DEF IsSplit, L
-----------------------------------------------------------------------------
(* A comparison's result, of c and d by a relation. *)
Agrees(order, less, more) ==
  order \in {-1, 0, 1} /\ (order < 0 <=> less) /\ (order > 0 <=> more)

LEMMA SignTimes ==
  ASSUME NEW elem, elem.descending \in BOOLEAN, NEW x \in {-1, 0, 1}
  PROVE  /\ Sign(elem) * x \in {-1, 0, 1}
         /\ elem.descending => (Sign(elem) * x < 0 <=> x > 0) /\ (Sign(elem) * x > 0 <=> x < 0)
         /\ ~elem.descending => (Sign(elem) * x < 0 <=> x < 0) /\ (Sign(elem) * x > 0 <=> x > 0)
<1>1. CASE elem.descending
  BY <1>1 DEF Sign
<1>2. CASE ~elem.descending
  BY <1>2 DEF Sign
<1> QED
  BY <1>1, <1>2

LEMMA NumbersAgree ==
  ASSUME NEW a \in Int, NEW b \in Int
  PROVE  Agrees(CompareNumbers(a, b), a < b, b < a)
BY DEF Agrees, CompareNumbers

LEMMA ValuesAgree ==
  ASSUME NEW a \in Values, NEW b \in Values
  PROVE  Agrees(CompareValues(a, b), LessValue(a, b), LessValue(b, a))
<1>1. NaN \notin Nat
  BY NativeAssumption
<1>2. CASE a = b
  <2>1. CompareValues(a, b) = 0
    BY <1>2 DEF CompareValues
  <2>2. ~LessValue(a, b) /\ ~LessValue(b, a)
    BY <1>1, <1>2 DEF LessValue, Values
  <2> QED
    BY <2>1, <2>2 DEF Agrees
<1>3. CASE a # b /\ a = NaN
  <2>1. CompareValues(a, b) = 1
    BY <1>3 DEF CompareValues
  <2>2. ~LessValue(a, b) /\ LessValue(b, a)
    BY <1>3 DEF LessValue
  <2> QED
    BY <2>1, <2>2 DEF Agrees
<1>4. CASE a # b /\ a # NaN /\ b = NaN
  <2>1. CompareValues(a, b) = -1
    BY <1>4 DEF CompareValues
  <2>2. LessValue(a, b) /\ ~LessValue(b, a)
    BY <1>4 DEF LessValue
  <2> QED
    BY <2>1, <2>2 DEF Agrees
<1>5. CASE a # b /\ a # NaN /\ b # NaN
  <2>1. CompareValues(a, b) = CompareNumbers(a, b)
    BY <1>5 DEF CompareValues
  <2>2. a \in Int /\ b \in Int
    BY <1>5 DEF Values
  <2>3. (LessValue(a, b) <=> a < b) /\ (LessValue(b, a) <=> b < a)
    BY <1>5 DEF LessValue
  <2>4. Agrees(CompareNumbers(a, b), a < b, b < a)
    BY <2>2, NumbersAgree
  <2>5. Agrees(CompareNumbers(a, b), LessValue(a, b), LessValue(b, a))
    BY <2>3, <2>4 DEF Agrees
  <2> QED
    BY <2>1, <2>5
<1> QED
  BY <1>2, <1>3, <1>4, <1>5

(* Two items compared by a column. *)
Compared(elem, order, c, d) ==
  Agrees(order, BeforeBy(elem, c, d), BeforeBy(elem, d, c))

LEMMA UnderCompared ==
  ASSUME NEW elem, elem.descending \in BOOLEAN, NEW x, NEW c, NEW d,
         Agrees(x, Under(elem, c, d), Under(elem, d, c))
  PROVE  Compared(elem, Sign(elem) * x, c, d)
<1> DEFINE y == Sign(elem) * x
<1>1. x \in {-1, 0, 1} /\ (x < 0 <=> Under(elem, c, d)) /\ (x > 0 <=> Under(elem, d, c))
  BY DEF Agrees
<1>2. /\ y \in {-1, 0, 1}
      /\ elem.descending => (y < 0 <=> x > 0) /\ (y > 0 <=> x < 0)
      /\ ~elem.descending => (y < 0 <=> x < 0) /\ (y > 0 <=> x > 0)
  BY <1>1, SignTimes
<1> HIDE DEF y
<1>3. /\ BeforeBy(elem, c, d) <=> IF elem.descending THEN Under(elem, d, c) ELSE Under(elem, c, d)
      /\ BeforeBy(elem, d, c) <=> IF elem.descending THEN Under(elem, c, d) ELSE Under(elem, d, c)
  BY BeforeByIs
<1>4. (y < 0 <=> BeforeBy(elem, c, d)) /\ (y > 0 <=> BeforeBy(elem, d, c))
  BY <1>1, <1>2, <1>3
<1> QED
  BY <1>2, <1>4 DEF Compared, Agrees, y

LEMMA LabelCompared ==
  ASSUME NEW elem, elem.column = "label", elem.descending \in BOOLEAN,
         NEW a, NEW b, NEW c, NEW d, ~a.bare, a.label \in Nat, b.label \in Nat,
         c.label = a.label, d.label = b.label
  PROVE  Compared(elem, CompareLabels(a, b, elem), c, d)
<1>1. CompareLabels(a, b, elem) = Sign(elem) * CompareNumbers(a.label, b.label)
  BY DEF CompareLabels
<1>2. (Under(elem, c, d) <=> a.label < b.label) /\ (Under(elem, d, c) <=> b.label < a.label)
  BY LabelUnder
<1>3. Agrees(CompareNumbers(a.label, b.label), a.label < b.label, b.label < a.label)
  <2>1. \A x, y \in Int : Agrees(CompareNumbers(x, y), x < y, y < x)
    BY NumbersAgree
  <2>2. a.label \in Int /\ b.label \in Int
    OBVIOUS
  <2> QED
    BY <2>1, <2>2
<1>4. Agrees(CompareNumbers(a.label, b.label), Under(elem, c, d), Under(elem, d, c))
  BY <1>2, <1>3 DEF Agrees
<1> QED
  BY <1>1, <1>4, UnderCompared

LEMMA SampleCompared ==
  ASSUME NEW elem \in Elem, elem.column # "label", NEW c \in Item, NEW d \in Item
  PROVE  Compared(elem, CompareSamples(c.sample, d.sample, elem), c, d)
<1>1. elem.column \in Columns /\ elem.descending \in BOOLEAN
  BY DEF Elem
<1>2. /\ c.sample.time \in Nat /\ d.sample.time \in Nat
      /\ c.sample.value \in Values /\ d.sample.value \in Values
  BY DEF Item, Sample
<1>3. CASE elem.column = "value"
  <2> DEFINE x == CompareValues(c.sample.value, d.sample.value)
  <2>1. CompareSamples(c.sample, d.sample, elem) = Sign(elem) * x
    BY <1>3 DEF CompareSamples
  <2>2. Agrees(x, LessValue(c.sample.value, d.sample.value),
               LessValue(d.sample.value, c.sample.value))
    BY <1>2, ValuesAgree
  <2>3. Agrees(x, Under(elem, c, d), Under(elem, d, c))
    BY <2>2, <1>3, ValueUnder DEF Agrees
  <2> HIDE DEF x
  <2> QED
    BY <2>1, <2>3, <1>1, UnderCompared
<1>4. CASE elem.column = "timestamp"
  <2> DEFINE x == CompareNumbers(c.sample.time, d.sample.time)
  <2>0. elem.column # "value"
    BY <1>4
  <2>1. CompareSamples(c.sample, d.sample, elem) = Sign(elem) * x
    BY <2>0 DEF CompareSamples
  <2>2. Agrees(x, c.sample.time < d.sample.time, d.sample.time < c.sample.time)
    <3>1. \A m, n \in Int : Agrees(CompareNumbers(m, n), m < n, n < m)
      BY NumbersAgree
    <3>2. c.sample.time \in Int /\ d.sample.time \in Int
      BY <1>2
    <3> QED
      BY <3>1, <3>2
  <2>3. Agrees(x, Under(elem, c, d), Under(elem, d, c))
    BY <2>2, <1>4, TimeUnder DEF Agrees
  <2> HIDE DEF x
  <2> QED
    BY <2>1, <2>3, <1>1, UnderCompared
<1> QED
  BY <1>1, <1>3, <1>4 DEF Columns
-----------------------------------------------------------------------------
(* The series of a vector. *)
Sortable(by) == {s \in Series : s.bare => SampleColumns(by) = DOMAIN by}

LEMMA SeriesType ==
  ASSUME NEW s \in Series
  PROVE  /\ s.label \in Labels \cup {0} /\ s.label \in Nat /\ s.bare \in BOOLEAN
         /\ s.samples \in Seq(Sample) /\ s.samples # << >> /\ s.samples[1] \in Sample
<1>1. s.label \in Labels \cup {0} /\ s.bare \in BOOLEAN /\ s.samples \in Samples \ {<< >>}
  BY DEF Series
<1>2. Labels \subseteq Nat
  BY NativeAssumption
<1>3. s.label \in Nat
  BY <1>1, <1>2
<1>4. s.samples \in Seq(Sample) /\ s.samples # << >>
  BY <1>1 DEF Samples
<1>5. \A q \in Seq(Sample) : q # << >> => q[1] \in Sample
  OBVIOUS
<1> QED
  BY <1>1, <1>3, <1>4, <1>5

LEMMA ItemType ==
  ASSUME NEW s \in Series
  PROVE  /\ OfSample(s, 1) \in Item /\ OfSample(s, 1).label = s.label
         /\ OfSample(s, 1).sample = s.samples[1]
<1>1. OfSample(s, 1) = [label |-> s.label, sample |-> s.samples[1]]
  BY DEF OfSample
<1>2. s.label \in Nat /\ s.samples[1] \in Sample
  BY SeriesType
<1> QED
  BY <1>1, <1>2 DEF Item

LEMMA OrderType ==
  ASSUME NEW by \in Orders
  PROVE  /\ \A i \in DOMAIN by : by[i] \in Elem
         /\ DOMAIN by \in SUBSET Nat /\ Len(by) \in Nat /\ DOMAIN by = 1 .. Len(by)
         /\ SampleColumns(by) \in SUBSET DOMAIN by
<1>1. by \in Seq(Elem)
  BY DEF Orders, Elem
<1>2. DOMAIN by = 1 .. Len(by) /\ Len(by) \in Nat
  BY <1>1, SeqDomain
<1>3. \A i \in DOMAIN by : by[i] \in Elem
  BY <1>1, ElementType
<1>4. DOMAIN by \in SUBSET Nat
  BY <1>2
<1> QED
  BY <1>2, <1>3, <1>4 DEF SampleColumns

LEMMA ColumnCompared ==
  ASSUME NEW by \in Orders, NEW a \in Sortable(by), NEW b \in Sortable(by), NEW i \in DOMAIN by
  PROVE  Compared(by[i], CompareBy(a, b, by[i]), OfSample(a, 1), OfSample(b, 1))
<1>1. a \in Series /\ b \in Series /\ (a.bare => SampleColumns(by) = DOMAIN by)
  BY DEF Sortable
<1>2. by[i] \in Elem /\ by[i].descending \in BOOLEAN
  BY OrderType DEF Elem
<1>3. /\ OfSample(a, 1) \in Item /\ OfSample(a, 1).label = a.label
      /\ OfSample(a, 1).sample = a.samples[1]
      /\ OfSample(b, 1) \in Item /\ OfSample(b, 1).label = b.label
      /\ OfSample(b, 1).sample = b.samples[1]
  BY <1>1, ItemType
<1>4. a.label \in Nat /\ b.label \in Nat
  BY <1>1, SeriesType
<1>5. CASE by[i].column = "label"
  <2>1. i \notin SampleColumns(by)
    BY <1>5 DEF SampleColumns
  <2>2. ~a.bare
    BY <2>1, <1>1
  <2>3. CompareBy(a, b, by[i]) = CompareLabels(a, b, by[i])
    BY <1>5 DEF CompareBy
  <2>4. Compared(by[i], CompareLabels(a, b, by[i]), OfSample(a, 1), OfSample(b, 1))
    BY <2>2, <1>2, <1>3, <1>4, <1>5, LabelCompared
  <2> QED
    BY <2>3, <2>4
<1>6. CASE by[i].column # "label"
  <2>1. CompareBy(a, b, by[i]) = CompareSamples(OfSample(a, 1).sample, OfSample(b, 1).sample, by[i])
    BY <1>3, <1>6 DEF CompareBy
  <2> QED
    BY <2>1, <1>2, <1>3, <1>6, SampleCompared
<1> QED
  BY <1>5, <1>6

(* A result by the first of some columns that decides. *)
LEMMA FirstDecides ==
  ASSUME NEW by, NEW C \in SUBSET Nat, NEW order, NEW c, NEW d,
         \A i \in C : Compared(by[i], order[i], c, d),
         NEW n \in C, order[n] # 0, \A j \in C : order[j] # 0 => n <= j
  PROVE  order[n] \in Int /\ (order[n] < 0 <=> BeforeInOrder(by, C, c, d))
<1>1. \A i \in C : /\ order[i] \in {-1, 0, 1}
                   /\ order[i] < 0 <=> BeforeBy(by[i], c, d)
                   /\ order[i] > 0 <=> BeforeBy(by[i], d, c)
  BY DEF Compared, Agrees
<1>2. ASSUME order[n] < 0 PROVE BeforeInOrder(by, C, c, d)
  <2>1. \A j \in C : j < n => order[j] = 0
    <3>1. TAKE j \in C
    <3>2. j \in Nat /\ n \in Nat
      OBVIOUS
    <3> QED
      BY <3>2
  <2>2. \A j \in C : j < n => ~ (order[j] > 0)
    BY <2>1
  <2> QED
    BY <2>2, <1>1, <1>2 DEF BeforeInOrder
<1>3. ASSUME BeforeInOrder(by, C, c, d) PROVE order[n] < 0
  <2>1. PICK i \in C : BeforeBy(by[i], c, d) /\ \A j \in C : j < i => ~BeforeBy(by[j], d, c)
    BY <1>3 DEF BeforeInOrder
  <2>2. order[i] < 0
    BY <2>1, <1>1
  <2>3. i \in Nat /\ n \in Nat /\ order[i] # 0
    BY <2>2
  <2>4. n = i \/ n < i
    BY <2>3
  <2>5. CASE n < i
    <3>1. ~ (order[n] > 0)
      BY <2>1, <2>5, <1>1
    <3>2. order[n] \in {-1, 0, 1}
      BY <1>1
    <3> QED
      BY <3>1, <3>2
  <2> QED
    BY <2>2, <2>4, <2>5
<1> QED
  BY <1>1, <1>2, <1>3

LEMMA NoneDecides ==
  ASSUME NEW by, NEW C, NEW order, NEW c, NEW d,
         \A i \in C : Compared(by[i], order[i], c, d),
         \A i \in C : order[i] = 0
  PROVE  ~BeforeInOrder(by, C, c, d)
<1>1. \A i \in C : order[i] < 0 <=> BeforeBy(by[i], c, d)
  BY DEF Compared, Agrees
<1>2. \A i \in C : ~BeforeBy(by[i], c, d)
  BY <1>1
<1> QED
  BY <1>2 DEF BeforeInOrder

LEMMA MinIs ==
  ASSUME NEW S \in SUBSET Nat, S # {}
  PROVE  Min(S) \in S /\ \A j \in S : Min(S) <= j
<1>1. \E x \in S : \A y \in S : x <= y
  BY Least
<1> QED
  BY <1>1 DEF Min

LEMMA CompareSeriesIs ==
  ASSUME NEW by \in Orders, NEW a \in Sortable(by), NEW b \in Sortable(by)
  PROVE  /\ CompareSeries(a, b, by) \in Int
         /\ CompareSeries(a, b, by) < 0
              <=> BeforeInOrder(by, DOMAIN by, OfSample(a, 1), OfSample(b, 1))
<1> DEFINE C == DOMAIN by
           order == [i \in C |-> CompareBy(a, b, by[i])]
           decisive == {i \in C : CompareBy(a, b, by[i]) # 0}
           c == OfSample(a, 1)
           d == OfSample(b, 1)
<1>1. CompareSeries(a, b, by) =
        IF decisive = {} THEN 0 ELSE CompareBy(a, b, by[Min(decisive)])
  BY DEF CompareSeries
<1>2. \A i \in C : order[i] = CompareBy(a, b, by[i])
  OBVIOUS
<1>3. \A i \in C : Compared(by[i], order[i], c, d)
  BY ColumnCompared
<1>4. C \in SUBSET Nat
  BY OrderType
<1>5. decisive \in SUBSET Nat /\ \A i \in C : i \in decisive <=> order[i] # 0
  BY <1>2, <1>4
<1>6. decisive \in SUBSET C
  OBVIOUS
<1> HIDE DEF order, C, decisive, c, d
<1>7. CASE decisive = {}
  <2>1. \A i \in C : order[i] = 0
    BY <1>5, <1>7
  <2>2. ~BeforeInOrder(by, C, c, d)
    BY <2>1, <1>3, NoneDecides
  <2>3. CompareSeries(a, b, by) = 0
    BY <1>1, <1>7
  <2> QED
    BY <2>2, <2>3 DEF C, c, d
<1>8. CASE decisive # {}
  <2> DEFINE n == Min(decisive)
  <2>1. n \in decisive /\ \A j \in decisive : n <= j
    BY <1>5, <1>8, MinIs
  <2> HIDE DEF n
  <2>2. n \in C /\ order[n] # 0 /\ \A j \in C : order[j] # 0 => n <= j
    BY <2>1, <1>5, <1>6
  <2>3. order[n] \in Int /\ (order[n] < 0 <=> BeforeInOrder(by, C, c, d))
    BY <2>2, <1>3, <1>4, FirstDecides
  <2>4. CompareSeries(a, b, by) = order[n]
    BY <2>2, <1>1, <1>2, <1>8 DEF n
  <2> QED
    BY <2>3, <2>4 DEF C, c, d
<1> QED
  BY <1>7, <1>8
-----------------------------------------------------------------------------
LEMMA DecidesAs ==
  ASSUME NEW E, NEW compare, NEW norm \in [E -> E], NEW less, NEW orders,
         \A x, y \in E : compare[x][y] = [a |-> norm[x], b |-> norm[y], order |-> orders[<<x, y>>]],
         \A x, y \in E : orders[<<x, y>>] \in Int /\ (orders[<<x, y>>] < 0 <=> <<x, y>> \in less)
  PROVE  Decides(compare, norm, less, E)
<1>1. ASSUME NEW x \in E, NEW y \in E
      PROVE  /\ compare[x][y] \in [a : E, b : E, order : Int]
             /\ compare[x][y].a = norm[x] /\ compare[x][y].b = norm[y]
             /\ compare[x][y].order < 0 <=> <<x, y>> \in less
  <2> DEFINE o == orders[<<x, y>>]
             r == [a |-> norm[x], b |-> norm[y], order |-> o]
  <2>1. o \in Int /\ (o < 0 <=> <<x, y>> \in less)
    OBVIOUS
  <2> HIDE DEF o
  <2>2. norm[x] \in E /\ norm[y] \in E
    OBVIOUS
  <2>3. r \in [a : E, b : E, order : Int] /\ r.a = norm[x] /\ r.b = norm[y] /\ r.order = o
    BY <2>1, <2>2
  <2> HIDE DEF r
  <2>4. compare[x][y] = r
    BY DEF r, o
  <2> QED
    BY <2>1, <2>3, <2>4
<1> QED
  BY <1>1 DEF Decides, IsComparison

(* A vector.                                                               *)
VectorLess(by) ==
  {p \in Sortable(by) \X Sortable(by) :
     BeforeInOrder(by, DOMAIN by, OfSample(p[1], 1), OfSample(p[2], 1))}

LEMMA VectorSplit ==
  ASSUME NEW by \in Orders
  PROVE  IsSplit(VectorLess(by), Sortable(by))
<1> DEFINE E == Sortable(by)
           C == DOMAIN by
           R == BySome(by, C, Item)
           L == VectorLess(by)
<1>1. IsSplit(R, Item)
  <2>1. C \in SUBSET Nat /\ \A i \in C : by[i] \in Elem
    BY OrderType
  <2>2. \A i \in C : IsSplit(By(by[i], Item), Item)
    BY <2>1, ItemSplit, BySplit
  <2> HIDE DEF C
  <2> QED
    BY <2>1, <2>2, BySomeSplit
<1>2. \A x \in E : OfSample(x, 1) \in Item
  BY ItemType DEF Sortable
<1>3. \A x, y \in Item : <<x, y>> \in R <=> BeforeInOrder(by, C, x, y)
  BY DEF BySome
<1>4. \A x, y \in E : <<x, y>> \in L <=> BeforeInOrder(by, C, OfSample(x, 1), OfSample(y, 1))
  BY DEF VectorLess
<1> HIDE DEF E, C, R, L
<1>5. \A x, y \in E : <<x, y>> \in L <=> <<OfSample(x, 1), OfSample(y, 1)>> \in R
  BY <1>2, <1>3, <1>4
<1> QED
  BY <1>1, <1>2, <1>5 DEF IsSplit, E, L

LEMMA SplitSubset ==
  ASSUME NEW less, NEW D, IsSplit(less, D), NEW E \in SUBSET D
  PROVE  IsSplit(less, E)
BY DEF IsSplit

(* A vector of series that the order can compare is sorted by all of its   *)
(* columns, and keeps its own order where they say nothing (sortVector).   *)
THEOREM VectorSorted ==
  ASSUME NEW by \in Orders, NEW E \in SUBSET Sortable(by), NEW list \in Seq(E)
  PROVE  /\ SortVector(list, by) =
              Ranked(list, {p \in Pairs(list) :
                BeforeInOrder(by, DOMAIN by, OfSample(list[p[1]], 1), OfSample(list[p[2]], 1))})
         /\ SortVector(list, by) \in Seq(E)
<1> DEFINE compare == [a \in Series |-> [b \in Series |->
                         [a |-> a, b |-> b, order |-> CompareSeries(a, b, by)]]]
           less == VectorLess(by)
<1>1. SortVector(list, by) = SortFunc(list, compare)
  BY DEF SortVector
<1>2. \A x \in E : x \in Series /\ x \in Sortable(by)
  BY DEF Sortable
<1>3. \A x, y \in E : compare[x][y] = [a |-> x, b |-> y, order |-> CompareSeries(x, y, by)]
  BY <1>2
<1>4. \A x, y \in E : <<x, y>> \in less <=>
        BeforeInOrder(by, DOMAIN by, OfSample(x, 1), OfSample(y, 1))
  BY DEF VectorLess
<1>5. \A x, y \in E : CompareSeries(x, y, by) \in Int
                       /\ (CompareSeries(x, y, by) < 0 <=> <<x, y>> \in less)
  BY <1>2, <1>4, CompareSeriesIs
<1>6. IsSplit(less, E)
  BY VectorSplit, SplitSubset
<1> HIDE DEF compare, less
<1>7. Decides(compare, Same(E), less, E)
  <2> DEFINE orders == [p \in E \X E |-> CompareSeries(p[1], p[2], by)]
  <2>1. Same(E) \in [E -> E] /\ \A x \in E : Same(E)[x] = x
    BY DEF Same
  <2>2. \A x, y \in E : orders[<<x, y>>] = CompareSeries(x, y, by)
    OBVIOUS
  <2>3. \A x, y \in E : compare[x][y] = [a |-> Same(E)[x], b |-> Same(E)[y], order |-> orders[<<x, y>>]]
    BY <1>3, <2>1, <2>2
  <2> HIDE DEF orders
  <2>4. \A x, y \in E : orders[<<x, y>>] \in Int /\ (orders[<<x, y>>] < 0 <=> <<x, y>> \in less)
    BY <1>5, <2>2
  <2> QED
    BY <2>1, <2>3, <2>4, DecidesAs
<1>8. SortFunc(list, compare) = Ranked(list, Lesser(list, less))
  BY <1>6, <1>7, SortedSame
<1>9. Lesser(list, less) = {p \in Pairs(list) :
        BeforeInOrder(by, DOMAIN by, OfSample(list[p[1]], 1), OfSample(list[p[2]], 1))}
  <2>1. \A i \in DOMAIN list : list[i] \in E
    OBVIOUS
  <2>2. ASSUME NEW p \in Pairs(list)
        PROVE  <<list[p[1]], list[p[2]]>> \in less <=>
                 BeforeInOrder(by, DOMAIN by, OfSample(list[p[1]], 1), OfSample(list[p[2]], 1))
    <3>1. p[1] \in DOMAIN list /\ p[2] \in DOMAIN list
      BY DEF Pairs
    <3>2. list[p[1]] \in E /\ list[p[2]] \in E
      BY <2>1, <3>1
    <3> QED
      BY <3>2, <1>4
  <2> QED
    BY <2>2 DEF Lesser
<1>10. SortFunc(list, compare) \in Seq(E)
  BY <1>7, SortType DEF Decides
<1> QED
  BY <1>1, <1>8, <1>9, <1>10
-----------------------------------------------------------------------------
(* The samples of a series.                                                *)
AsItem(l, x) == [label |-> l, sample |-> x]

SampleLess(elem, l) ==
  {p \in Sample \X Sample : BeforeBy(elem, AsItem(l, p[1]), AsItem(l, p[2]))}

LEMMA SampleSplit ==
  ASSUME NEW elem \in Elem, NEW l \in Nat
  PROVE  IsSplit(SampleLess(elem, l), Sample)
<1>1. IsSplit(By(elem, Item), Item)
  BY ItemSplit, BySplit
<1>2. \A x \in Sample : AsItem(l, x) \in Item
  BY DEF AsItem, Item
<1>3. \A x, y \in Sample :
        <<x, y>> \in SampleLess(elem, l) <=> BeforeBy(elem, AsItem(l, x), AsItem(l, y))
  BY DEF SampleLess
<1>4. \A x, y \in Sample :
        <<x, y>> \in SampleLess(elem, l) <=> <<AsItem(l, x), AsItem(l, y)>> \in By(elem, Item)
  BY <1>2, <1>3, ByIs
<1> QED
  BY <1>1, <1>2, <1>4 DEF IsSplit

(* How samples are compared. *)
SampleCompare(elem) ==
  [a \in Sample |-> [b \in Sample |->
    [a |-> a, b |-> b, order |-> CompareSamples(a, b, elem)]]]

LEMMA SampleDecides ==
  ASSUME NEW elem \in Elem, elem.column # "label", NEW l \in Nat
  PROVE  Decides(SampleCompare(elem), Same(Sample), SampleLess(elem, l), Sample)
<1>1. \A x, y \in Sample :
        SampleCompare(elem)[x][y] = [a |-> x, b |-> y, order |-> CompareSamples(x, y, elem)]
  BY DEF SampleCompare
<1>2. \A x, y \in Sample :
        <<x, y>> \in SampleLess(elem, l) <=> BeforeBy(elem, AsItem(l, x), AsItem(l, y))
  BY DEF SampleLess
<1>3. \A x \in Sample : AsItem(l, x) \in Item /\ AsItem(l, x).sample = x
  BY DEF AsItem, Item
<1>4. \A x, y \in Sample : Compared(elem, CompareSamples(x, y, elem), AsItem(l, x), AsItem(l, y))
  <2>1. TAKE x, y \in Sample
  <2>2. Compared(elem, CompareSamples(AsItem(l, x).sample, AsItem(l, y).sample, elem),
                 AsItem(l, x), AsItem(l, y))
    BY <1>3, SampleCompared
  <2> QED
    BY <2>2, <1>3
<1>5. \A x, y \in Sample : CompareSamples(x, y, elem) \in Int
        /\ (CompareSamples(x, y, elem) < 0 <=> <<x, y>> \in SampleLess(elem, l))
  <2>1. TAKE x, y \in Sample
  <2> DEFINE o == CompareSamples(x, y, elem)
  <2>2. Compared(elem, o, AsItem(l, x), AsItem(l, y))
    BY <1>4
  <2> HIDE DEF o
  <2>3. o \in {-1, 0, 1} /\ (o < 0 <=> BeforeBy(elem, AsItem(l, x), AsItem(l, y)))
    BY <2>2 DEF Compared, Agrees
  <2>4. o \in Int
    BY <2>3
  <2> QED
    BY <2>3, <2>4, <1>2 DEF o
<1> DEFINE orders == [p \in Sample \X Sample |-> CompareSamples(p[1], p[2], elem)]
<1>6. Same(Sample) \in [Sample -> Sample] /\ \A x \in Sample : Same(Sample)[x] = x
  BY DEF Same
<1>7. \A x, y \in Sample : orders[<<x, y>>] = CompareSamples(x, y, elem)
  OBVIOUS
<1>8. \A x, y \in Sample : SampleCompare(elem)[x][y] =
        [a |-> Same(Sample)[x], b |-> Same(Sample)[y], order |-> orders[<<x, y>>]]
  BY <1>1, <1>6, <1>7
<1> HIDE DEF orders
<1>9. \A x, y \in Sample : orders[<<x, y>>] \in Int
        /\ (orders[<<x, y>>] < 0 <=> <<x, y>> \in SampleLess(elem, l))
  BY <1>5, <1>7
<1> QED
  BY <1>6, <1>8, <1>9, DecidesAs

LEMMA SortSamplesIs ==
  ASSUME NEW elem
  PROVE  \A q : SortSamples(q, elem) = SortFunc(q, SampleCompare(elem))
BY DEF SortSamples, SampleCompare

LEMMA SortSamplesFacts ==
  ASSUME NEW elem \in Elem, elem.column # "label", NEW q \in Seq(Sample), NEW l \in Nat
  PROVE  /\ SortSamples(q, elem) \in Seq(Sample) /\ Len(SortSamples(q, elem)) = Len(q)
         /\ SortSamples(SortSamples(q, elem), elem) = SortSamples(q, elem)
         /\ SortSamples(q, elem) = Ranked(q, Lesser(q, SampleLess(elem, l)))
<1>1. \A r : SortSamples(r, elem) = SortFunc(r, SampleCompare(elem))
  BY SortSamplesIs
<1>2. Decides(SampleCompare(elem), Same(Sample), SampleLess(elem, l), Sample)
  BY SampleDecides
<1>3. IsSplit(SampleLess(elem, l), Sample)
  BY SampleSplit
<1>4. SortFunc(q, SampleCompare(elem)) \in Seq(Sample) /\ Len(SortFunc(q, SampleCompare(elem))) = Len(q)
  BY <1>2, SortType DEF Decides
<1>5. SortFunc(SortFunc(q, SampleCompare(elem)), SampleCompare(elem)) = SortFunc(q, SampleCompare(elem))
  BY <1>2, <1>3, SortedTwice
<1>6. SortFunc(q, SampleCompare(elem)) = Ranked(q, Lesser(q, SampleLess(elem, l)))
  BY <1>2, <1>3, SortedSame
<1> QED
  BY <1>1, <1>4, <1>5, <1>6

(* The columns of a matrix that sort is good for. *)
OneColumn(by) ==
  SampleColumns(by) = {1} \/ SampleColumns(by) = {}

SortedFirst(by, s) ==
  IF SampleColumns(by) = {1} THEN [s EXCEPT !.samples = SortSamples(@, by[1])] ELSE s

LEMMA BeforeInOne ==
  ASSUME NEW by, NEW c, NEW d
  PROVE  BeforeInOrder(by, {1}, c, d) <=> BeforeBy(by[1], c, d)
<1>1. ~ (1 < 1)
  OBVIOUS
<1> QED
  BY <1>1 DEF BeforeInOrder

LEMMA SamplesOrderedIs ==
  ASSUME NEW by \in Orders, OneColumn(by), NEW s \in Series
  PROVE  SamplesOrdered(by, s) = SortedFirst(by, s)
<1> DEFINE q == s.samples
           C == SampleColumns(by)
           before == {p \in Pairs(q) : BeforeInOrder(by, C, OfSample(s, p[1]), OfSample(s, p[2]))}
<1>1. q \in Seq(Sample) /\ s.label \in Nat
  BY SeriesType
<1>2. SamplesOrdered(by, s) = [s EXCEPT !.samples = Ranked(q, before)]
  BY DEF SamplesOrdered
<1>3. CASE C = {1}
  <2>1. 1 \in C
    BY <1>3
  <2>2. by[1] \in Elem /\ by[1].column # "label"
    BY <2>1, OrderType DEF SampleColumns
  <2> HIDE DEF C, q
  <2>3. SortSamples(q, by[1]) = Ranked(q, Lesser(q, SampleLess(by[1], s.label)))
    BY <2>2, <1>1, SortSamplesFacts
  <2>4. before = Lesser(q, SampleLess(by[1], s.label))
    <3>1. ASSUME NEW p \in Pairs(q)
          PROVE  BeforeInOrder(by, C, OfSample(s, p[1]), OfSample(s, p[2])) <=>
                   <<q[p[1]], q[p[2]]>> \in SampleLess(by[1], s.label)
      <4>1. p[1] \in DOMAIN q /\ p[2] \in DOMAIN q
        BY DEF Pairs
      <4>2. q[p[1]] \in Sample /\ q[p[2]] \in Sample
        BY <4>1, <1>1, ElementType
      <4>3. OfSample(s, p[1]) = AsItem(s.label, q[p[1]]) /\ OfSample(s, p[2]) = AsItem(s.label, q[p[2]])
        BY DEF OfSample, AsItem, q
      <4>4. <<q[p[1]], q[p[2]]>> \in SampleLess(by[1], s.label) <=>
              BeforeBy(by[1], AsItem(s.label, q[p[1]]), AsItem(s.label, q[p[2]]))
        BY <4>2 DEF SampleLess
      <4> QED
        BY <4>3, <4>4, <1>3, BeforeInOne
    <3> QED
      BY <3>1 DEF Lesser
  <2>5. SortedFirst(by, s) = [s EXCEPT !.samples = SortSamples(q, by[1])]
    BY <1>3 DEF SortedFirst, C, q
  <2> QED
    BY <2>3, <2>4, <2>5, <1>2
<1>4. CASE C = {}
  <2>1. ASSUME NEW c, NEW d PROVE ~BeforeInOrder(by, C, c, d)
    BY <1>4 DEF BeforeInOrder
  <2>2. before = {}
    <3> HIDE DEF C
    <3> QED
      BY <2>1
  <2>3. q \in Lists(Sample, Len(q)) /\ Len(q) \in Nat
    BY <1>1 DEF Lists
  <2>4. IsSplit({}, 1 .. Len(q))
    BY DEF IsSplit
  <2>5. Ranked(q, {}) = q
    <3> HIDE DEF q
    <3> QED
      BY <2>3, <2>4, RankedSteady
  <2>6. [s EXCEPT !.samples = s.samples] = s
    BY DEF Series
  <2>7. SortedFirst(by, s) = s
    <3>1. SampleColumns(by) # {1}
      BY <1>4
    <3> QED
      BY <3>1 DEF SortedFirst
  <2> QED
    BY <2>2, <2>5, <2>6, <2>7, <1>2
<1> QED
  BY <1>3, <1>4 DEF OneColumn
-----------------------------------------------------------------------------
(* What the comparison of two series makes of their samples.               *)
SortsBy(f, q, by, n) ==
  /\ f \in [0 .. n -> Seq(Sample)]
  /\ f[0] = q
  /\ \A m \in 1 .. n : f[m] = IF by[m].column = "label" THEN f[m - 1]
                              ELSE SortSamples(f[m - 1], by[m])

LEMMA SortedBySteps ==
  ASSUME NEW by \in Orders, NEW q \in Seq(Sample), NEW n \in 0 .. Len(by)
  PROVE  \E f : SortsBy(f, q, by, n) /\ SortedBy(q, by, n) = f[n]
<1> DEFINE S == Seq(Sample)
           next == [m \in 1 .. n |-> [r \in S |->
                      IF by[m].column = "label" THEN r ELSE SortSamples(r, by[m])]]
<1>1. n \in Nat /\ \A m \in 1 .. n : by[m] \in Elem
  <2>1. Len(by) \in Nat /\ DOMAIN by = 1 .. Len(by)
    BY OrderType
  <2>2. n \in Nat /\ \A m \in 1 .. n : m \in DOMAIN by
    BY <2>1
  <2> QED
    BY <2>2, OrderType
<1>2. \A m \in 1 .. n : \A r \in S : by[m].column # "label" => SortSamples(r, by[m]) \in S
  <2>1. 0 \in Nat
    OBVIOUS
  <2> QED
    BY <1>1, <2>1, SortSamplesFacts
<1>3. next \in [1 .. n -> [S -> S]]
  BY <1>2
<1>4. PICK e : Follows(e, q, next, n, S)
  <2>1. IsNext(next, n, S)
    BY <1>3 DEF IsNext
  <2> HIDE DEF next, S
  <2> QED
    BY <1>1, <2>1, Recursion DEF S
<1>5. \A m \in 1 .. n : e[m] = IF by[m].column = "label" THEN e[m - 1]
                               ELSE SortSamples(e[m - 1], by[m])
  <2>1. TAKE m \in 1 .. n
  <2>2. m - 1 \in 0 .. n
    BY <1>1
  <2>3. e[m - 1] \in S
    BY <2>2, <1>4 DEF Follows
  <2>4. next[m][e[m - 1]] = IF by[m].column = "label" THEN e[m - 1]
                            ELSE SortSamples(e[m - 1], by[m])
    BY <2>3
  <2> HIDE DEF next, S
  <2> QED
    BY <2>4, <1>4 DEF Follows
<1> HIDE DEF next
<1>6. e = [m \in 0 .. n |-> IF m = 0 THEN q ELSE IF by[m].column = "label" THEN e[m - 1]
                            ELSE SortSamples(e[m - 1], by[m])]
  <2>1. \A m \in 0 .. n : e[m] = IF m = 0 THEN q ELSE IF by[m].column = "label" THEN e[m - 1]
                                 ELSE SortSamples(e[m - 1], by[m])
    <3>1. TAKE m \in 0 .. n
    <3>2. m = 0 \/ m \in 1 .. n
      BY <1>1
    <3>3. CASE m = 0
      BY <3>3, <1>4 DEF Follows
    <3>4. CASE m \in 1 .. n
      <4>1. m # 0
        BY <3>4
      <4> QED
        BY <3>4, <4>1, <1>5
    <3> QED
      BY <3>2, <3>3, <3>4
  <2> QED
    BY <2>1, <1>4 DEF Follows
<1> DEFINE Good(g) == g = [m \in 0 .. n |->
                             IF m = 0 THEN q ELSE IF by[m].column = "label" THEN g[m - 1]
                             ELSE SortSamples(g[m - 1], by[m])]
           x == CHOOSE g : Good(g)
<1>7. SortedBy(q, by, n) = x[n]
  BY DEF SortedBy
<1>8. Good(x)
  <2>1. Good(e)
    BY <1>6
  <2> HIDE DEF Good
  <2> QED
    BY <2>1
<1>9. x = [m \in 0 .. n |-> IF m = 0 THEN q ELSE IF by[m].column = "label" THEN x[m - 1]
                            ELSE SortSamples(x[m - 1], by[m])]
  BY <1>8
<1> HIDE DEF x
<1>10. \A m \in 0 .. n : x[m] = IF m = 0 THEN q ELSE IF by[m].column = "label" THEN x[m - 1]
                                ELSE SortSamples(x[m - 1], by[m])
  BY <1>9
<1>11. x[0] = q
  BY <1>1, <1>10
<1>12. \A m \in 1 .. n : x[m] = IF by[m].column = "label" THEN x[m - 1]
                                ELSE SortSamples(x[m - 1], by[m])
  <2>1. \A m \in 1 .. n : m \in 0 .. n /\ m # 0
    BY <1>1
  <2> QED
    BY <1>10, <2>1
<1>13. x \in [0 .. n -> S]
  <2> DEFINE T == {m \in 0 .. n : x[m] \in S}
  <2>1. 0 \in T
    BY <1>1, <1>11
  <2>2. ASSUME NEW m \in 1 .. n, m - 1 \in T PROVE m \in T
    <3>1. m \in 0 .. n /\ x[m - 1] \in S
      BY <2>2, <1>1
    <3>2. x[m] \in S
      BY <3>1, <1>2, <1>12
    <3> QED
      BY <3>1, <3>2
  <2>3. \A m \in 0 .. n : m \in T
    <3> HIDE DEF T
    <3> QED
      BY <2>1, <2>2, <1>1, Induct
  <2> QED
    BY <2>3, <1>9
<1>14. SortsBy(x, q, by, n)
  BY <1>11, <1>12, <1>13 DEF SortsBy
<1> QED
  BY <1>7, <1>14

(* Samples are sorted by the only column, which comes first. *)
LEMMA SortedByOne ==
  ASSUME NEW by \in Orders, OneColumn(by), NEW q \in Seq(Sample), NEW n \in 1 .. Len(by)
  PROVE  SortedBy(q, by, n) = IF SampleColumns(by) = {1} THEN SortSamples(q, by[1]) ELSE q
<1>1. Len(by) \in Nat /\ DOMAIN by = 1 .. Len(by)
  BY OrderType
<1>2. n \in Nat /\ n \in 0 .. Len(by) /\ 1 \in 1 .. n /\ \A m \in 1 .. n : m \in DOMAIN by
  BY <1>1
<1>3. PICK f : SortsBy(f, q, by, n) /\ SortedBy(q, by, n) = f[n]
  BY <1>2, SortedBySteps
<1>4. f[0] = q /\ \A m \in 1 .. n : f[m] = IF by[m].column = "label" THEN f[m - 1]
                                           ELSE SortSamples(f[m - 1], by[m])
  BY <1>3 DEF SortsBy
<1>5. \A m \in 1 .. n : by[m].column = "label" <=> m \notin SampleColumns(by)
  BY <1>2 DEF SampleColumns
<1> DEFINE r == IF SampleColumns(by) = {1} THEN SortSamples(q, by[1]) ELSE q
           T == {m \in 0 .. n : m >= 1 => f[m] = r}
<1>6. f[1] = r
  <2>1. 1 - 1 = 0
    OBVIOUS
  <2>2. f[1] = IF by[1].column = "label" THEN q ELSE SortSamples(q, by[1])
    BY <2>1, <1>2, <1>4
  <2>3. CASE SampleColumns(by) = {1}
    BY <2>2, <2>3, <1>2, <1>5
  <2>4. CASE SampleColumns(by) = {}
    <3>1. SampleColumns(by) # {1}
      BY <2>4
    <3> QED
      BY <3>1, <2>2, <2>4, <1>2, <1>5
  <2> QED
    BY <2>3, <2>4 DEF OneColumn
<1>7. 0 \in T
  BY <1>2
<1>8. ASSUME NEW m \in 1 .. n, m - 1 \in T PROVE m \in T
  <2>1. m \in 0 .. n /\ (m = 1 \/ m - 1 >= 1)
    BY <1>2
  <2>2. CASE m = 1
    <3> HIDE DEF r
    <3> QED
      BY <2>1, <2>2, <1>6
  <2>3. CASE m # 1
    <3>1. f[m - 1] = r
      BY <2>1, <2>3, <1>8
    <3>2. m \notin SampleColumns(by)
      BY <2>3 DEF OneColumn
    <3>3. f[m] = f[m - 1]
      BY <3>2, <1>4, <1>5
    <3> HIDE DEF r
    <3> QED
      BY <2>1, <3>1, <3>3
  <2> QED
    BY <2>2, <2>3
<1>9. \A m \in 0 .. n : m \in T
  <2> HIDE DEF T
  <2> QED
    BY <1>2, <1>7, <1>8, Induct
<1>10. n \in 0 .. n /\ n >= 1
  BY <1>2
<1>11. f[n] = r
  <2> HIDE DEF r
  <2> QED
    BY <1>9, <1>10
<1> QED
  BY <1>3, <1>11
-----------------------------------------------------------------------------
(* A matrix.                                                               *)
LabelColumns(by) == DOMAIN by \ SampleColumns(by)

MatrixLess(by) == BySome(by, LabelColumns(by), Sortable(by))

LEMMA MatrixSplit ==
  ASSUME NEW by \in Orders
  PROVE  IsSplit(MatrixLess(by), Sortable(by))
<1>1. LabelColumns(by) \in SUBSET Nat
  BY OrderType DEF LabelColumns
<1>2. \A i \in LabelColumns(by) : by[i].column = "label"
  BY DEF LabelColumns, SampleColumns
<1>3. \A x \in Sortable(by) : x.label \in Nat
  BY SeriesType DEF Sortable
<1>4. \A i \in LabelColumns(by) : IsSplit(By(by[i], Sortable(by)), Sortable(by))
  BY <1>2, <1>3, LabelSplit, BySplit
<1> QED
  BY <1>1, <1>4, BySomeSplit DEF MatrixLess

LEMMA StreamsCompared ==
  ASSUME NEW by \in Orders, OneColumn(by), by # << >>,
         NEW a \in Sortable(by), NEW b \in Sortable(by)
  PROVE  /\ CompareStreams(a, b, by).a = SortedFirst(by, a)
         /\ CompareStreams(a, b, by).b = SortedFirst(by, b)
         /\ CompareStreams(a, b, by).order \in Int
         /\ CompareStreams(a, b, by).order < 0 <=> BeforeInOrder(by, LabelColumns(by), a, b)
         /\ CompareStreams(a, b, by) = [a |-> SortedFirst(by, a), b |-> SortedFirst(by, b),
                                        order |-> CompareStreams(a, b, by).order]
<1> DEFINE C == LabelColumns(by)
           order == [i \in C |-> CompareLabels(a, b, by[i])]
           decisive == {i \in DOMAIN by : by[i].column = "label" /\ CompareLabels(a, b, by[i]) # 0}
           n == IF decisive = {} THEN Len(by) ELSE Min(decisive)
           o == IF decisive = {} THEN 0 ELSE CompareLabels(a, b, by[n])
<1>1. CompareStreams(a, b, by) =
        [a |-> [a EXCEPT !.samples = SortedBy(@, by, n)],
         b |-> [b EXCEPT !.samples = SortedBy(@, by, n)], order |-> o]
  BY DEF CompareStreams
<1>2. a \in Series /\ b \in Series /\ (a.bare => SampleColumns(by) = DOMAIN by)
  BY DEF Sortable
<1>3. \A i \in C : i \in DOMAIN by /\ by[i].column = "label" /\ by[i] \in Elem
  BY OrderType DEF LabelColumns, SampleColumns
<1>4. C \in SUBSET Nat
  BY OrderType DEF LabelColumns
<1>5. \A i \in C : order[i] = CompareLabels(a, b, by[i])
  OBVIOUS
<1>6. \A i \in C : Compared(by[i], order[i], a, b)
  <2>1. TAKE i \in C
  <2>2. ~a.bare
    BY <1>2 DEF LabelColumns
  <2>3. a.label \in Nat /\ b.label \in Nat
    BY <1>2, SeriesType
  <2>4. by[i].column = "label" /\ by[i].descending \in BOOLEAN
    BY <1>3 DEF Elem
  <2>5. Compared(by[i], CompareLabels(a, b, by[i]), a, b)
    BY <2>2, <2>3, <2>4, LabelCompared
  <2> HIDE DEF C
  <2> QED
    BY <2>5, <1>5
<1>7. \A i : i \in decisive <=> i \in C /\ order[i] # 0
  <2>1. \A i : i \in C <=> i \in DOMAIN by /\ by[i].column = "label"
    BY DEF LabelColumns, SampleColumns
  <2> HIDE DEF C
  <2> QED
    BY <2>1
<1>8. decisive \in SUBSET Nat /\ decisive \in SUBSET DOMAIN by
  BY OrderType
<1>9. n \in 1 .. Len(by)
  <2>1. Len(by) \in Nat /\ DOMAIN by = 1 .. Len(by) /\ by \in Seq(Elem)
    BY OrderType DEF Orders, Elem
  <2>2. Len(by) \in 1 .. Len(by)
    <3>1. Len(by) # 0
      BY <2>1
    <3> QED
      BY <3>1, <2>1
  <2> HIDE DEF decisive
  <2> QED
    BY <2>1, <2>2, <1>8, MinIs
<1> HIDE DEF order, C, decisive
<1>10. o \in Int /\ (o < 0 <=> BeforeInOrder(by, C, a, b))
  <2>1. CASE decisive = {}
    <3>1. \A i \in C : order[i] = 0
      BY <1>7, <2>1
    <3>2. ~BeforeInOrder(by, C, a, b)
      BY <3>1, <1>6, NoneDecides
    <3> QED
      BY <3>2, <2>1
  <2>2. CASE decisive # {}
    <3>1. n \in decisive /\ \A j \in decisive : n <= j
      BY <1>8, <2>2, MinIs
    <3> HIDE DEF n
    <3>2. n \in C /\ order[n] # 0 /\ \A j \in C : order[j] # 0 => n <= j
      BY <3>1, <1>7
    <3>3. order[n] \in Int /\ (order[n] < 0 <=> BeforeInOrder(by, C, a, b))
      BY <3>2, <1>6, <1>4, FirstDecides
    <3>4. o = order[n]
      BY <2>2, <3>2, <1>5
    <3> QED
      BY <3>3, <3>4
  <2> QED
    BY <2>1, <2>2
<1> HIDE DEF o, n
<1>11. \A s \in Series : [s EXCEPT !.samples = SortedBy(@, by, n)] = SortedFirst(by, s)
  <2>1. TAKE s \in Series
  <2>2. s.samples \in Seq(Sample)
    BY SeriesType
  <2>3. SortedBy(s.samples, by, n) = IF SampleColumns(by) = {1} THEN SortSamples(s.samples, by[1])
                                     ELSE s.samples
    BY <2>2, <1>9, SortedByOne
  <2>4. [s EXCEPT !.samples = s.samples] = s
    BY DEF Series
  <2> QED
    BY <2>3, <2>4 DEF SortedFirst
<1>12. CompareStreams(a, b, by) = [a |-> SortedFirst(by, a), b |-> SortedFirst(by, b), order |-> o]
  BY <1>1, <1>2, <1>11
<1> QED
  BY <1>10, <1>12 DEF C
-----------------------------------------------------------------------------
LEMMA SortedFirstFacts ==
  ASSUME NEW by \in Orders, OneColumn(by), NEW s \in Series
  PROVE  /\ SortedFirst(by, s) \in Series
         /\ SortedFirst(by, s).label = s.label /\ SortedFirst(by, s).bare = s.bare
         /\ SortedFirst(by, SortedFirst(by, s)) = SortedFirst(by, s)
         /\ Len(SortedFirst(by, s).samples) = Len(s.samples)
<1>1. CASE SampleColumns(by) = {1}
  <2>1. 1 \in SampleColumns(by)
    BY <1>1
  <2>2. by[1] \in Elem /\ by[1].column # "label"
    BY <2>1, OrderType DEF SampleColumns
  <2> DEFINE q == s.samples
             r == SortSamples(q, by[1])
             t == [s EXCEPT !.samples = r]
  <2>3. q \in Seq(Sample) /\ q # << >>
    BY SeriesType
  <2>4. r \in Seq(Sample) /\ Len(r) = Len(q) /\ SortSamples(r, by[1]) = r
    <3>1. 0 \in Nat
      OBVIOUS
    <3> HIDE DEF q
    <3> QED
      BY <2>2, <2>3, <3>1, SortSamplesFacts
  <2>5. r # << >>
    BY <2>3, <2>4
  <2> HIDE DEF r
  <2>6. SortedFirst(by, s) = t
    BY <1>1 DEF SortedFirst, r
  <2>7. t \in Series /\ t.samples = r /\ t.label = s.label /\ t.bare = s.bare
    BY <2>4, <2>5 DEF Series, Samples
  <2>8. SortedFirst(by, t) = [t EXCEPT !.samples = SortSamples(t.samples, by[1])]
    BY <1>1 DEF SortedFirst
  <2>9. [t EXCEPT !.samples = r] = t
    BY <2>7 DEF Series
  <2> HIDE DEF t
  <2> QED
    BY <2>4, <2>6, <2>7, <2>8, <2>9
<1>2. CASE SampleColumns(by) = {}
  <2>1. SampleColumns(by) # {1}
    BY <1>2
  <2>2. SortedFirst(by, s) = s
    BY <2>1 DEF SortedFirst
  <2> QED
    BY <2>2
<1> QED
  BY <1>1, <1>2 DEF OneColumn

SortedFirsts(by) == [s \in Sortable(by) |-> SortedFirst(by, s)]

LEMMA LabelsDecide ==
  ASSUME NEW by, NEW x, NEW y, NEW u, NEW v, x.label = u.label, y.label = v.label
  PROVE  BeforeInOrder(by, LabelColumns(by), x, y) <=> BeforeInOrder(by, LabelColumns(by), u, v)
<1>1. \A i \in LabelColumns(by) : by[i].column = "label"
  BY DEF LabelColumns, SampleColumns
<1>2. \A i \in LabelColumns(by) : /\ Under(by[i], x, y) <=> Under(by[i], u, v)
                                  /\ Under(by[i], y, x) <=> Under(by[i], v, u)
  BY <1>1, LabelUnder
<1>3. \A i \in LabelColumns(by) : /\ BeforeBy(by[i], x, y) <=> BeforeBy(by[i], u, v)
                                  /\ BeforeBy(by[i], y, x) <=> BeforeBy(by[i], v, u)
  BY <1>2, BeforeByIs
<1> QED
  BY <1>3 DEF BeforeInOrder

LEMMA SortedFirstsNorm ==
  ASSUME NEW by \in Orders, OneColumn(by)
  PROVE  IsNorm(SortedFirsts(by), MatrixLess(by), Sortable(by))
<1> DEFINE E == Sortable(by)
           norm == SortedFirsts(by)
           less == MatrixLess(by)
<1>1. \A x \in E : x \in Series /\ (x.bare => SampleColumns(by) = DOMAIN by)
  BY DEF Sortable
<1>2. \A x \in E : norm[x] = SortedFirst(by, x)
  BY DEF SortedFirsts
<1>3. \A x \in E : SortedFirst(by, x) \in E
  BY <1>1, SortedFirstFacts DEF Sortable
<1>4. norm \in [E -> E]
  BY <1>3 DEF SortedFirsts
<1>5. \A x \in E : SortedFirst(by, SortedFirst(by, x)) = SortedFirst(by, x)
                   /\ SortedFirst(by, x).label = x.label
  BY <1>1, SortedFirstFacts
<1>6. \A x, y \in E : <<x, y>> \in less <=> BeforeInOrder(by, LabelColumns(by), x, y)
  BY DEF MatrixLess, BySome
<1> HIDE DEF E, norm, less
<1>7. \A x \in E : norm[norm[x]] = norm[x] /\ norm[x].label = x.label
  BY <1>2, <1>3, <1>5
<1>8. ASSUME NEW x \in E, NEW y \in E, NEW u \in E, NEW v \in E,
             norm[x] = norm[u], norm[y] = norm[v]
      PROVE  <<x, y>> \in less <=> <<u, v>> \in less
  <2>1. x.label = u.label /\ y.label = v.label
    BY <1>7, <1>8
  <2>2. BeforeInOrder(by, LabelColumns(by), x, y) <=> BeforeInOrder(by, LabelColumns(by), u, v)
    BY <2>1, LabelsDecide
  <2> QED
    BY <2>2, <1>6
<1> QED
  BY <1>4, <1>7, <1>8 DEF IsNorm, E, norm, less

(* A matrix is sorted by the label, and the samples of each of its series  *)
(* by the one column that orders them, although the samples are sorted by  *)
(* the comparisons of the series only (sortMatrix, sortSamplePair).        *)
THEOREM MatrixSorted ==
  ASSUME NEW by \in Orders, OneColumn(by), NEW list \in Seq(Sortable(by)),
         SampleColumns(by) # {} => Len(list) > 1
  PROVE  SortMatrix(list, by) =
           Ranked([i \in DOMAIN list |-> SamplesOrdered(by, list[i])],
                  {p \in Pairs(list) :
                     BeforeInOrder(by, DOMAIN by \ SampleColumns(by), list[p[1]], list[p[2]])})
<1> DEFINE E == Sortable(by)
           norm == SortedFirsts(by)
           less == MatrixLess(by)
           before == {p \in Pairs(list) :
                        BeforeInOrder(by, DOMAIN by \ SampleColumns(by), list[p[1]], list[p[2]])}
           ordered == [i \in DOMAIN list |-> SamplesOrdered(by, list[i])]
<1>1. \A i \in DOMAIN list : list[i] \in E /\ list[i] \in Series
  BY DEF Sortable
<1>2. \A x \in E : norm[x] = SortedFirst(by, x) /\ x \in Series
  BY DEF SortedFirsts, Sortable
<1>3. ordered = Normed(norm, list)
  <2>1. DOMAIN list = 1 .. Len(list)
    OBVIOUS
  <2>2. \A i \in DOMAIN list : SamplesOrdered(by, list[i]) = norm[list[i]]
    BY <1>1, <1>2, SamplesOrderedIs
  <2> HIDE DEF norm
  <2> QED
    BY <2>1, <2>2 DEF Normed
<1>4. before = Lesser(list, less)
  <2>1. \A x, y \in E : <<x, y>> \in less <=>
          BeforeInOrder(by, DOMAIN by \ SampleColumns(by), x, y)
    BY DEF MatrixLess, BySome, LabelColumns
  <2>2. ASSUME NEW p \in Pairs(list)
        PROVE  <<list[p[1]], list[p[2]]>> \in less <=>
                 BeforeInOrder(by, DOMAIN by \ SampleColumns(by), list[p[1]], list[p[2]])
    <3>1. p[1] \in DOMAIN list /\ p[2] \in DOMAIN list
      BY DEF Pairs
    <3>2. list[p[1]] \in E /\ list[p[2]] \in E
      BY <1>1, <3>1
    <3> QED
      BY <3>2, <2>1
  <2> QED
    BY <2>2 DEF Lesser
<1>5. IsNorm(norm, less, E) /\ IsSplit(less, E)
  BY SortedFirstsNorm, MatrixSplit
<1>6. Len(list) >= 2 \/ \A x \in E : norm[x] = x
  <2>1. Len(list) \in Nat
    OBVIOUS
  <2>2. CASE SampleColumns(by) # {}
    BY <2>1, <2>2
  <2>3. CASE SampleColumns(by) = {}
    <3>1. SampleColumns(by) # {1}
      BY <2>3
    <3> QED
      BY <3>1, <1>2 DEF SortedFirst
  <2> QED
    BY <2>2, <2>3
<1>7. CASE by # << >>
  <2> DEFINE compare == [a \in Series |-> [b \in Series |-> CompareStreams(a, b, by)]]
             orders == [p \in E \X E |-> CompareStreams(p[1], p[2], by).order]
  <2>1. SortMatrix(list, by) = SortFunc(list, compare)
    BY <1>7 DEF SortMatrix
  <2>2. \A x, y \in E : compare[x][y] = CompareStreams(x, y, by)
    BY <1>2
  <2>3. \A x, y \in E : orders[<<x, y>>] = CompareStreams(x, y, by).order
    OBVIOUS
  <2> HIDE DEF compare, orders
  <2>4. \A x, y \in E : compare[x][y] = [a |-> norm[x], b |-> norm[y], order |-> orders[<<x, y>>]]
    <3>1. TAKE x, y \in E
    <3>2. CompareStreams(x, y, by) = [a |-> SortedFirst(by, x), b |-> SortedFirst(by, y),
                                      order |-> CompareStreams(x, y, by).order]
      BY <1>7, StreamsCompared
    <3> HIDE DEF norm, E
    <3> QED
      BY <3>2, <2>2, <2>3, <1>2
  <2>5. \A x, y \in E : orders[<<x, y>>] \in Int /\ (orders[<<x, y>>] < 0 <=> <<x, y>> \in less)
    <3>1. TAKE x, y \in E
    <3>2. CompareStreams(x, y, by).order \in Int
          /\ (CompareStreams(x, y, by).order < 0 <=> BeforeInOrder(by, LabelColumns(by), x, y))
      BY <1>7, StreamsCompared
    <3>3. <<x, y>> \in less <=> BeforeInOrder(by, LabelColumns(by), x, y)
      BY DEF MatrixLess, BySome
    <3> HIDE DEF less, E
    <3> QED
      BY <3>2, <3>3, <2>3
  <2>6. norm \in [E -> E]
    BY <1>5 DEF IsNorm
  <2>7. Decides(compare, norm, less, E)
    <3> HIDE DEF norm, less, E
    <3> QED
      BY <2>4, <2>5, <2>6, DecidesAs
  <2>8. SortFunc(list, compare) = Ranked(Normed(norm, list), Lesser(list, less))
    <3>1. list \in Seq(E)
      OBVIOUS
    <3> HIDE DEF norm, less, E
    <3> QED
      BY <2>7, <1>5, <1>6, <3>1, SortedRanked
  <2> HIDE DEF before, ordered
  <2>9. SortMatrix(list, by) = Ranked(ordered, before)
    BY <2>1, <2>8, <1>3, <1>4
  <2> QED
    BY <2>9 DEF before, ordered
<1>8. CASE by = << >>
  <2>1. DOMAIN by = {}
    BY <1>8
  <2>2. SampleColumns(by) = {} /\ SampleColumns(by) # {1}
    BY <2>1 DEF SampleColumns
  <2>3. before = {}
    BY <2>1 DEF BeforeInOrder
  <2>4. \A i \in DOMAIN list : SamplesOrdered(by, list[i]) = list[i]
    <3>1. \A i \in DOMAIN list : SamplesOrdered(by, list[i]) = SortedFirst(by, list[i])
      BY <1>1, SamplesOrderedIs
    <3> QED
      BY <3>1, <2>2 DEF SortedFirst
  <2>5. ordered = list
    <3>1. list = [i \in DOMAIN list |-> list[i]]
      OBVIOUS
    <3> QED
      BY <3>1, <2>4
  <2>6. SortMatrix(list, by) = list
    BY <1>8 DEF SortMatrix
  <2>7. Ranked(list, {}) = list
    <3>1. list \in Lists(E, Len(list)) /\ Len(list) \in Nat
      BY DEF Lists
    <3>2. IsSplit({}, 1 .. Len(list))
      BY DEF IsSplit
    <3> QED
      BY <3>1, <3>2, RankedSteady
  <2> HIDE DEF before, ordered
  <2>8. SortMatrix(list, by) = Ranked(ordered, before)
    BY <2>3, <2>5, <2>6, <2>7
  <2> QED
    BY <2>8 DEF before, ordered
<1> QED
  BY <1>7, <1>8
-----------------------------------------------------------------------------
(* Any series can be sorted by any columns.                                *)
LEMMA ComparesToInt ==
  ASSUME NEW elem \in Elem, NEW a \in Series, NEW b \in Series
  PROVE  /\ CompareLabels(a, b, elem) \in Int
         /\ CompareBy(a, b, elem) \in Int
<1>1. elem.descending \in BOOLEAN
  BY DEF Elem
<1>2. a.label \in Nat /\ b.label \in Nat
  BY SeriesType
<1>3. \A x \in {-1, 0, 1} : Sign(elem) * x \in Int
  <2>1. TAKE x \in {-1, 0, 1}
  <2>2. Sign(elem) * x \in {-1, 0, 1}
    BY <1>1, SignTimes
  <2> QED
    BY <2>2
<1>4. \A x, y \in Nat : CompareNumbers(x, y) \in {-1, 0, 1}
  BY DEF CompareNumbers
<1>5. CompareLabels(a, b, elem) = Sign(elem) * 0
      \/ CompareLabels(a, b, elem) = Sign(elem) * CompareNumbers(a.label, b.label)
  BY DEF CompareLabels
<1>6. CompareLabels(a, b, elem) \in Int
  <2>1. 0 \in {-1, 0, 1} /\ CompareNumbers(a.label, b.label) \in {-1, 0, 1}
    BY <1>2, <1>4
  <2> QED
    BY <2>1, <1>3, <1>5
<1>7. CASE elem.column = "label"
  BY <1>6, <1>7 DEF CompareBy
<1>8. CASE elem.column # "label"
  <2>1. CompareBy(a, b, elem) = CompareSamples(a.samples[1], b.samples[1], elem)
    BY <1>8 DEF CompareBy
  <2>2. /\ OfSample(a, 1) \in Item /\ OfSample(a, 1).sample = a.samples[1]
        /\ OfSample(b, 1) \in Item /\ OfSample(b, 1).sample = b.samples[1]
    BY ItemType
  <2>3. Compared(elem, CompareSamples(OfSample(a, 1).sample, OfSample(b, 1).sample, elem),
                 OfSample(a, 1), OfSample(b, 1))
    BY <2>2, <1>8, SampleCompared
  <2>4. CompareSamples(a.samples[1], b.samples[1], elem) \in {-1, 0, 1}
    BY <2>2, <2>3 DEF Compared, Agrees
  <2>5. \A x \in {-1, 0, 1} : x \in Int
    OBVIOUS
  <2> QED
    BY <2>1, <2>4, <2>5, <1>6
<1> QED
  BY <1>7, <1>8

LEMMA SortVectorType ==
  ASSUME NEW by \in Orders, NEW list \in Seq(Series)
  PROVE  SortVector(list, by) \in Seq(Series)
<1> DEFINE compare == [a \in Series |-> [b \in Series |->
                         [a |-> a, b |-> b, order |-> CompareSeries(a, b, by)]]]
<1>1. SortVector(list, by) = SortFunc(list, compare)
  BY DEF SortVector
<1>2. \A x, y \in Series : CompareSeries(x, y, by) \in Int
  <2>1. TAKE x, y \in Series
  <2> DEFINE decisive == {i \in DOMAIN by : CompareBy(x, y, by[i]) # 0}
  <2>2. \A i \in DOMAIN by : CompareBy(x, y, by[i]) \in Int
    BY OrderType, ComparesToInt
  <2>3. decisive \in SUBSET Nat /\ decisive \in SUBSET DOMAIN by
    BY OrderType
  <2>4. CompareSeries(x, y, by) = IF decisive = {} THEN 0 ELSE CompareBy(x, y, by[Min(decisive)])
    BY DEF CompareSeries
  <2> HIDE DEF decisive
  <2>5. decisive # {} => Min(decisive) \in DOMAIN by
    BY <2>3, MinIs
  <2> QED
    BY <2>2, <2>4, <2>5
<1>3. \A x, y \in Series : compare[x][y] \in [a : Series, b : Series, order : Int]
  BY <1>2
<1> HIDE DEF compare
<1>4. IsComparison(compare, Series)
  BY <1>3 DEF IsComparison
<1> QED
  BY <1>1, <1>4, SortType

LEMMA SortedByType ==
  ASSUME NEW by \in Orders, NEW q \in Seq(Sample), NEW n \in 0 .. Len(by)
  PROVE  SortedBy(q, by, n) \in Seq(Sample) /\ Len(SortedBy(q, by, n)) = Len(q)
<1>1. PICK f : SortsBy(f, q, by, n) /\ SortedBy(q, by, n) = f[n]
  BY SortedBySteps
<1>2. /\ f \in [0 .. n -> Seq(Sample)] /\ f[0] = q
      /\ \A m \in 1 .. n : f[m] = IF by[m].column = "label" THEN f[m - 1]
                                  ELSE SortSamples(f[m - 1], by[m])
  BY <1>1 DEF SortsBy
<1>3. n \in Nat /\ \A m \in 1 .. n : by[m] \in Elem
  <2>1. Len(by) \in Nat /\ DOMAIN by = 1 .. Len(by)
    BY OrderType
  <2>2. n \in Nat /\ \A m \in 1 .. n : m \in DOMAIN by
    BY <2>1
  <2> QED
    BY <2>2, OrderType
<1> DEFINE T == {m \in 0 .. n : Len(f[m]) = Len(q)}
<1>4. 0 \in T
  BY <1>2, <1>3
<1>5. ASSUME NEW m \in 1 .. n, m - 1 \in T PROVE m \in T
  <2>1. m \in 0 .. n /\ m - 1 \in 0 .. n /\ Len(f[m - 1]) = Len(q)
    BY <1>3, <1>5
  <2>2. f[m - 1] \in Seq(Sample)
    BY <2>1, <1>2
  <2>3. by[m].column # "label" => Len(SortSamples(f[m - 1], by[m])) = Len(f[m - 1])
    <3>1. 0 \in Nat
      OBVIOUS
    <3> DEFINE r == f[m - 1]
    <3>2. r \in Seq(Sample)
      BY <2>2
    <3> HIDE DEF r
    <3>3. by[m].column # "label" => Len(SortSamples(r, by[m])) = Len(r)
      BY <1>3, <3>1, <3>2, SortSamplesFacts
    <3> QED
      BY <3>3 DEF r
  <2>4. Len(f[m]) = Len(f[m - 1])
    BY <2>3, <1>2
  <2> QED
    BY <2>1, <2>4
<1>6. \A m \in 0 .. n : m \in T
  <2> HIDE DEF T
  <2> QED
    BY <1>3, <1>4, <1>5, Induct
<1>7. n \in 0 .. n
  BY <1>3
<1> QED
  BY <1>1, <1>2, <1>6, <1>7

LEMMA SortMatrixType ==
  ASSUME NEW by \in Orders, NEW list \in Seq(Series)
  PROVE  SortMatrix(list, by) \in Seq(Series)
<1> DEFINE compare == [a \in Series |-> [b \in Series |-> CompareStreams(a, b, by)]]
<1>1. CASE by = << >>
  BY <1>1 DEF SortMatrix
<1>2. CASE by # << >>
  <2>1. SortMatrix(list, by) = SortFunc(list, compare)
    BY <1>2 DEF SortMatrix
  <2>2. ASSUME NEW x \in Series, NEW y \in Series
        PROVE  CompareStreams(x, y, by) \in [a : Series, b : Series, order : Int]
    <3> DEFINE decisive == {i \in DOMAIN by : by[i].column = "label" /\ CompareLabels(x, y, by[i]) # 0}
               n == IF decisive = {} THEN Len(by) ELSE Min(decisive)
               o == IF decisive = {} THEN 0 ELSE CompareLabels(x, y, by[n])
    <3>1. CompareStreams(x, y, by) =
            [a |-> [x EXCEPT !.samples = SortedBy(@, by, n)],
             b |-> [y EXCEPT !.samples = SortedBy(@, by, n)], order |-> o]
      BY DEF CompareStreams
    <3>2. decisive \in SUBSET Nat /\ decisive \in SUBSET DOMAIN by
      BY OrderType
    <3> HIDE DEF decisive
    <3>3. n \in 0 .. Len(by) /\ (decisive # {} => n \in DOMAIN by)
      <4>1. Len(by) \in Nat /\ DOMAIN by = 1 .. Len(by)
        BY OrderType
      <4>2. decisive # {} => Min(decisive) \in DOMAIN by
        BY <3>2, MinIs
      <4> QED
        BY <4>1, <4>2
    <3> HIDE DEF n
    <3>4. o \in Int
      <4>1. \A i \in DOMAIN by : CompareLabels(x, y, by[i]) \in Int
        BY OrderType, ComparesToInt
      <4> QED
        BY <4>1, <3>3
    <3> HIDE DEF o
    <3>5. \A s \in Series : [s EXCEPT !.samples = SortedBy(@, by, n)] \in Series
      <4>1. TAKE s \in Series
      <4> DEFINE r == SortedBy(s.samples, by, n)
      <4>2. s.samples \in Seq(Sample) /\ s.samples # << >>
        BY SeriesType
      <4>3. r \in Seq(Sample) /\ Len(r) = Len(s.samples)
        BY <4>2, <3>3, SortedByType
      <4> HIDE DEF r
      <4>4. r # << >>
        BY <4>2, <4>3
      <4>5. [s EXCEPT !.samples = r] \in Series
        BY <4>3, <4>4 DEF Series, Samples
      <4> QED
        BY <4>5 DEF r
    <3> QED
      BY <3>1, <3>4, <3>5
  <2>3. \A x, y \in Series : compare[x][y] \in [a : Series, b : Series, order : Int]
    BY <2>2
  <2> HIDE DEF compare
  <2>4. IsComparison(compare, Series)
    BY <2>3 DEF IsComparison
  <2> QED
    BY <2>1, <2>4, SortType
<1> QED
  BY <1>1, <1>2
-----------------------------------------------------------------------------
(* A sequence of parts, one after the other.                               *)
Flattens(f, parts, E) ==
  /\ f \in [0 .. Len(parts) -> Seq(E)]
  /\ f[0] = << >>
  /\ \A n \in 1 .. Len(parts) : f[n] = f[n - 1] \o parts[n]
  /\ FlattenSeq(parts) = f[Len(parts)]

LEMMA PartsType ==
  ASSUME NEW E, NEW parts \in Seq(Seq(E))
  PROVE  /\ Len(parts) \in Nat /\ DOMAIN parts = 1 .. Len(parts)
         /\ \A n \in 1 .. Len(parts) : parts[n] \in Seq(E)
OBVIOUS

LEMMA Flattened ==
  ASSUME NEW E, NEW parts \in Seq(Seq(E))
  PROVE  \E f : Flattens(f, parts, E)
<1> DEFINE N == Len(parts)
           S == Seq(E)
           next == [n \in 1 .. N |-> [q \in S |-> q \o parts[n]]]
           Good(h) == h = [i \in 1 .. N |-> IF i = 1 THEN parts[i] ELSE h[i - 1] \o parts[i]]
           flatten == CHOOSE h : Good(h)
<1>1. N \in Nat /\ \A n \in 1 .. N : parts[n] \in S
  BY PartsType
<1>2. next \in [1 .. N -> [S -> S]]
  <2>1. \A q, r \in S : q \o r \in S
    BY ConcatProperties
  <2> HIDE DEF S, N
  <2> QED
    BY <1>1, <2>1
<1>3. << >> \in S
  OBVIOUS
<1>4. PICK g : Follows(g, << >>, next, N, S)
  <2>1. IsNext(next, N, S)
    BY <1>2 DEF IsNext
  <2> HIDE DEF next, N, S
  <2> QED
    BY <1>1, <1>3, <2>1, Recursion
<1>5. g \in [0 .. N -> S] /\ g[0] = << >>
  BY <1>4 DEF Follows
<1>6. \A n \in 1 .. N : g[n] = g[n - 1] \o parts[n]
  <2>1. TAKE n \in 1 .. N
  <2>2. n - 1 \in 0 .. N
    BY <1>1
  <2>3. g[n - 1] \in S
    BY <2>2, <1>5
  <2>4. next[n][g[n - 1]] = g[n - 1] \o parts[n]
    BY <2>3
  <2> HIDE DEF next, S, N
  <2> QED
    BY <2>4, <1>4 DEF Follows
<1> HIDE DEF next, N
<1>7. ASSUME N # 0 PROVE g[1] = parts[1]
  <2>1. 1 \in 1 .. N /\ 1 - 1 = 0
    BY <1>1, <1>7
  <2>2. g[1] = << >> \o parts[1] /\ parts[1] \in Seq(E)
    BY <2>1, <1>1, <1>5, <1>6
  <2> QED
    BY <2>2, ConcatEmptySeq
<1> HIDE DEF S
<1>8. CASE N = 0
  <2>1. parts = << >>
    BY <1>8 DEF N
  <2>2. FlattenSeq(parts) = << >>
    BY <1>8, <2>1 DEF FlattenSeq, N
  <2>3. g[N] = << >>
    BY <1>5, <1>8
  <2>4. Flattens(g, parts, E)
    BY <1>5, <1>6, <2>2, <2>3 DEF Flattens, N, S
  <2> QED
    BY <2>4
<1>9. CASE N # 0
  <2>1. Good([i \in 1 .. N |-> g[i]])
    <3> DEFINE h == [i \in 1 .. N |-> g[i]]
    <3>1. ASSUME NEW i \in 1 .. N
          PROVE  h[i] = IF i = 1 THEN parts[i] ELSE h[i - 1] \o parts[i]
      <4>1. CASE i = 1
        BY <4>1, <1>7, <1>9
      <4>2. CASE i # 1
        <5>1. i - 1 \in 1 .. N
          BY <4>2, <1>1
        <5> QED
          BY <5>1, <4>2, <1>6
      <4> QED
        BY <4>1, <4>2
    <3> QED
      BY <3>1
  <2>2. Good(flatten)
    BY <2>1
  <2>3. FlattenSeq(parts) = flatten[N]
    BY <1>9 DEF FlattenSeq, N
  <2> HIDE DEF flatten
  <2>4. flatten = [i \in 1 .. N |-> IF i = 1 THEN parts[i] ELSE flatten[i - 1] \o parts[i]]
    BY <2>2
  <2>5. \A i \in 1 .. N : flatten[i] = IF i = 1 THEN parts[i] ELSE flatten[i - 1] \o parts[i]
    BY <2>4
  <2> DEFINE T == {n \in 0 .. N : n > 0 => flatten[n] = g[n]}
  <2>6. 0 \in T
    BY <1>1
  <2>7. ASSUME NEW n \in 1 .. N, n - 1 \in T PROVE n \in T
    <3>1. CASE n = 1
      BY <1>7, <1>9, <3>1, <2>5, <1>1
    <3>2. CASE n # 1
      <4>1. n - 1 > 0 /\ n \in 0 .. N
        BY <3>2, <1>1
      <4>2. flatten[n - 1] = g[n - 1]
        BY <2>7, <4>1
      <4>3. flatten[n] = g[n]
        BY <3>2, <4>2, <2>5, <1>6
      <4> QED
        BY <4>1, <4>3
    <3> QED
      BY <3>1, <3>2
  <2>8. N \in T
    <3> HIDE DEF T
    <3>1. \A n \in 0 .. N : n \in T
      BY <1>1, <2>6, <2>7, Induct
    <3> QED
      BY <3>1, <1>1
  <2>9. flatten[N] = g[N]
    BY <2>8, <1>1, <1>9
  <2>10. Flattens(g, parts, E)
    BY <1>5, <1>6, <2>3, <2>9 DEF Flattens, N, S
  <2> QED
    BY <2>10
<1> QED
  BY <1>8, <1>9

LEMMA FlattenType ==
  ASSUME NEW E, NEW parts \in Seq(Seq(E))
  PROVE  FlattenSeq(parts) \in Seq(E)
<1>1. PICK f : Flattens(f, parts, E)
  BY Flattened
<1>2. Len(parts) \in 0 .. Len(parts)
  BY PartsType
<1> QED
  BY <1>1, <1>2 DEF Flattens

LEMMA FlattenElements ==
  ASSUME NEW E, NEW parts \in Seq(Seq(E)), NEW x
  PROVE  x \in ToSet(FlattenSeq(parts)) <=> \E n \in DOMAIN parts : x \in ToSet(parts[n])
<1>1. PICK f : Flattens(f, parts, E)
  BY Flattened
<1> DEFINE N == Len(parts)
           In(n) == \E k \in 1 .. n : x \in ToSet(parts[k])
           T == {n \in 0 .. N : x \in ToSet(f[n]) <=> In(n)}
<1>2. N \in Nat /\ DOMAIN parts = 1 .. N /\ \A n \in 1 .. N : parts[n] \in Seq(E)
  BY PartsType
<1>3. /\ f \in [0 .. N -> Seq(E)] /\ f[0] = << >>
      /\ \A n \in 1 .. N : f[n] = f[n - 1] \o parts[n]
      /\ FlattenSeq(parts) = f[N]
  BY <1>1 DEF Flattens
<1> HIDE DEF N
<1>4. 0 \in T
  <2>1. ToSet(<< >>) = {}
    BY DEF ToSet
  <2>2. ~In(0)
    OBVIOUS
  <2> QED
    BY <2>1, <2>2, <1>2, <1>3
<1>5. ASSUME NEW n \in 1 .. N, n - 1 \in T PROVE n \in T
  <2>1. n \in 0 .. N /\ n - 1 \in 0 .. N
    BY <1>2
  <2>2. f[n - 1] \in Seq(E) /\ parts[n] \in Seq(E)
    BY <2>1, <1>2, <1>3
  <2> DEFINE a == f[n - 1]
             b == parts[n]
  <2>3. ToSet(f[n]) = ToSet(a) \cup ToSet(b)
    <3>1. f[n] = a \o b
      BY <1>3
    <3> HIDE DEF a, b
    <3>2. a \in Seq(E) /\ b \in Seq(E)
      BY <2>2 DEF a, b
    <3> QED
      BY <3>1, <3>2, ConcatElements
  <2>4. \A k : k \in 1 .. n <=> k \in 1 .. n - 1 \/ k = n
    BY <1>2
  <2>5. In(n) <=> In(n - 1) \/ x \in ToSet(b)
    BY <2>4
  <2>6. x \in ToSet(a) <=> In(n - 1)
    BY <1>5
  <2> HIDE DEF In, a, b
  <2> QED
    BY <2>1, <2>3, <2>5, <2>6
<1>6. \A n \in 0 .. N : n \in T
  <2> HIDE DEF T
  <2> QED
    BY <1>2, <1>4, <1>5, Induct
<1>7. N \in 0 .. N
  BY <1>2
<1> QED
  BY <1>2, <1>3, <1>6, <1>7

LEMMA NoElements ==
  ASSUME NEW E, NEW q \in Seq(E), ToSet(q) = {}
  PROVE  q = << >>
<1>1. Len(q) \in Nat /\ \A k \in 1 .. Len(q) : q[k] \in ToSet(q)
  BY DEF ToSet
<1>2. Len(q) = 0
  BY <1>1
<1> QED
  BY <1>2

LEMMA FlattenEmpty ==
  ASSUME NEW E, NEW parts \in Seq(Seq(E)), \A n \in DOMAIN parts : parts[n] = << >>
  PROVE  FlattenSeq(parts) = << >>
<1>1. ToSet(<< >>) = {}
  BY DEF ToSet
<1>2. \A x : x \notin ToSet(FlattenSeq(parts))
  BY <1>1, FlattenElements
<1>3. ToSet(FlattenSeq(parts)) = {}
  BY <1>2
<1> QED
  BY <1>3, FlattenType, NoElements

LEMMA FlattenSingles ==
  ASSUME NEW E, NEW q \in Seq(E), NEW parts \in Seq(Seq(E)), Len(parts) = Len(q),
         \A n \in DOMAIN q : parts[n] = <<q[n]>>
  PROVE  FlattenSeq(parts) = q
<1>1. PICK f : Flattens(f, parts, E)
  BY Flattened
<1> DEFINE N == Len(q)
           T == {n \in 0 .. N : f[n] = SubSeq(q, 1, n)}
<1>2. N \in Nat /\ DOMAIN q = 1 .. N /\ \A n \in 1 .. N : q[n] \in E
  BY SeqDomain, ElementType
<1>3. /\ f \in [0 .. N -> Seq(E)] /\ f[0] = << >>
      /\ \A n \in 1 .. N : f[n] = f[n - 1] \o parts[n]
      /\ FlattenSeq(parts) = f[N]
  BY <1>1 DEF Flattens
<1> HIDE DEF N
<1>4. 0 \in T
  <2>1. SubSeq(q, 1, 0) = << >>
    OBVIOUS
  <2> QED
    BY <2>1, <1>2, <1>3
<1>5. ASSUME NEW n \in 1 .. N, n - 1 \in T PROVE n \in T
  <2>a. n \in 0 .. N
    BY <1>2
  <2>b. f[n - 1] = SubSeq(q, 1, n - 1)
    BY <1>5
  <2>c. parts[n] = <<q[n]>>
    <3>1. n \in DOMAIN q
      BY <1>2
    <3> QED
      BY <3>1
  <2>1. n \in 0 .. N /\ f[n - 1] = SubSeq(q, 1, n - 1) /\ parts[n] = <<q[n]>>
    BY <2>a, <2>b, <2>c
  <2>2. SubSeq(q, 1, n) = SubSeq(q, 1, n - 1) \o <<q[n]>>
    BY <1>2 DEF N
  <2> QED
    BY <2>1, <2>2, <1>3
<1>6. \A n \in 0 .. N : n \in T
  <2> HIDE DEF T
  <2> QED
    BY <1>2, <1>4, <1>5, Induct
<1>7. N \in 0 .. N /\ SubSeq(q, 1, N) = q
  BY <1>2 DEF N
<1> QED
  BY <1>3, <1>6, <1>7
-----------------------------------------------------------------------------
(* The first result other than the usual one. *)
LEMMA FirstOtherIs ==
  ASSUME NEW E, NEW results \in Seq(E), NEW usual
  PROVE  \/ FirstOther(results, usual) = usual /\ \A r \in ToSet(results) : r = usual
         \/ FirstOther(results, usual) # usual /\ FirstOther(results, usual) \in ToSet(results)
<1> DEFINE I == {i \in 1 .. Len(results) : results[i] # usual}
           k == SelectInSeq(results, LAMBDA r : r # usual)
<1>1. k = IF I # {} THEN Min(I) ELSE 0
  BY DEF SelectInSeq
<1>2. I \in SUBSET Nat /\ Len(results) \in Nat /\ DOMAIN results = 1 .. Len(results)
  OBVIOUS
<1>3. FirstOther(results, usual) = IF k = 0 THEN usual ELSE results[k]
  BY DEF FirstOther
<1> HIDE DEF k
<1>4. CASE I = {}
  <2>1. FirstOther(results, usual) = usual
    BY <1>1, <1>3, <1>4
  <2>2. \A i \in DOMAIN results : results[i] = usual
    BY <1>2, <1>4
  <2> QED
    BY <2>1, <2>2 DEF ToSet
<1>5. CASE I # {}
  <2> HIDE DEF I
  <2>1. k \in I
    BY <1>1, <1>2, <1>5, MinIs
  <2>2. k \in DOMAIN results /\ k # 0 /\ results[k] # usual
    BY <2>1, <1>2 DEF I
  <2>3. FirstOther(results, usual) = results[k]
    BY <2>2, <1>3
  <2> QED
    BY <2>2, <2>3 DEF ToSet
<1> QED
  BY <1>4, <1>5
-----------------------------------------------------------------------------
(* Predicates as trees.                                                    *)
LEMMA KindOf ==
  ASSUME NEW e \in Expressions
  PROVE  \/ e.kind \in {"and", "or"} /\ e.terms \in Seq(Expressions)
         \/ e.kind = "not" /\ e.term \in Expressions
         \/ e.kind \in {"time", "value", "label", "null", "other"} /\ e \in Leaves
<1>1. IsTerm(e)
  BY NativeAssumption
<1>2. CASE e \in [kind : {"and", "or"}, terms : Seq(Expressions)]
  BY <1>2
<1>3. CASE e \in [kind : {"not"}, term : Expressions]
  BY <1>3
<1>4. CASE e \in Leaves
  <2>1. e.kind \in {"time", "value", "label", "null", "other"}
    BY <1>4 DEF Leaves
  <2> QED
    BY <2>1, <1>4
<1> QED
  BY <1>1, <1>2, <1>3, <1>4 DEF IsTerm

LEMMA BelowIs ==
  ASSUME NEW e
  PROVE  /\ e.kind \in {"and", "or"} => Below(e) = ToSet(e.terms)
         /\ e.kind = "not" => Below(e) = {e.term}
         /\ e.kind \notin {"and", "or", "not"} => Below(e) = {}
BY DEF Below

LEMMA BelowType ==
  ASSUME NEW e \in Expressions, NEW d \in Below(e)
  PROVE  d \in Expressions /\ Depth[e] \in Nat /\ Depth[d] \in Nat /\ Depth[d] < Depth[e]
<1>1. CASE e.kind \in {"and", "or"} /\ e.terms \in Seq(Expressions)
  <2>1. \A q \in Seq(Expressions) : \A x \in ToSet(q) : x \in Expressions
    BY DEF ToSet
  <2>2. d \in Expressions
    BY <1>1, <2>1, BelowIs
  <2> QED
    BY <2>2, DepthAssumption
<1>2. CASE e.kind = "not" /\ e.term \in Expressions
  <2>1. d \in Expressions
    BY <1>2, BelowIs
  <2> QED
    BY <2>1, DepthAssumption
<1>3. CASE e.kind \in {"time", "value", "label", "null", "other"}
  <2>1. e.kind \notin {"and", "or", "not"}
    BY <1>3
  <2> QED
    BY <2>1, BelowIs
<1> QED
  BY <1>1, <1>2, <1>3, KindOf

(* Induction: T is the set of the predicates of which the fact holds. *)
LEMMA TreeInduct ==
  ASSUME NEW T, \A e \in Expressions : (\A d \in Below(e) : d \in T) => e \in T
  PROVE  \A e \in Expressions : e \in T
<1> DEFINE K == {Depth[e] : e \in Expressions \ T}
<1>1. SUFFICES ASSUME K # {} PROVE FALSE
  OBVIOUS
<1>2. K \in SUBSET Nat
  BY DepthAssumption
<1>3. PICK k \in K : \A j \in K : k <= j
  <2> HIDE DEF K
  <2> QED
    BY <1>1, <1>2, Least
<1>4. PICK e \in Expressions \ T : Depth[e] = k
  OBVIOUS
<1>5. \A d \in Below(e) : d \in T
  <2>1. TAKE d \in Below(e)
  <2>2. d \in Expressions /\ Depth[e] \in Nat /\ Depth[d] \in Nat /\ Depth[d] < Depth[e]
    BY BelowType
  <2>3. Depth[d] \notin K
    <3> HIDE DEF K
    <3> QED
      BY <2>2, <1>3, <1>4
  <2> QED
    BY <2>2, <2>3
<1> QED
  BY <1>4, <1>5

(* Recursion: rule makes a function of one, at each predicate by what that *)
(* one says of those below.                                                *)
IsLocal(rule, V) ==
  /\ rule \in [[Expressions -> V] -> [Expressions -> V]]
  /\ \A f, g \in [Expressions -> V] : \A e \in Expressions :
       (\A d \in Below(e) : f[d] = g[d]) => rule[f][e] = rule[g][e]

(* f is right for all predicates of a depth less than n. *)
Solves(f, rule, n) ==
  \A e \in Expressions : Depth[e] < n => f[e] = rule[f][e]

LEMMA SolvesMore ==
  ASSUME NEW V, NEW rule, IsLocal(rule, V), NEW n \in Nat, NEW f \in [Expressions -> V],
         Solves(f, rule, n)
  PROVE  rule[f] \in [Expressions -> V] /\ Solves(rule[f], rule, n + 1)
<1>1. rule[f] \in [Expressions -> V]
  BY DEF IsLocal
<1>2. ASSUME NEW e \in Expressions, Depth[e] < n + 1
      PROVE  rule[f][e] = rule[rule[f]][e]
  <2>1. \A d \in Below(e) : f[d] = rule[f][d]
    <3>1. TAKE d \in Below(e)
    <3>2. d \in Expressions /\ Depth[d] < n
      BY <1>2, BelowType
    <3> QED
      BY <3>2 DEF Solves
  <2> QED
    BY <2>1, <1>1 DEF IsLocal
<1> QED
  BY <1>1, <1>2 DEF Solves

LEMMA SolvesSome ==
  ASSUME NEW V, V # {}, NEW rule, IsLocal(rule, V), NEW n \in Nat
  PROVE  \E f \in [Expressions -> V] : Solves(f, rule, n)
<1> DEFINE T == {k \in 0 .. n : \E f \in [Expressions -> V] : Solves(f, rule, k)}
<1>1. 0 \in T
  <2>1. PICK v \in V : TRUE
    OBVIOUS
  <2>2. [e \in Expressions |-> v] \in [Expressions -> V]
    OBVIOUS
  <2>3. \A e \in Expressions : ~ (Depth[e] < 0)
    BY DepthAssumption
  <2>4. Solves([e \in Expressions |-> v], rule, 0)
    BY <2>3 DEF Solves
  <2> QED
    BY <2>2, <2>4
<1>2. ASSUME NEW k \in 1 .. n, k - 1 \in T PROVE k \in T
  <2>1. PICK f \in [Expressions -> V] : Solves(f, rule, k - 1)
    BY <1>2
  <2>2. k - 1 \in Nat /\ (k - 1) + 1 = k /\ k \in 0 .. n
    OBVIOUS
  <2>3. rule[f] \in [Expressions -> V] /\ Solves(rule[f], rule, (k - 1) + 1)
    BY <2>1, <2>2, SolvesMore
  <2> QED
    BY <2>2, <2>3
<1>3. \A k \in 0 .. n : k \in T
  <2> HIDE DEF T
  <2> QED
    BY <1>1, <1>2, Induct
<1>4. n \in 0 .. n
  OBVIOUS
<1> QED
  BY <1>3, <1>4

LEMMA SolvesOne ==
  ASSUME NEW V, NEW rule, IsLocal(rule, V), NEW m \in Nat, NEW n \in Nat,
         NEW f \in [Expressions -> V], NEW g \in [Expressions -> V],
         Solves(f, rule, m), Solves(g, rule, n)
  PROVE  \A e \in Expressions : Depth[e] < m /\ Depth[e] < n => f[e] = g[e]
<1> DEFINE T == {e \in Expressions : Depth[e] < m /\ Depth[e] < n => f[e] = g[e]}
<1>1. ASSUME NEW e \in Expressions, \A d \in Below(e) : d \in T PROVE e \in T
  <2>1. SUFFICES ASSUME Depth[e] < m, Depth[e] < n PROVE f[e] = g[e]
    OBVIOUS
  <2>2. \A d \in Below(e) : f[d] = g[d]
    <3>1. TAKE d \in Below(e)
    <3>2. Depth[d] < m /\ Depth[d] < n
      BY <2>1, BelowType
    <3> QED
      BY <3>2, <1>1
  <2>3. rule[f][e] = rule[g][e]
    BY <2>2 DEF IsLocal
  <2> QED
    BY <2>1, <2>3 DEF Solves
<1>2. \A e \in Expressions : e \in T
  <2> HIDE DEF T
  <2> QED
    BY <1>1, TreeInduct
<1> QED
  BY <1>2

LEMMA TreeRecursion ==
  ASSUME NEW V, V # {}, NEW rule, IsLocal(rule, V)
  PROVE  \E f \in [Expressions -> V] : f = rule[f]
<1> DEFINE W == [Expressions -> V]
           F(n) == CHOOSE f : f \in W /\ Solves(f, rule, n)
           h == [e \in Expressions |-> F(Depth[e] + 1)[e]]
<1>1. \A n \in Nat : F(n) \in W /\ Solves(F(n), rule, n)
  <2>1. TAKE n \in Nat
  <2>2. \E f : f \in W /\ Solves(f, rule, n)
    BY SolvesSome
  <2> HIDE DEF W
  <2> QED
    BY <2>2
<1> HIDE DEF F
<1>2. \A e \in Expressions : Depth[e] \in Nat /\ Depth[e] + 1 \in Nat /\ Depth[e] < Depth[e] + 1
  BY DepthAssumption
<1>3. h \in W
  BY <1>1, <1>2
<1>4. rule[h] \in W
  BY <1>3 DEF IsLocal
<1>5. ASSUME NEW e \in Expressions PROVE h[e] = rule[h][e]
  <2> DEFINE f == F(Depth[e] + 1)
  <2>1. f \in W /\ Solves(f, rule, Depth[e] + 1) /\ h[e] = f[e]
    BY <1>1, <1>2
  <2>2. \A d \in Below(e) : f[d] = h[d]
    <3>1. TAKE d \in Below(e)
    <3> DEFINE g == F(Depth[d] + 1)
    <3>2. d \in Expressions /\ Depth[d] < Depth[e]
      BY BelowType
    <3>3. g \in W /\ Solves(g, rule, Depth[d] + 1) /\ h[d] = g[d]
      BY <3>2, <1>1, <1>2
    <3>4. Depth[d] < Depth[e] + 1
      BY <3>2, <1>2
    <3> HIDE DEF g, f, h
    <3>5. f[d] = g[d]
      BY <3>2, <3>3, <3>4, <2>1, <1>2, SolvesOne
    <3> QED
      BY <3>3, <3>5
  <2>3. f[e] = rule[f][e]
    BY <2>1, <1>2 DEF Solves
  <2> HIDE DEF f, h
  <2>4. rule[f][e] = rule[h][e]
    BY <2>1, <2>2, <1>3 DEF IsLocal
  <2> QED
    BY <2>1, <2>3, <2>4
<1> HIDE DEF h
<1>6. h = rule[h]
  BY <1>3, <1>4, <1>5
<1> QED
  BY <1>3, <1>6
-----------------------------------------------------------------------------
(* What the walks over a predicate make of it, by its kind.                *)
InnerAt(inner, e) == {e} \cup UNION {inner[d] : d \in Below(e)}

LEMMA InnerIs ==
  /\ Inner \in [Expressions -> SUBSET Expressions]
  /\ \A e \in Expressions : Inner[e] = InnerAt(Inner, e)
<1> DEFINE V == SUBSET Expressions
           W == [Expressions -> V]
           rule == [f \in W |-> [e \in Expressions |-> InnerAt(f, e)]]
           Good(g) == g = [e \in Expressions |-> InnerAt(g, e)]
<1>1. \A f \in W : \A e \in Expressions : InnerAt(f, e) \in V
  BY BelowType DEF InnerAt
<1>2. \A f, g \in W : \A e \in Expressions :
        (\A d \in Below(e) : f[d] = g[d]) => InnerAt(f, e) = InnerAt(g, e)
  BY DEF InnerAt
<1>3. IsLocal(rule, V)
  BY <1>1, <1>2 DEF IsLocal
<1>4. PICK f \in W : f = rule[f]
  <2> HIDE DEF rule
  <2> QED
    BY <1>3, TreeRecursion
<1>5. Good(f)
  BY <1>4
<1>6. Inner = CHOOSE g : Good(g)
  BY DEF Inner, InnerAt
<1>7. Good(Inner)
  <2> HIDE DEF Good
  <2> QED
    BY <1>5, <1>6
<1>8. \A e \in Expressions : Inner[e] = InnerAt(Inner, e)
  <2> HIDE DEF W, V, rule
  <2> QED
    BY <1>7
<1>9. Inner = [e \in Expressions |-> Inner[e]]
  <2> HIDE DEF W, V, rule
  <2> QED
    BY <1>7
<1> DEFINE T == {e \in Expressions : Inner[e] \in V}
<1>10. ASSUME NEW e \in Expressions, \A d \in Below(e) : d \in T PROVE e \in T
  BY <1>8, <1>10 DEF InnerAt
<1>11. \A e \in Expressions : e \in T
  <2> HIDE DEF T
  <2> QED
    BY <1>10, TreeInduct
<1> QED
  BY <1>8, <1>9, <1>11

LEMMA InnerFacts ==
  ASSUME NEW e \in Expressions
  PROVE  /\ e \in Inner[e] /\ Inner[e] \in SUBSET Expressions
         /\ \A d \in Below(e) : d \in Expressions /\ Inner[d] \in SUBSET Inner[e]
BY InnerIs, BelowType DEF InnerAt

MeansAt(means, label, v, e) ==
  CASE e.kind = "and"   -> \A i \in DOMAIN e.terms : means[e.terms[i]]
    [] e.kind = "or"    -> \E i \in DOMAIN e.terms : means[e.terms[i]]
    [] e.kind = "not"   -> ~means[e.term]
    [] e.kind = "time"  -> TRUE
    [] e.kind = "null"  -> e.of = "label" /\ label = 0
    [] e.kind = "value" -> e.bound = << >> \/ Compares(e.op, v, e.bound[1])
    [] e.kind = "label" ->
         \/ e.op = "_in"  /\ (e.accept = << >> \/ label \in e.accept[1])
         \/ e.op = "_nin" /\ (e.accept = << >> \/ label \notin e.accept[1])
    [] OTHER -> FALSE

LEMMA MeansLocal ==
  ASSUME NEW label, NEW v, NEW f, NEW g, NEW e \in Expressions,
         \A d \in Below(e) : f[d] = g[d]
  PROVE  MeansAt(f, label, v, e) = MeansAt(g, label, v, e)
<1>1. CASE e.kind \in {"and", "or"} /\ e.terms \in Seq(Expressions)
  <2>1. \A i \in DOMAIN e.terms : f[e.terms[i]] = g[e.terms[i]]
    BY <1>1, BelowIs DEF ToSet
  <2>2. (\A i \in DOMAIN e.terms : f[e.terms[i]]) <=> (\A i \in DOMAIN e.terms : g[e.terms[i]])
    BY <2>1
  <2>3. (\E i \in DOMAIN e.terms : f[e.terms[i]]) <=> (\E i \in DOMAIN e.terms : g[e.terms[i]])
    BY <2>1
  <2> QED
    BY <1>1, <2>2, <2>3 DEF MeansAt
<1>2. CASE e.kind = "not"
  <2>1. f[e.term] = g[e.term]
    BY <1>2, BelowIs
  <2> QED
    BY <1>2, <2>1 DEF MeansAt
<1>3. CASE e.kind \in {"time", "value", "label", "null", "other"}
  BY <1>3 DEF MeansAt
<1> QED
  BY <1>1, <1>2, <1>3, KindOf

LEMMA MeansIs ==
  ASSUME NEW label, NEW v
  PROVE  /\ Means(label, v) \in [Expressions -> BOOLEAN]
         /\ \A e \in Expressions :
              Means(label, v)[e] = MeansAt(Means(label, v), label, v, e)
<1> DEFINE V == BOOLEAN
           W == [Expressions -> V]
           rule == [f \in W |-> [e \in Expressions |-> MeansAt(f, label, v, e)]]
           Good(g) == g = [e \in Expressions |-> MeansAt(g, label, v, e)]
           m == Means(label, v)
<1>1. \A f : \A e \in Expressions : MeansAt(f, label, v, e) \in V
  BY KindOf DEF MeansAt
<1>2. \A f, g \in W : \A e \in Expressions :
        (\A d \in Below(e) : f[d] = g[d])
          => MeansAt(f, label, v, e) = MeansAt(g, label, v, e)
  BY MeansLocal
<1>3. IsLocal(rule, V)
  BY <1>1, <1>2 DEF IsLocal
<1>4. PICK f \in W : f = rule[f]
  <2> HIDE DEF rule
  <2> QED
    BY <1>3, TreeRecursion
<1>5. Good(f)
  BY <1>4
<1>6. m = CHOOSE g : Good(g)
  BY DEF Means, MeansAt
<1>7. Good(m)
  <2> HIDE DEF Good, m
  <2> QED
    BY <1>5, <1>6
<1> HIDE DEF m, rule, W
<1>8. \A e \in Expressions : m[e] = MeansAt(m, label, v, e)
  BY <1>7
<1>9. m = [e \in Expressions |-> m[e]]
  BY <1>7
<1>10. \A e \in Expressions : m[e] \in BOOLEAN
  BY <1>1, <1>8
<1>11. m \in [Expressions -> BOOLEAN]
  BY <1>9, <1>10
<1> QED
  BY <1>8, <1>11 DEF m

Verdicts == {"yes", "no", "error"}

ResultsOf(valid, e) == [i \in DOMAIN e.terms |-> valid[e.terms[i]]]

ValidAt(valid, label, v, e) ==
  CASE e.kind = "and" -> FirstOther(ResultsOf(valid, e), "yes")
    [] e.kind = "or" ->
         IF e.terms = << >> THEN "yes" ELSE FirstOther(ResultsOf(valid, e), "no")
    [] e.kind = "not" ->
         IF valid[e.term] = "error" THEN "error" ELSE Answered(valid[e.term] = "no")
    [] e.kind = "value" -> ValidValue(e, v)
    [] e.kind = "label" -> ValidLabel(e, label)
    [] e.kind = "null"  -> ValidNull(e, label)
    [] e.kind = "time"  -> ValidTime(e)
    [] e.kind = "other" -> "error"

LEMMA ValidLocal ==
  ASSUME NEW label, NEW v, NEW f, NEW g, NEW e \in Expressions,
         \A d \in Below(e) : f[d] = g[d]
  PROVE  ValidAt(f, label, v, e) = ValidAt(g, label, v, e)
<1>1. CASE e.kind \in {"and", "or"} /\ e.terms \in Seq(Expressions)
  <2>1. \A i \in DOMAIN e.terms : f[e.terms[i]] = g[e.terms[i]]
    BY <1>1, BelowIs DEF ToSet
  <2>2. ResultsOf(f, e) = ResultsOf(g, e)
    BY <2>1 DEF ResultsOf
  <2> QED
    BY <1>1, <2>2 DEF ValidAt
<1>2. CASE e.kind = "not"
  <2>1. f[e.term] = g[e.term]
    BY <1>2, BelowIs
  <2> QED
    BY <1>2, <2>1 DEF ValidAt
<1>3. CASE e.kind \in {"time", "value", "label", "null", "other"}
  BY <1>3 DEF ValidAt
<1> QED
  BY <1>1, <1>2, <1>3, KindOf

LEMMA ResultsType ==
  ASSUME NEW f \in [Expressions -> Verdicts], NEW e \in Expressions, e.terms \in Seq(Expressions)
  PROVE  /\ ResultsOf(f, e) \in Seq(Verdicts)
         /\ DOMAIN ResultsOf(f, e) = DOMAIN e.terms
         /\ \A i \in DOMAIN e.terms : /\ e.terms[i] \in Expressions
                                      /\ e.terms[i] \in ToSet(e.terms)
                                      /\ ResultsOf(f, e)[i] = f[e.terms[i]]
BY DEF ResultsOf, ToSet

LEMMA AnsweredType == \A b : Answered(b) \in Verdicts
BY DEF Answered, Verdicts

LEMMA FirstOtherType ==
  ASSUME NEW f \in [Expressions -> Verdicts], NEW e \in Expressions,
         e.terms \in Seq(Expressions), NEW usual \in Verdicts
  PROVE  FirstOther(ResultsOf(f, e), usual) \in Verdicts
<1>1. ResultsOf(f, e) \in Seq(Verdicts)
  BY ResultsType
<1>2. \A x \in ToSet(ResultsOf(f, e)) : x \in Verdicts
  BY <1>1 DEF ToSet
<1> QED
  BY <1>1, <1>2, FirstOtherIs

LEMMA ValidType ==
  ASSUME NEW label, NEW v, NEW f \in [Expressions -> Verdicts], NEW e \in Expressions
  PROVE  ValidAt(f, label, v, e) \in Verdicts
<1>1. CASE e.kind \in {"and", "or"} /\ e.terms \in Seq(Expressions)
  <2>1. "yes" \in Verdicts /\ "no" \in Verdicts
    BY DEF Verdicts
  <2>2. FirstOther(ResultsOf(f, e), "yes") \in Verdicts
    BY <1>1, <2>1, FirstOtherType
  <2>3. FirstOther(ResultsOf(f, e), "no") \in Verdicts
    BY <1>1, <2>1, FirstOtherType
  <2> QED
    BY <1>1, <2>1, <2>2, <2>3 DEF ValidAt
<1>2. CASE e.kind = "not"
  BY <1>2, AnsweredType DEF ValidAt, Verdicts
<1>3. CASE e.kind \in {"time", "value", "label", "null", "other"}
  <2>1. ValidValue(e, v) \in Verdicts
    BY AnsweredType DEF ValidValue, Verdicts
  <2>2. ValidLabel(e, label) \in Verdicts
    BY AnsweredType DEF ValidLabel, Verdicts
  <2>3. ValidTime(e) \in Verdicts
    BY AnsweredType DEF ValidTime, Verdicts
  <2>4. ValidNull(e, label) \in Verdicts
    BY AnsweredType DEF ValidNull, Verdicts
  <2>5. "error" \in Verdicts
    BY DEF Verdicts
  <2> QED
    BY <1>3, <2>1, <2>2, <2>3, <2>4, <2>5 DEF ValidAt
<1> QED
  BY <1>1, <1>2, <1>3, KindOf

LEMMA ValidIs ==
  ASSUME NEW label, NEW v
  PROVE  /\ Valid(label, v) \in [Expressions -> Verdicts]
         /\ \A e \in Expressions :
              Valid(label, v)[e] = ValidAt(Valid(label, v), label, v, e)
<1> DEFINE V == Verdicts
           W == [Expressions -> V]
           rule == [f \in W |-> [e \in Expressions |-> ValidAt(f, label, v, e)]]
           Good(g) == g = [e \in Expressions |-> ValidAt(g, label, v, e)]
           m == Valid(label, v)
<1>1. \A f \in W : \A e \in Expressions : ValidAt(f, label, v, e) \in V
  BY ValidType
<1>2. \A f, g \in W : \A e \in Expressions :
        (\A d \in Below(e) : f[d] = g[d])
          => ValidAt(f, label, v, e) = ValidAt(g, label, v, e)
  BY ValidLocal
<1>3. IsLocal(rule, V)
  BY <1>1, <1>2 DEF IsLocal
<1>4. V # {}
  BY DEF Verdicts
<1>5. PICK f \in W : f = rule[f]
  <2> HIDE DEF rule, V
  <2> QED
    BY <1>3, <1>4, TreeRecursion
<1>6. Good(f)
  BY <1>5
<1>7. m = CHOOSE g : Good(g)
  BY DEF Valid, ValidAt, ResultsOf
<1>8. Good(m)
  <2> HIDE DEF Good, m
  <2> QED
    BY <1>6, <1>7
<1> HIDE DEF m, rule, W, V
<1>9. \A e \in Expressions : m[e] = ValidAt(m, label, v, e)
  BY <1>8
<1>10. m = [e \in Expressions |-> m[e]]
  BY <1>8
<1>11. \A e \in Expressions : m[e] \in V
  <2> DEFINE T == {e \in Expressions : m[e] \in V}
             h == [e \in Expressions |-> IF e \in T THEN m[e] ELSE "no"]
  <2>1. h \in W
    BY DEF V, W, Verdicts
  <2>2. ASSUME NEW e \in Expressions, \A d \in Below(e) : d \in T PROVE e \in T
    <3>1. \A d \in Below(e) : m[d] = h[d]
      BY <2>2, BelowType
    <3> HIDE DEF h
    <3>2. ValidAt(m, label, v, e) = ValidAt(h, label, v, e)
      BY <3>1, ValidLocal
    <3> QED
      BY <1>1, <1>9, <2>1, <3>2
  <2> HIDE DEF T
  <2>3. \A e \in Expressions : e \in T
    BY <2>2, TreeInduct
  <2> QED
    BY <2>3 DEF T
<1>12. m \in [Expressions -> Verdicts]
  BY <1>10, <1>11 DEF V
<1> QED
  BY <1>9, <1>12 DEF m
-----------------------------------------------------------------------------
LeftAt(left, e) == FlattenSeq([i \in DOMAIN e.terms |-> left[e.terms[i]]])

StrippedAt(left, e) ==
  IF e.kind \in {"and", "or"} THEN <<[e EXCEPT !.terms = LeftAt(left, e)]>>
  ELSE IF e.kind = "time" THEN << >> ELSE <<e>>

LEMMA StrippedLocal ==
  ASSUME NEW f, NEW g, NEW e \in Expressions, \A d \in Below(e) : f[d] = g[d]
  PROVE  StrippedAt(f, e) = StrippedAt(g, e)
<1>1. CASE e.kind \in {"and", "or"} /\ e.terms \in Seq(Expressions)
  <2>1. \A i \in DOMAIN e.terms : f[e.terms[i]] = g[e.terms[i]]
    BY <1>1, BelowIs DEF ToSet
  <2>2. [i \in DOMAIN e.terms |-> f[e.terms[i]]] = [i \in DOMAIN e.terms |-> g[e.terms[i]]]
    BY <2>1
  <2>3. LeftAt(f, e) = LeftAt(g, e)
    BY <2>2 DEF LeftAt
  <2> QED
    BY <2>3 DEF StrippedAt
<1>2. CASE e.kind \notin {"and", "or"}
  BY <1>2 DEF StrippedAt
<1> QED
  BY <1>1, <1>2, KindOf

(* The walk has no set of results that is closed, so that the function is  *)
(* found here as in TreeRecursion, without one.                            *)
Strips(f, n) == \A e \in Expressions : Depth[e] < n => f[e] = StrippedAt(f, e)

LEMMA StripsMore ==
  ASSUME NEW n \in Nat, NEW f, Strips(f, n)
  PROVE  Strips([e \in Expressions |-> StrippedAt(f, e)], n + 1)
<1> DEFINE g == [e \in Expressions |-> StrippedAt(f, e)]
<1>1. ASSUME NEW e \in Expressions, Depth[e] < n + 1 PROVE StrippedAt(f, e) = StrippedAt(g, e)
  <2>1. \A d \in Below(e) : f[d] = g[d]
    <3>1. TAKE d \in Below(e)
    <3>2. d \in Expressions /\ Depth[d] < n
      BY <1>1, BelowType
    <3> QED
      BY <3>2 DEF Strips
  <2> HIDE DEF g
  <2> QED
    BY <2>1, StrippedLocal
<1> QED
  BY <1>1 DEF Strips

LEMMA StripsSome ==
  ASSUME NEW n \in Nat
  PROVE  \E f : Strips(f, n)
<1> DEFINE T == {k \in 0 .. n : \E f : Strips(f, k)}
<1>1. 0 \in T
  <2>1. \A e \in Expressions : ~ (Depth[e] < 0)
    BY DepthAssumption
  <2>2. Strips(Stripped, 0)
    BY <2>1 DEF Strips
  <2> QED
    BY <2>2
<1>2. ASSUME NEW k \in 1 .. n, k - 1 \in T PROVE k \in T
  <2>1. PICK f : Strips(f, k - 1)
    BY <1>2
  <2>2. k - 1 \in Nat /\ (k - 1) + 1 = k /\ k \in 0 .. n
    OBVIOUS
  <2>3. Strips([e \in Expressions |-> StrippedAt(f, e)], (k - 1) + 1)
    BY <2>1, <2>2, StripsMore
  <2> QED
    BY <2>2, <2>3
<1>3. \A k \in 0 .. n : k \in T
  <2> HIDE DEF T
  <2> QED
    BY <1>1, <1>2, Induct
<1>4. n \in 0 .. n
  OBVIOUS
<1> QED
  BY <1>3, <1>4

LEMMA StripsOne ==
  ASSUME NEW m \in Nat, NEW n \in Nat, NEW f, NEW g, Strips(f, m), Strips(g, n)
  PROVE  \A e \in Expressions : Depth[e] < m /\ Depth[e] < n => f[e] = g[e]
<1> DEFINE T == {e \in Expressions : Depth[e] < m /\ Depth[e] < n => f[e] = g[e]}
<1>1. ASSUME NEW e \in Expressions, \A d \in Below(e) : d \in T PROVE e \in T
  <2>1. SUFFICES ASSUME Depth[e] < m, Depth[e] < n PROVE f[e] = g[e]
    OBVIOUS
  <2>2. \A d \in Below(e) : f[d] = g[d]
    <3>1. TAKE d \in Below(e)
    <3>2. Depth[d] < m /\ Depth[d] < n
      BY <2>1, BelowType
    <3> QED
      BY <3>2, <1>1
  <2>3. StrippedAt(f, e) = StrippedAt(g, e)
    BY <2>2, StrippedLocal
  <2> QED
    BY <2>1, <2>3 DEF Strips
<1>2. \A e \in Expressions : e \in T
  <2> HIDE DEF T
  <2> QED
    BY <1>1, TreeInduct
<1> QED
  BY <1>2

LEMMA StrippedIs == \A e \in Expressions : Stripped[e] = StrippedAt(Stripped, e)
<1> DEFINE F(n) == CHOOSE f : Strips(f, n)
           h == [e \in Expressions |-> F(Depth[e] + 1)[e]]
           Good(g) == g = [e \in Expressions |-> StrippedAt(g, e)]
<1>1. \A n \in Nat : Strips(F(n), n)
  BY StripsSome
<1> HIDE DEF F
<1>2. \A e \in Expressions : Depth[e] \in Nat /\ Depth[e] + 1 \in Nat /\ Depth[e] < Depth[e] + 1
  BY DepthAssumption
<1>3. ASSUME NEW e \in Expressions PROVE h[e] = StrippedAt(h, e)
  <2> DEFINE f == F(Depth[e] + 1)
  <2>1. Strips(f, Depth[e] + 1) /\ h[e] = f[e]
    BY <1>1, <1>2
  <2>2. \A d \in Below(e) : f[d] = h[d]
    <3>1. TAKE d \in Below(e)
    <3> DEFINE g == F(Depth[d] + 1)
    <3>2. d \in Expressions /\ Depth[d] < Depth[e]
      BY BelowType
    <3>3. Strips(g, Depth[d] + 1) /\ h[d] = g[d]
      BY <3>2, <1>1, <1>2
    <3>4. Depth[d] < Depth[e] + 1
      BY <3>2, <1>2
    <3> HIDE DEF g, f, h
    <3>5. f[d] = g[d]
      BY <3>2, <3>3, <3>4, <2>1, <1>2, StripsOne
    <3> QED
      BY <3>3, <3>5
  <2>3. f[e] = StrippedAt(f, e)
    BY <2>1, <1>2 DEF Strips
  <2> HIDE DEF f, h
  <2>4. StrippedAt(f, e) = StrippedAt(h, e)
    BY <2>2, StrippedLocal
  <2> QED
    BY <2>1, <2>3, <2>4
<1>4. Good(h)
  BY <1>3
<1>5. Stripped = CHOOSE g : Good(g)
  BY DEF Stripped, StrippedAt, LeftAt
<1>6. Good(Stripped)
  <2> HIDE DEF Good, h
  <2> QED
    BY <1>4, <1>5
<1> QED
  BY <1>6

LEMMA StrippedKinds ==
  ASSUME NEW e \in Expressions
  PROVE  /\ Stripped[e] \in Seq(Expressions)
         /\ e.kind \in {"and", "or"} =>
              /\ e.terms \in Seq(Expressions)
              /\ Stripped[e] = <<Stripped[e][1]>>
              /\ Stripped[e][1] \in Expressions
              /\ Stripped[e][1].kind = e.kind
              /\ Stripped[e][1].terms = LeftAt(Stripped, e)
         /\ e.kind = "time" => Stripped[e] = << >>
         /\ e.kind \notin {"and", "or", "time"} => Stripped[e] = <<e>>
<1>1. Stripped[e] = StrippedAt(Stripped, e) /\ Stripped[e] \in Seq(Expressions)
  BY StrippedIs, StrippedAssumption
<1>2. ASSUME e.kind \in {"and", "or"}
      PROVE  /\ e.terms \in Seq(Expressions)
             /\ Stripped[e] = <<Stripped[e][1]>>
             /\ Stripped[e][1] \in Expressions
             /\ Stripped[e][1].kind = e.kind
             /\ Stripped[e][1].terms = LeftAt(Stripped, e)
  <2>1. e \in [kind : {"and", "or"}, terms : Seq(Expressions)]
    BY <1>2, NativeAssumption DEF IsTerm, Leaves
  <2> DEFINE left == LeftAt(Stripped, e)
             d == [e EXCEPT !.terms = left]
  <2>2. d.kind = e.kind /\ d.terms = left
    BY <2>1
  <2>3. Stripped[e] = <<d>>
    BY <1>1, <1>2 DEF StrippedAt
  <2>4. 1 \in DOMAIN Stripped[e] /\ Stripped[e][1] = d
    BY <2>3
  <2>5. d \in Expressions
    BY <2>4, <1>1, ElementType
  <2> HIDE DEF d
  <2> QED
    BY <2>1, <2>2, <2>3, <2>4, <2>5
<1>3. e.kind = "time" => Stripped[e] = << >>
  BY <1>1 DEF StrippedAt
<1>4. e.kind \notin {"and", "or", "time"} => Stripped[e] = <<e>>
  BY <1>1 DEF StrippedAt
<1> QED
  BY <1>1, <1>2, <1>3, <1>4

LEMMA LeftElements ==
  ASSUME NEW e \in Expressions, e.kind \in {"and", "or"}, NEW x
  PROVE  x \in ToSet(LeftAt(Stripped, e))
           <=> \E i \in DOMAIN e.terms : Stripped[e.terms[i]] # << >> /\ x = Stripped[e.terms[i]][1]
<1> DEFINE parts == [i \in DOMAIN e.terms |-> Stripped[e.terms[i]]]
<1>1. e.terms \in Seq(Expressions)
  BY StrippedKinds
<1> DEFINE q == e.terms
<1>2. \A i \in DOMAIN q : q[i] \in Expressions
  <2>1. q \in Seq(Expressions)
    BY <1>1
  <2> HIDE DEF q
  <2> QED
    BY <2>1, ElementType
<1>3. parts \in Seq(Seq(Expressions)) /\ DOMAIN parts = DOMAIN e.terms
  BY <1>1, <1>2, StrippedKinds
<1>4. x \in ToSet(FlattenSeq(parts)) <=> \E i \in DOMAIN parts : x \in ToSet(parts[i])
  <2> HIDE DEF parts
  <2> QED
    BY <1>3, FlattenElements
<1>5. ASSUME NEW i \in DOMAIN e.terms
      PROVE  x \in ToSet(parts[i])
               <=> Stripped[e.terms[i]] # << >> /\ x = Stripped[e.terms[i]][1]
  <2> DEFINE d == e.terms[i]
  <2>1. Stripped[d] = << >> \/ Stripped[d] = <<Stripped[d][1]>>
    <3>1. d \in Expressions
      BY <1>2
    <3> HIDE DEF d
    <3>2. d.kind \in {"and", "or"} => Stripped[d] = <<Stripped[d][1]>>
      BY <3>1, StrippedKinds
    <3>3. d.kind = "time" => Stripped[d] = << >>
      BY <3>1, StrippedKinds
    <3>4. ASSUME d.kind \notin {"and", "or", "time"} PROVE Stripped[d] = <<Stripped[d][1]>>
      <4>1. Stripped[d] = <<d>>
        BY <3>1, <3>4, StrippedKinds
      <4>2. \A y : <<y>>[1] = y
        OBVIOUS
      <4> QED
        BY <4>1, <4>2
    <3> QED
      BY <3>2, <3>3, <3>4
  <2>2. parts[i] = Stripped[d]
    OBVIOUS
  <2>3. ToSet(<< >>) = {} /\ \A y : ToSet(<<y>>) = {y} /\ <<y>> # << >>
    BY DEF ToSet
  <2> HIDE DEF d, parts
  <2>4. x \in ToSet(Stripped[d]) <=> Stripped[d] # << >> /\ x = Stripped[d][1]
    <3>1. CASE Stripped[d] = << >>
      BY <2>3, <3>1
    <3>2. CASE Stripped[d] = <<Stripped[d][1]>>
      <4>1. ToSet(Stripped[d]) = {Stripped[d][1]} /\ Stripped[d] # << >>
        BY <2>3, <3>2
      <4> QED
        BY <4>1
    <3> QED
      BY <2>1, <3>1, <3>2
  <2> QED
    BY <2>2, <2>4 DEF d
<1> QED
  BY <1>3, <1>4, <1>5 DEF LeftAt
-----------------------------------------------------------------------------
(* The filter decides what the predicate means.                            *)
LEMMA ResultFound ==
  ASSUME NEW f \in [Expressions -> Verdicts], NEW e \in Expressions,
         e.terms \in Seq(Expressions), NEW usual
  PROVE  LET r == FirstOther(ResultsOf(f, e), usual)
         IN \/ r = usual /\ \A x \in ToSet(e.terms) : f[x] = usual
            \/ r # usual /\ \E x \in ToSet(e.terms) : f[x] = r
<1> DEFINE results == ResultsOf(f, e)
           r == FirstOther(results, usual)
<1>1. /\ results \in Seq(Verdicts) /\ DOMAIN results = DOMAIN e.terms
      /\ \A i \in DOMAIN e.terms : e.terms[i] \in ToSet(e.terms) /\ results[i] = f[e.terms[i]]
  BY ResultsType
<1>2. \A y : y \in ToSet(results) <=> \E x \in ToSet(e.terms) : y = f[x]
  <2> HIDE DEF results
  <2>1. \A y : y \in ToSet(results) <=> \E i \in DOMAIN e.terms : y = f[e.terms[i]]
    <3>1. \A y : y \in ToSet(results) <=> \E i \in DOMAIN results : y = results[i]
      BY DEF ToSet
    <3>2. DOMAIN results = DOMAIN e.terms
          /\ \A i \in DOMAIN e.terms : results[i] = f[e.terms[i]]
      BY <1>1
    <3> QED
      BY <3>1, <3>2
  <2>2. \A y : y \in ToSet(e.terms) <=> \E i \in DOMAIN e.terms : y = e.terms[i]
    BY DEF ToSet
  <2> QED
    BY <2>1, <2>2
<1>3. \/ r = usual /\ \A y \in ToSet(results) : y = usual
      \/ r # usual /\ r \in ToSet(results)
  <2> HIDE DEF results
  <2> QED
    BY <1>1, FirstOtherIs
<1> QED
  BY <1>2, <1>3

IsTold(e) ==
  \A p \in Inner[e] : /\ p.kind # "time" /\ (p.kind = "or" => p.terms # << >>)
                      /\ p.kind = "null" => p.of # "own"

Decided(verdict, means) == verdict # "error" => ((verdict = "yes") <=> means)

(* A comparison of the value or of a label. *)
LEMMA LeafDecided ==
  ASSUME NEW label, NEW v, NEW f, NEW g, NEW e \in Expressions,
         e.kind \in {"value", "label", "null", "other"}, e.kind = "null" => e.of # "own"
  PROVE  Decided(ValidAt(f, label, v, e), MeansAt(g, label, v, e))
<1>0. \A b : (Answered(b) = "yes") <=> b
  BY DEF Answered
<1>1. CASE e.kind = "value"
  <2>1. ValidAt(f, label, v, e) = ValidValue(e, v)
    BY <1>1 DEF ValidAt
  <2>2. MeansAt(g, label, v, e) <=> (e.bound = << >> \/ Compares(e.op, v, e.bound[1]))
    BY <1>1 DEF MeansAt
  <2>3. ASSUME e.ok, e.bound # << >>, e.op \in TimeOps \cup {"_neq"}
        PROVE  (ValidValue(e, v) = "yes") <=> Compares(e.op, v, e.bound[1])
    <3>1. ValidValue(e, v) = Answered(Compares(e.op, v, e.bound[1]))
      BY <2>3 DEF ValidValue
    <3> QED
      BY <3>1, <1>0
  <2>4. e.ok /\ e.bound = << >> => ValidValue(e, v) = "yes"
    BY DEF ValidValue
  <2>6. ~e.ok => ValidValue(e, v) = "error"
    BY DEF ValidValue
  <2>5. e.ok /\ e.bound # << >> /\ e.op \notin TimeOps \cup {"_neq"} => ValidValue(e, v) = "error"
    BY DEF ValidValue
  <2> QED
    BY <2>1, <2>2, <2>3, <2>4, <2>5, <2>6 DEF Decided
<1>2. CASE e.kind = "label"
  <2>1. ValidAt(f, label, v, e) = ValidLabel(e, label)
    BY <1>2 DEF ValidAt
  <2>2. ValidLabel(e, label) # "error" =>
        ((ValidLabel(e, label) = "yes")
          <=> \/ e.op = "_in"  /\ (e.accept = << >> \/ label \in e.accept[1])
              \/ e.op = "_nin" /\ (e.accept = << >> \/ label \notin e.accept[1]))
    BY DEF ValidLabel, Answered
  <2>3. MeansAt(g, label, v, e)
          <=> \/ e.op = "_in"  /\ (e.accept = << >> \/ label \in e.accept[1])
              \/ e.op = "_nin" /\ (e.accept = << >> \/ label \notin e.accept[1])
    BY <1>2 DEF MeansAt
  <2> QED
    BY <2>1, <2>2, <2>3 DEF Decided
<1>3. CASE e.kind = "null"
  <2>1. ValidAt(f, label, v, e) = ValidNull(e, label)
    BY <1>3 DEF ValidAt
  <2>2. MeansAt(g, label, v, e) <=> e.of = "label" /\ label = 0
    BY <1>3 DEF MeansAt
  <2>3. e.of \in {"label", "none"}
    <3>1. e \in Leaves
      BY <1>3, KindOf
    <3>2. e.of \in {"label", "own", "none"}
      BY <3>1, <1>3 DEF Leaves
    <3> QED
      BY <3>2, <1>3
  <2>4. CASE e.of = "none"
    BY <2>1, <2>4 DEF ValidNull, Decided
  <2>5. CASE e.of = "label"
    <3>1. ValidNull(e, label) = Answered(label = 0)
      BY <2>5 DEF ValidNull
    <3> QED
      BY <1>0, <2>1, <2>2, <2>5, <3>1 DEF Decided
  <2> QED
    BY <2>3, <2>4, <2>5
<1>4. CASE e.kind = "other"
  BY <1>4 DEF ValidAt, Decided
<1> QED
  BY <1>1, <1>2, <1>3, <1>4

LEMMA ToldDecided ==
  ASSUME NEW label, NEW v
  PROVE  \A e \in Expressions : IsTold(e) => Decided(Valid(label, v)[e], Means(label, v)[e])
<1> DEFINE f == Valid(label, v)
           m == Means(label, v)
           T == {e \in Expressions : IsTold(e) => Decided(f[e], m[e])}
<1>1. /\ f \in [Expressions -> Verdicts]
      /\ \A e \in Expressions : f[e] = ValidAt(f, label, v, e)
      /\ \A e \in Expressions : m[e] = MeansAt(m, label, v, e)
  BY ValidIs, MeansIs
<1> HIDE DEF f, m
<1>2. ASSUME NEW e \in Expressions, \A d \in Below(e) : d \in T PROVE e \in T
  <2>1. SUFFICES ASSUME IsTold(e) PROVE Decided(f[e], m[e])
    OBVIOUS
  <2>2. \A d \in Below(e) : d \in Expressions /\ Decided(f[d], m[d])
    <3>1. TAKE d \in Below(e)
    <3>2. d \in Expressions /\ IsTold(d)
      BY <2>1, InnerFacts DEF IsTold
    <3> QED
      BY <3>2, <1>2
  <2>3. CASE e.kind = "and" /\ e.terms \in Seq(Expressions)
    <3>1. \A x \in ToSet(e.terms) : x \in Expressions /\ Decided(f[x], m[x])
      BY <2>2, <2>3, BelowIs
    <3>2. f[e] = FirstOther(ResultsOf(f, e), "yes")
      BY <1>1, <2>3 DEF ValidAt
    <3>3. m[e] <=> \A x \in ToSet(e.terms) : m[x]
      <4>1. m[e] <=> \A i \in DOMAIN e.terms : m[e.terms[i]]
        BY <1>1, <2>3 DEF MeansAt
      <4> QED
        BY <4>1 DEF ToSet
    <3>4. \/ f[e] = "yes" /\ \A x \in ToSet(e.terms) : f[x] = "yes"
          \/ f[e] # "yes" /\ \E x \in ToSet(e.terms) : f[x] = f[e]
      BY <1>1, <2>3, <3>2, ResultFound
    <3> QED
      BY <3>1, <3>3, <3>4 DEF Decided
  <2>4. CASE e.kind = "or" /\ e.terms \in Seq(Expressions)
    <3>1. \A x \in ToSet(e.terms) : x \in Expressions /\ Decided(f[x], m[x])
      BY <2>2, <2>4, BelowIs
    <3>2. f[e] = FirstOther(ResultsOf(f, e), "no")
      <4>1. e.terms # << >>
        BY <2>1, <2>4, InnerFacts DEF IsTold
      <4> QED
        BY <4>1, <1>1, <2>4 DEF ValidAt
    <3>3. m[e] <=> \E x \in ToSet(e.terms) : m[x]
      <4>1. m[e] <=> \E i \in DOMAIN e.terms : m[e.terms[i]]
        BY <1>1, <2>4 DEF MeansAt
      <4> QED
        BY <4>1 DEF ToSet
    <3>4. \/ f[e] = "no" /\ \A x \in ToSet(e.terms) : f[x] = "no"
          \/ f[e] # "no" /\ \E x \in ToSet(e.terms) : f[x] = f[e]
      BY <1>1, <2>4, <3>2, ResultFound
    <3>5. f[e] \in Verdicts
      BY <1>1
    <3> QED
      BY <3>1, <3>3, <3>4, <3>5 DEF Decided, Verdicts
  <2>5. CASE e.kind = "not" /\ e.term \in Expressions
    <3>1. Decided(f[e.term], m[e.term])
      BY <2>2, <2>5, BelowIs
    <3>2. f[e] = IF f[e.term] = "error" THEN "error" ELSE Answered(f[e.term] = "no")
      BY <1>1, <2>5 DEF ValidAt
    <3>3. m[e] <=> ~ m[e.term]
      BY <1>1, <2>5 DEF MeansAt
    <3>4. f[e.term] \in Verdicts
      BY <1>1, <2>5
    <3> QED
      BY <3>1, <3>2, <3>3, <3>4 DEF Decided, Verdicts, Answered
  <2>6. CASE e.kind \in {"time", "value", "label", "null", "other"}
    <3>1. e.kind # "time"
      BY <2>1, InnerFacts DEF IsTold
    <3>2. e.kind \in {"value", "label", "null", "other"}
      BY <2>6, <3>1
    <3>3. e.kind = "null" => e.of # "own"
      BY <2>1, InnerFacts DEF IsTold
    <3> QED
      BY <1>1, <3>2, <3>3, LeafDecided
  <2> QED
    BY <2>3, <2>4, <2>5, <2>6, KindOf
<1>3. \A e \in Expressions : e \in T
  <2> HIDE DEF T
  <2> QED
    BY <1>2, TreeInduct
<1> QED
  BY <1>3 DEF f, m

(* A predicate whose times can be taken out. *)
IsSound(e) ==
  /\ \A p \in Inner[e] : p.kind = "or" =>
       p.terms # << >> /\ \A i \in DOMAIN p.terms : p.terms[i].kind # "time"
  /\ \A p \in Inner[e] : p.kind = "not" => \A q \in Inner[p.term] : q.kind # "time"
  /\ \A p \in Inner[e] : p.kind = "null" => p.of # "own"

Kept(valid, e) == IF Stripped[e] = << >> THEN "yes" ELSE valid[Stripped[e][1]]

LEMMA SoundBelow ==
  ASSUME NEW e \in Expressions, IsSound(e), NEW d \in Below(e)
  PROVE  d \in Expressions /\ IsSound(d)
BY InnerFacts DEF IsSound

LEMMA SoundTold ==
  ASSUME NEW e \in Expressions, IsSound(e), e.kind \notin {"and", "or", "time"}
  PROVE  IsTold(e)
<1>1. CASE e.kind = "not" /\ e.term \in Expressions
  <2>1. \A q \in Inner[e.term] : q.kind # "time"
    BY <1>1, InnerFacts DEF IsSound
  <2>2. Inner[e] = {e} \cup Inner[e.term]
    BY <1>1, InnerIs, BelowIs DEF InnerAt
  <2> QED
    BY <1>1, <2>1, <2>2 DEF IsSound, IsTold
<1>2. CASE e.kind \in {"value", "label", "null", "other"}
  <2>1. Inner[e] = {e}
    BY <1>2, InnerIs, BelowIs DEF InnerAt
  <2> QED
    BY <1>2, <2>1 DEF IsSound, IsTold
<1> QED
  BY <1>1, <1>2, KindOf

LEMMA SoundDecided ==
  ASSUME NEW label, NEW v
  PROVE  \A e \in Expressions :
           IsSound(e) => Decided(Kept(Valid(label, v), e), Means(label, v)[e])
<1> DEFINE f == Valid(label, v)
           m == Means(label, v)
           T == {e \in Expressions : IsSound(e) => Decided(Kept(f, e), m[e])}
<1>1. /\ f \in [Expressions -> Verdicts]
      /\ \A e \in Expressions : f[e] = ValidAt(f, label, v, e)
      /\ \A e \in Expressions : m[e] = MeansAt(m, label, v, e)
  BY ValidIs, MeansIs
<1>0. \A e \in Expressions : IsTold(e) => Decided(f[e], m[e])
  BY ToldDecided
<1> HIDE DEF f, m
<1>2. ASSUME NEW e \in Expressions, \A d \in Below(e) : d \in T PROVE e \in T
  <2>1. SUFFICES ASSUME IsSound(e) PROVE Decided(Kept(f, e), m[e])
    OBVIOUS
  <2>2. \A d \in Below(e) : d \in Expressions /\ Decided(Kept(f, d), m[d])
    BY <1>2, <2>1, SoundBelow
  <2>3. CASE e.kind \in {"and", "or"} /\ e.terms \in Seq(Expressions)
    <3> DEFINE d == Stripped[e][1]
    <3>1. \A i \in DOMAIN e.terms :
            e.terms[i] \in Expressions /\ Decided(Kept(f, e.terms[i]), m[e.terms[i]])
      BY <2>2, <2>3, BelowIs DEF ToSet
    <3>2. d \in Expressions /\ d.kind = e.kind /\ d.terms = LeftAt(Stripped, e)
            /\ Stripped[e] = <<d>>
      BY <2>3, StrippedKinds
    <3>3. \A x : x \in ToSet(d.terms)
            <=> \E i \in DOMAIN e.terms :
                  Stripped[e.terms[i]] # << >> /\ x = Stripped[e.terms[i]][1]
      BY <2>3, <3>2, LeftElements
    <3>4. Kept(f, e) = f[d]
      BY <3>2 DEF Kept
    <3>5. d.terms \in Seq(Expressions)
      BY <2>3, <3>2, StrippedKinds
    <3> HIDE DEF d
    <3>6. CASE e.kind = "and"
      <4>1. f[d] = FirstOther(ResultsOf(f, d), "yes")
        BY <1>1, <3>2, <3>6 DEF ValidAt
      <4>2. \/ f[d] = "yes" /\ \A x \in ToSet(d.terms) : f[x] = "yes"
            \/ f[d] # "yes" /\ \E x \in ToSet(d.terms) : f[x] = f[d]
        BY <1>1, <3>2, <3>5, <4>1, ResultFound
      <4>3. m[e] <=> \A i \in DOMAIN e.terms : m[e.terms[i]]
        BY <1>1, <3>6 DEF MeansAt
      <4>4. CASE f[d] = "yes" /\ \A x \in ToSet(d.terms) : f[x] = "yes"
        <5>1. \A i \in DOMAIN e.terms : Kept(f, e.terms[i]) = "yes"
          BY <3>3, <4>4 DEF Kept
        <5> QED
          BY <3>1, <3>4, <4>3, <4>4, <5>1 DEF Decided
      <4>5. CASE f[d] # "yes" /\ \E x \in ToSet(d.terms) : f[x] = f[d]
        <5>1. PICK i \in DOMAIN e.terms : Kept(f, e.terms[i]) = f[d]
          BY <3>3, <4>5 DEF Kept
        <5> QED
          BY <3>1, <3>4, <4>3, <4>5, <5>1 DEF Decided
      <4> QED
        BY <4>2, <4>4, <4>5
    <3>7. CASE e.kind = "or"
      <4>1. e.terms # << >> /\ \A i \in DOMAIN e.terms : e.terms[i].kind # "time"
        BY <2>1, <3>7, InnerFacts DEF IsSound
      <4>2. \A i \in DOMAIN e.terms : Stripped[e.terms[i]] # << >>
        <5>1. TAKE i \in DOMAIN e.terms
        <5> DEFINE t == e.terms[i]
        <5>2. t \in Expressions /\ t.kind # "time"
          BY <3>1, <4>1
        <5> HIDE DEF t
        <5>3. Stripped[t] # << >>
          <6>1. \A y : <<y>> # << >>
            OBVIOUS
          <6> QED
            BY <5>2, <6>1, StrippedKinds
        <5> QED
          BY <5>3 DEF t
      <4>3. 1 \in DOMAIN e.terms
        BY <2>3, <4>1
      <4>4. d.terms # << >>
        <5>1. Stripped[e.terms[1]][1] \in ToSet(d.terms)
          BY <3>3, <4>2, <4>3
        <5> QED
          BY <5>1 DEF ToSet
      <4>5. f[d] = FirstOther(ResultsOf(f, d), "no")
        BY <1>1, <3>2, <3>7, <4>4 DEF ValidAt
      <4>6. \/ f[d] = "no" /\ \A x \in ToSet(d.terms) : f[x] = "no"
            \/ f[d] # "no" /\ \E x \in ToSet(d.terms) : f[x] = f[d]
        BY <1>1, <3>2, <3>5, <4>5, ResultFound
      <4>7. m[e] <=> \E i \in DOMAIN e.terms : m[e.terms[i]]
        BY <1>1, <3>7 DEF MeansAt
      <4>8. \A i \in DOMAIN e.terms : Kept(f, e.terms[i]) = f[Stripped[e.terms[i]][1]]
        BY <4>2 DEF Kept
      <4>9. CASE f[d] = "no" /\ \A x \in ToSet(d.terms) : f[x] = "no"
        <5>1. \A i \in DOMAIN e.terms : Kept(f, e.terms[i]) = "no"
          BY <3>3, <4>2, <4>8, <4>9
        <5> QED
          BY <3>1, <3>4, <4>7, <4>9, <5>1 DEF Decided
      <4>10. CASE f[d] # "no" /\ \E x \in ToSet(d.terms) : f[x] = f[d]
        <5>1. PICK i \in DOMAIN e.terms : Kept(f, e.terms[i]) = f[d]
          BY <3>3, <4>8, <4>10
        <5>2. f[d] \in Verdicts
          BY <1>1, <3>2
        <5> QED
          BY <3>1, <3>4, <4>7, <4>10, <5>1, <5>2 DEF Decided, Verdicts
      <4> QED
        BY <4>6, <4>9, <4>10
    <3> QED
      BY <2>3, <3>6, <3>7
  <2>4. CASE e.kind = "time"
    <3>1. Kept(f, e) = "yes"
      BY <2>4, StrippedKinds DEF Kept
    <3>2. m[e]
      BY <1>1, <2>4 DEF MeansAt
    <3> QED
      BY <3>1, <3>2 DEF Decided
  <2>5. CASE e.kind \notin {"and", "or", "time"}
    <3>1. IsTold(e)
      BY <2>1, <2>5, SoundTold
    <3>2. Stripped[e] = <<e>>
      BY <2>5, StrippedKinds
    <3>3. Kept(f, e) = f[e]
      BY <3>2 DEF Kept
    <3> QED
      BY <1>0, <3>1, <3>3
  <2> QED
    BY <2>3, <2>4, <2>5, KindOf
<1>3. \A e \in Expressions : e \in T
  <2> HIDE DEF T
  <2> QED
    BY <1>2, TreeInduct
<1> QED
  BY <1>3 DEF f, m

(* Without a comparison of the value, every sample of a series means the same. *)
LEMMA ValueUnseen ==
  ASSUME NEW label, NEW v, NEW w
  PROVE  \A e \in Expressions :
           (\A p \in Inner[e] : p.kind # "value") => Means(label, v)[e] = Means(label, w)[e]
<1> DEFINE f == Means(label, v)
           g == Means(label, w)
           T == {e \in Expressions : (\A p \in Inner[e] : p.kind # "value") => f[e] = g[e]}
<1>1. \A e \in Expressions : f[e] = MeansAt(f, label, v, e) /\ g[e] = MeansAt(g, label, w, e)
  BY MeansIs
<1> HIDE DEF f, g
<1>2. ASSUME NEW e \in Expressions, \A d \in Below(e) : d \in T PROVE e \in T
  <2>1. SUFFICES ASSUME \A p \in Inner[e] : p.kind # "value" PROVE f[e] = g[e]
    OBVIOUS
  <2>2. \A d \in Below(e) : f[d] = g[d]
    BY <1>2, <2>1, InnerFacts
  <2>3. MeansAt(f, label, v, e) = MeansAt(g, label, v, e)
    BY <2>2, MeansLocal
  <2>4. e.kind # "value"
    BY <2>1, InnerFacts
  <2>5. MeansAt(g, label, v, e) = MeansAt(g, label, w, e)
    BY <2>4 DEF MeansAt
  <2> QED
    BY <1>1, <2>3, <2>5
<1>3. \A e \in Expressions : e \in T
  <2> HIDE DEF T
  <2> QED
    BY <1>2, TreeInduct
<1> QED
  BY <1>3 DEF f, g
-----------------------------------------------------------------------------
(* The samples that have some values. *)
PartsWith(samples, values) ==
  [j \in DOMAIN samples |-> IF samples[j].value \in values THEN <<samples[j]>> ELSE << >>]

LEMMA WithParts ==
  ASSUME NEW samples \in Seq(Sample), NEW values
  PROVE  /\ PartsWith(samples, values) \in Seq(Seq(Sample))
         /\ DOMAIN PartsWith(samples, values) = DOMAIN samples
         /\ Len(PartsWith(samples, values)) = Len(samples)
         /\ WithValues(samples, values) = FlattenSeq(PartsWith(samples, values))
         /\ \A j \in DOMAIN samples :
              /\ samples[j] \in Sample /\ samples[j].value \in Values
              /\ PartsWith(samples, values)[j] =
                   IF samples[j].value \in values THEN <<samples[j]>> ELSE << >>
<1>1. \A j \in DOMAIN samples : samples[j] \in Sample
  OBVIOUS
<1>2. \A x \in Sample : x.value \in Values
  BY DEF Sample
<1>3. \A j \in DOMAIN samples :
        (IF samples[j].value \in values THEN <<samples[j]>> ELSE << >>) \in Seq(Sample)
  BY <1>1
<1>4. PartsWith(samples, values) \in Seq(Seq(Sample))
  <2> DEFINE parts == PartsWith(samples, values)
  <2>1. DOMAIN parts = DOMAIN samples /\ parts = [j \in DOMAIN samples |-> parts[j]]
    BY DEF PartsWith
  <2>2. \A j \in DOMAIN samples : parts[j] \in Seq(Sample)
    BY <1>3 DEF PartsWith
  <2> HIDE DEF parts
  <2>3. DOMAIN samples = 1 .. Len(samples) /\ Len(samples) \in Nat
    BY SeqDomain
  <2>4. parts \in Seq(Seq(Sample))
    BY <2>1, <2>2, <2>3
  <2> QED
    BY <2>4 DEF parts
<1> QED
  BY <1>1, <1>2, <1>4 DEF PartsWith, WithValues

LEMMA WithSame ==
  ASSUME NEW samples \in Seq(Sample), NEW S, NEW T,
         \A j \in DOMAIN samples : samples[j].value \in S <=> samples[j].value \in T
  PROVE  WithValues(samples, S) = WithValues(samples, T)
<1>1. PartsWith(samples, S) = PartsWith(samples, T)
  BY DEF PartsWith
<1> QED
  BY <1>1, WithParts

LEMMA WithAll ==
  ASSUME NEW samples \in Seq(Sample), NEW S, \A j \in DOMAIN samples : samples[j].value \in S
  PROVE  WithValues(samples, S) = samples
<1> DEFINE parts == PartsWith(samples, S)
<1>1. /\ parts \in Seq(Seq(Sample)) /\ Len(parts) = Len(samples)
      /\ WithValues(samples, S) = FlattenSeq(parts)
      /\ \A j \in DOMAIN samples : parts[j] = <<samples[j]>>
  BY WithParts
<1> HIDE DEF parts
<1> QED
  BY <1>1, FlattenSingles

LEMMA WithNone ==
  ASSUME NEW samples \in Seq(Sample), NEW S, \A j \in DOMAIN samples : samples[j].value \notin S
  PROVE  WithValues(samples, S) = << >>
<1> DEFINE parts == PartsWith(samples, S)
<1>1. /\ parts \in Seq(Seq(Sample)) /\ WithValues(samples, S) = FlattenSeq(parts)
      /\ \A j \in DOMAIN parts : parts[j] = << >>
  BY WithParts
<1> HIDE DEF parts
<1> QED
  BY <1>1, FlattenEmpty

LEMMA WithType ==
  ASSUME NEW samples \in Seq(Sample), NEW S
  PROVE  WithValues(samples, S) \in Seq(Sample)
BY WithParts, FlattenType
-----------------------------------------------------------------------------
(* What the filter leaves of each series, and what it is to leave.         *)
Meets(s, v) ==
  request.predicate = << >> \/ Means(s.label, v)[request.predicate[1]]

MeantPart(s) == WithValues(s.samples, {v \in Values : Meets(s, v)})

MeantSeries(s) ==
  IF MeantPart(s) = << >> THEN << >> ELSE <<[s EXCEPT !.samples = MeantPart(s)]>>

FilterPart(s) == IF call[1].api = "query" THEN FilterSample(s) ELSE FilterSeries(s)

FailsOn(s) ==
  IF call[1].api = "query" \/ hasValue
  THEN \E j \in DOMAIN s.samples : ValidItem(s, s.samples[j].value) = "error"
  ELSE ValidItem(s, 0) = "error"

LEMMA PartsAre ==
  /\ Meant = FlattenSeq([i \in DOMAIN answer |-> MeantSeries(answer[i])])
  /\ \A a : Filter(a) = FlattenSeq([i \in DOMAIN a |-> FilterPart(a[i])])
  /\ \A a : FilterFails(a) <=> \E i \in DOMAIN a : FailsOn(a[i])
<1>1. Meant = FlattenSeq([i \in DOMAIN answer |-> MeantSeries(answer[i])])
  BY DEF Meant, MeantSeries, MeantPart, Meets
<1>2. \A a : Filter(a) = FlattenSeq([i \in DOMAIN a |-> FilterPart(a[i])])
  BY DEF Filter, FilterPart
<1>3. \A a : FilterFails(a) <=> \E i \in DOMAIN a : FailsOn(a[i])
  BY DEF FilterFails, FailsOn
<1> QED
  BY <1>1, <1>2, <1>3

(* A series with other samples. *)
LEMMA Refilled ==
  ASSUME NEW s \in Series, NEW q \in Seq(Sample), q # << >>
  PROVE  /\ [s EXCEPT !.samples = q] \in Series
         /\ [s EXCEPT !.samples = q].label = s.label
         /\ [s EXCEPT !.samples = q].bare = s.bare
         /\ [s EXCEPT !.samples = q].samples = q
         /\ q = s.samples => [s EXCEPT !.samples = q] = s
<1>1. q \in Samples \ {<< >>}
  BY DEF Samples
<1> QED
  BY <1>1 DEF Series

LEMMA FilterPartType ==
  ASSUME NEW s \in Series
  PROVE  \/ FilterPart(s) = << >>
         \/ \E t \in Series : /\ FilterPart(s) = <<t>>
                              /\ t.label = s.label /\ t.bare = s.bare
                              /\ call[1].api = "query" => t = s
<1>1. CASE call[1].api = "query" \/ ~hasValue
  BY <1>1 DEF FilterPart, FilterSample, FilterSeries
<1>2. CASE ~ (call[1].api = "query" \/ ~hasValue)
  <2> DEFINE left == WithValues(s.samples, {v \in Values : ValidItem(s, v) = "yes"})
  <2>1. left \in Seq(Sample)
    BY SeriesType, WithType
  <2>2. FilterPart(s) = IF left = << >> THEN << >> ELSE <<[s EXCEPT !.samples = left]>>
    BY <1>2 DEF FilterPart, FilterSeries
  <2> HIDE DEF left
  <2>3. CASE left = << >>
    BY <2>2, <2>3
  <2>4. CASE left # << >>
    <3> DEFINE t == [s EXCEPT !.samples = left]
    <3>1. t \in Series /\ t.label = s.label /\ t.bare = s.bare
      BY <2>1, <2>4, Refilled
    <3>2. FilterPart(s) = <<t>>
      BY <2>2, <2>4
    <3> HIDE DEF t
    <3> QED
      BY <1>2, <3>1, <3>2
  <2> QED
    BY <2>3, <2>4
<1> QED
  BY <1>1, <1>2

LEMMA FilterType ==
  ASSUME NEW a \in Seq(Series), NEW E \in SUBSET Series,
         call[1].api = "query" => a \in Seq(E),
         call[1].api # "query" => E = Series
  PROVE  Filter(a) \in Seq(E)
<1> DEFINE parts == [i \in DOMAIN a |-> FilterPart(a[i])]
<1>1. \A i \in DOMAIN a : a[i] \in Series /\ (call[1].api = "query" => a[i] \in E)
  OBVIOUS
<1>2. \A i \in DOMAIN a : FilterPart(a[i]) \in Seq(E)
  <2>1. TAKE i \in DOMAIN a
  <2> DEFINE s == a[i]
  <2>2. s \in Series /\ (call[1].api = "query" => s \in E)
    BY <1>1
  <2> HIDE DEF s
  <2>3. CASE FilterPart(s) = << >>
    BY <2>3 DEF s
  <2>4. CASE FilterPart(s) # << >>
    <3>1. PICK t \in Series : FilterPart(s) = <<t>> /\ (call[1].api = "query" => t = s)
      BY <2>2, <2>4, FilterPartType
    <3>2. t \in E
      BY <2>2, <3>1
    <3> QED
      BY <3>1, <3>2 DEF s
  <2> QED
    BY <2>3, <2>4
<1>3. parts \in Seq(Seq(E))
  BY <1>2
<1> HIDE DEF parts
<1>4. FlattenSeq(parts) \in Seq(E)
  BY <1>3, FlattenType
<1> QED
  BY <1>4, PartsAre DEF parts
-----------------------------------------------------------------------------
(* What is left of the predicate is as good as the predicate. *)
LEMMA PageType ==
  ASSUME TypeOK
  PROVE  /\ request.order.by \in Orders /\ request.offset \in Nat
         /\ request.limit \in Pointers(Nat)
<1>1. request \in Request
  BY NativeAssumption DEF TypeOK
<1>2. /\ request.order \in [ok : BOOLEAN, by : Orders]
      /\ request.offset \in Nat /\ request.limit \in Pointers(Nat)
  BY <1>1 DEF Request
<1>3. request.order.by \in Orders
  <2> HIDE DEF Orders
  <2> QED
    BY <1>2
<1> QED
  BY <1>2, <1>3

AllFilterable == \A i \in DOMAIN request.predicate : Filterable(request.predicate[i])

LEMMA ItemDecided ==
  ASSUME TypeOK, FilterHeld, request.kind = "native", stage # "predicate", AllFilterable,
         NEW s, NEW v
  PROVE  Decided(ValidItem(s, v), Meets(s, v))
<1>1. request.predicate \in Pointers(Expressions)
  BY RequestType
<1>2. CASE request.predicate = << >>
  <2>1. expression = << >>
    BY <1>2 DEF FilterHeld
  <2>2. ValidItem(s, v) = "yes"
    BY <2>1 DEF ValidItem
  <2> QED
    BY <1>2, <2>2 DEF Decided, Meets
<1>3. CASE request.predicate # << >>
  <2> DEFINE e == request.predicate[1]
             valid == Valid(s.label, v)
  <2>1. e \in Expressions /\ DOMAIN request.predicate = {1}
    BY <1>1, <1>3, PointerType
  <2>2. IsSound(e)
    BY <2>1 DEF AllFilterable, Filterable, IsSound
  <2>3. expression = Stripped[e]
    BY <1>3 DEF FilterHeld
  <2>4. Meets(s, v) <=> Means(s.label, v)[e]
    BY <1>3 DEF Meets
  <2> HIDE DEF e
  <2>5. ValidItem(s, v) = Kept(valid, e)
    BY <2>3 DEF ValidItem, Kept
  <2>6. Decided(Kept(valid, e), Means(s.label, v)[e])
    BY <2>1, <2>2, SoundDecided
  <2> QED
    BY <2>4, <2>5, <2>6 DEF Decided
<1> QED
  BY <1>2, <1>3

LEMMA ItemSteady ==
  ASSUME TypeOK, FilterHeld, request.kind = "native", stage # "predicate", AllFilterable,
         call[1].api # "query", ~hasValue, NEW s, NEW v, NEW w
  PROVE  Meets(s, v) <=> Meets(s, w)
<1>1. request.predicate \in Pointers(Expressions)
  BY RequestType
<1>2. CASE request.predicate = << >>
  BY <1>2 DEF Meets
<1>3. CASE request.predicate # << >>
  <2> DEFINE e == request.predicate[1]
  <2>1. e \in Expressions /\ DOMAIN request.predicate = {1}
    BY <1>1, <1>3, PointerType
  <2>2. ~ \E i \in DOMAIN Terms : Terms[i].kind = "value"
    BY DEF FilterHeld
  <2>3. \A p \in Inner[e] : p.kind # "value"
    BY <2>1, <2>2 DEF AllFilterable, Filterable
  <2>4. \A x : Meets(s, x) <=> Means(s.label, x)[e]
    BY <1>3 DEF Meets
  <2> HIDE DEF e
  <2> QED
    BY <2>1, <2>3, <2>4, ValueUnseen
<1> QED
  BY <1>2, <1>3

LEMMA PartMeant ==
  ASSUME TypeOK, FilterHeld, request.kind = "native", stage # "predicate", AllFilterable,
         NEW s \in Series, ~FailsOn(s), call[1].api = "query" => Len(s.samples) = 1
  PROVE  FilterPart(s) = MeantSeries(s)
<1> DEFINE yes == {v \in Values : ValidItem(s, v) = "yes"}
           met == {v \in Values : Meets(s, v)}
           q == s.samples
<1>1. q \in Seq(Sample) /\ q # << >> /\ \A j \in DOMAIN q : q[j].value \in Values
  BY SeriesType, WithParts
<1>2. \A v : Decided(ValidItem(s, v), Meets(s, v))
  BY ItemDecided
<1>3. MeantSeries(s) = IF WithValues(q, met) = << >> THEN << >>
                       ELSE <<[s EXCEPT !.samples = WithValues(q, met)]>>
  BY DEF MeantSeries, MeantPart
<1>4. [s EXCEPT !.samples = q] = s
  BY <1>1, Refilled
<1>5. CASE call[1].api # "query" /\ hasValue
  <2>1. \A j \in DOMAIN q : ValidItem(s, q[j].value) # "error"
    BY <1>5 DEF FailsOn
  <2>2. \A j \in DOMAIN q : q[j].value \in yes <=> q[j].value \in met
    BY <1>1, <1>2, <2>1 DEF Decided
  <2>3. WithValues(q, yes) = WithValues(q, met)
    <3> HIDE DEF yes, met, q
    <3> QED
      BY <1>1, <2>2, WithSame
  <2>4. FilterPart(s) = IF WithValues(q, yes) = << >> THEN << >>
                        ELSE <<[s EXCEPT !.samples = WithValues(q, yes)]>>
    BY <1>5 DEF FilterPart, FilterSeries
  <2> QED
    BY <1>3, <2>3, <2>4
<1>6. ASSUME NEW b \in BOOLEAN, \A j \in DOMAIN q : Meets(s, q[j].value) <=> b,
             FilterPart(s) = IF b THEN <<s>> ELSE << >>
      PROVE  FilterPart(s) = MeantSeries(s)
  <2>1. CASE b
    <3>1. \A j \in DOMAIN q : q[j].value \in met
      BY <1>1, <1>6, <2>1
    <3>2. WithValues(q, met) = q
      <4> HIDE DEF met, q
      <4> QED
        BY <1>1, <3>1, WithAll
    <3> QED
      BY <1>1, <1>3, <1>4, <1>6, <2>1, <3>2
  <2>2. CASE ~b
    <3>1. \A j \in DOMAIN q : q[j].value \notin met
      BY <1>6, <2>2
    <3>2. WithValues(q, met) = << >>
      <4> HIDE DEF met, q
      <4> QED
        BY <1>1, <3>1, WithNone
    <3> QED
      BY <1>3, <1>6, <2>2, <3>2
  <2> QED
    BY <2>1, <2>2
<1>7. CASE call[1].api # "query" /\ ~hasValue
  <2>1. ValidItem(s, 0) # "error"
    BY <1>7 DEF FailsOn
  <2>2. FilterPart(s) = IF ValidItem(s, 0) = "yes" THEN <<s>> ELSE << >>
    BY <1>7 DEF FilterPart, FilterSeries
  <2>3. \A v : Meets(s, v) <=> Meets(s, 0)
    BY <1>7, ItemSteady
  <2>4. \A j \in DOMAIN q : Meets(s, q[j].value) <=> (ValidItem(s, 0) = "yes")
    BY <1>2, <2>1, <2>3 DEF Decided
  <2> QED
    BY <1>6, <2>2, <2>4
<1>8. CASE call[1].api = "query"
  <2>1. DOMAIN q = {1}
    <3>1. \A r \in Seq(Sample) : Len(r) = 1 => DOMAIN r = {1}
      OBVIOUS
    <3> QED
      BY <1>1, <1>8, <3>1
  <2>2. ValidItem(s, q[1].value) # "error"
    BY <1>8, <2>1 DEF FailsOn
  <2>3. FilterPart(s) = IF ValidItem(s, q[1].value) = "yes" THEN <<s>> ELSE << >>
    BY <1>8 DEF FilterPart, FilterSample
  <2>4. \A j \in DOMAIN q : Meets(s, q[j].value) <=> (ValidItem(s, q[1].value) = "yes")
    BY <1>2, <2>1, <2>2 DEF Decided
  <2> QED
    BY <1>6, <2>3, <2>4
<1> QED
  BY <1>5, <1>7, <1>8

LEMMA AnswerType == ASSUME TypeOK PROVE answer \in Seq(Series)
<1>1. Answers \subseteq Seq(Series) /\ << >> \in Seq(Series)
  BY NativeAssumption
<1> QED
  BY <1>1 DEF TypeOK

LEMMA FilterMeant ==
  ASSUME TypeOK, FilterHeld, AnsweredHeld, outcome = "answered", request.kind = "native",
         AllFilterable
  PROVE  Filter(answer) = Meant
<1>1. stage # "predicate"
  BY DEF TypeOK
<1>2. answer \in Seq(Series)
  BY AnswerType
<1>3. /\ \A i \in DOMAIN answer : ~FailsOn(answer[i])
      /\ call[1].api = "query" => \A i \in DOMAIN answer : Len(answer[i].samples) = 1
  BY PartsAre DEF AnsweredHeld
<1>4. \A i \in DOMAIN answer : FilterPart(answer[i]) = MeantSeries(answer[i])
  <2>1. TAKE i \in DOMAIN answer
  <2> DEFINE s == answer[i]
  <2>2. s \in Series /\ ~FailsOn(s) /\ (call[1].api = "query" => Len(s.samples) = 1)
    BY <1>2, <1>3
  <2> HIDE DEF s
  <2>3. FilterPart(s) = MeantSeries(s)
    BY <1>1, <2>2, PartMeant
  <2> QED
    BY <2>3 DEF s
<1>5. [i \in DOMAIN answer |-> FilterPart(answer[i])]
        = [i \in DOMAIN answer |-> MeantSeries(answer[i])]
  BY <1>4
<1> QED
  BY <1>5, PartsAre
-----------------------------------------------------------------------------
(* Rows and their pages. *)
Row == [label : Labels \cup {0}, sample : Sample, values : Samples]

FlatRow(s, x) == [label |-> s.label, sample |-> x, values |-> << >>]

GroupRow(s) == [label |-> s.label, sample |-> Last(s.samples), values |-> s.samples]

FlatRows(s) == [j \in DOMAIN s.samples |-> FlatRow(s, s.samples[j])]

LEMMA RowsAre ==
  ASSUME NEW a
  PROVE  Rows(a) = IF IsFlat THEN FlattenSeq([i \in DOMAIN a |-> FlatRows(a[i])])
                   ELSE [i \in DOMAIN a |-> GroupRow(a[i])]
BY DEF Rows, FlatRows, FlatRow, GroupRow

LEMMA SeqLike ==
  ASSUME NEW S, NEW a \in Seq(S), NEW E, NEW q, q = [i \in DOMAIN a |-> q[i]],
         \A i \in DOMAIN a : q[i] \in E
  PROVE  q \in Seq(E) /\ Len(q) = Len(a) /\ DOMAIN q = DOMAIN a
<1>1. DOMAIN a = 1 .. Len(a) /\ Len(a) \in Nat
  BY SeqDomain
<1> QED
  BY <1>1

LEMMA RowType ==
  ASSUME NEW s \in Series
  PROVE  GroupRow(s) \in Row /\ FlatRows(s) \in Seq(Row) /\ Len(FlatRows(s)) = Len(s.samples)
<1>1. s.label \in Labels \cup {0} /\ s.samples \in Samples /\ << >> \in Samples
  BY SeriesType DEF Samples
<1>2. s.samples \in Seq(Sample) /\ s.samples # << >>
  BY SeriesType
<1>3. Last(s.samples) \in Sample
  <2>1. \A q \in Seq(Sample) : q # << >> => q[Len(q)] \in Sample
    OBVIOUS
  <2> QED
    BY <1>2, <2>1 DEF Last
<1>4. GroupRow(s) \in Row
  BY <1>1, <1>3 DEF GroupRow, Row
<1>5. \A x \in Sample : FlatRow(s, x) \in Row
  BY <1>1 DEF FlatRow, Row
<1> DEFINE q == s.samples
<1>6. \A j \in DOMAIN q : FlatRow(s, q[j]) \in Row
  BY <1>2, <1>5
<1>7. FlatRows(s) \in Seq(Row) /\ Len(FlatRows(s)) = Len(q)
  <2> DEFINE r == FlatRows(s)
  <2>2. r = [j \in DOMAIN q |-> r[j]] /\ \A j \in DOMAIN q : r[j] \in Row
    BY <1>6 DEF FlatRows
  <2> HIDE DEF r, q
  <2>3. r \in Seq(Row) /\ Len(r) = Len(q)
    BY <1>2, <2>2, SeqLike DEF q
  <2> QED
    BY <2>3 DEF r, q
<1> QED
  BY <1>4, <1>7

LEMMA RowsType == ASSUME NEW a \in Seq(Series) PROVE Rows(a) \in Seq(Row)
<1>1. \A i \in DOMAIN a : GroupRow(a[i]) \in Row /\ FlatRows(a[i]) \in Seq(Row)
  <2>1. \A i \in DOMAIN a : a[i] \in Series
    OBVIOUS
  <2> QED
    BY <2>1, RowType
<1> DEFINE parts == [i \in DOMAIN a |-> FlatRows(a[i])]
           groups == [i \in DOMAIN a |-> GroupRow(a[i])]
<1>a. parts = [i \in DOMAIN a |-> parts[i]] /\ groups = [i \in DOMAIN a |-> groups[i]]
      /\ \A i \in DOMAIN a : parts[i] \in Seq(Row) /\ groups[i] \in Row
  BY <1>1
<1>2. parts \in Seq(Seq(Row)) /\ groups \in Seq(Row)
  <2> HIDE DEF parts, groups
  <2> QED
    BY <1>a, SeqLike
<1>3. Rows(a) = IF IsFlat THEN FlattenSeq(parts) ELSE groups
  BY RowsAre
<1> HIDE DEF parts, groups
<1>4. FlattenSeq(parts) \in Seq(Row)
  BY <1>2, FlattenType
<1> QED
  BY <1>2, <1>3, <1>4

(* The row of a series with one sample. *)
OneRow(s) == IF IsFlat THEN FlatRow(s, s.samples[1]) ELSE GroupRow(s)

LEMMA RowsOfSingles ==
  ASSUME NEW a \in Seq(Series), \A i \in DOMAIN a : Len(a[i].samples) = 1
  PROVE  Rows(a) = [i \in DOMAIN a |-> OneRow(a[i])]
<1>1. CASE ~IsFlat
  BY <1>1, RowsAre DEF OneRow
<1>2. CASE IsFlat
  <2> DEFINE parts == [i \in DOMAIN a |-> FlatRows(a[i])]
             q == [i \in DOMAIN a |-> FlatRow(a[i], a[i].samples[1])]
  <2>1. ASSUME NEW i \in DOMAIN a
        PROVE  FlatRows(a[i]) = <<FlatRow(a[i], a[i].samples[1])>> /\ FlatRows(a[i]) \in Seq(Row)
    <3> DEFINE s == a[i]
    <3>1. s \in Series /\ Len(s.samples) = 1
      OBVIOUS
    <3> HIDE DEF s
    <3> DEFINE r == FlatRows(s)
    <3>2. r \in Seq(Row) /\ Len(r) = 1
      BY <3>1, RowType
    <3>3. s.samples \in Seq(Sample)
      BY <3>1, SeriesType
    <3>4. 1 \in DOMAIN s.samples
      BY <3>1, <3>3
    <3>5. r[1] = FlatRow(s, s.samples[1])
      BY <3>4 DEF FlatRows
    <3> HIDE DEF r
    <3>6. r = <<r[1]>>
      BY <3>2
    <3> QED
      BY <3>2, <3>5, <3>6 DEF r, s
  <2>2. parts \in Seq(Seq(Row)) /\ Len(parts) = Len(a)
    <3>1. parts = [i \in DOMAIN a |-> parts[i]] /\ \A i \in DOMAIN a : parts[i] \in Seq(Row)
      BY <2>1
    <3> HIDE DEF parts
    <3> QED
      BY <3>1, SeqLike
  <2>3. q \in Seq(Row) /\ Len(q) = Len(a) /\ DOMAIN q = DOMAIN a
    <3>1. \A i \in DOMAIN a : FlatRow(a[i], a[i].samples[1]) \in Row
      <4>1. TAKE i \in DOMAIN a
      <4> DEFINE x == FlatRow(a[i], a[i].samples[1])
      <4>2. <<x>> \in Seq(Row)
        BY <2>1
      <4> HIDE DEF x
      <4>3. x \in Row
        <5>1. 1 \in DOMAIN <<x>> /\ <<x>>[1] = x
          OBVIOUS
        <5> QED
          BY <4>2, <5>1, ElementType
      <4> QED
        BY <4>3 DEF x
    <3> QED
      BY <3>1
  <2>4. \A i \in DOMAIN q : parts[i] = <<q[i]>>
    BY <2>1
  <2>5. Rows(a) = FlattenSeq(parts)
    BY <1>2, RowsAre
  <2>6. q = [i \in DOMAIN a |-> OneRow(a[i])]
    BY <1>2 DEF OneRow
  <2> HIDE DEF parts, q
  <2>7. FlattenSeq(parts) = q
    BY <2>2, <2>3, <2>4, FlattenSingles
  <2> QED
    BY <2>5, <2>6, <2>7
<1> QED
  BY <1>1, <1>2

IsPage(page, all) ==
  LET n == Len(all) - request.offset
  IN /\ Len(page) = IF n <= 0 THEN 0
                    ELSE IF request.limit = << >> \/ request.limit[1] > n
                    THEN n ELSE request.limit[1]
     /\ \A i \in DOMAIN page : page[i] = all[request.offset + i]

LEMMA PageIs ==
  ASSUME TypeOK, NEW E, NEW list \in Seq(E)
  PROVE  /\ Page(list) \in Seq(E) /\ IsPage(Page(list), list)
         /\ \A i \in DOMAIN Page(list) : request.offset + i \in DOMAIN list
<1> DEFINE o == request.offset
           rest == SubSeq(list, o + 1, Len(list))
           n == Len(list) - o
           none == request.limit = << >>
           limit == request.limit[1]
           page == Page(list)
<1>1. o \in Nat /\ (none \/ limit \in Nat)
  BY PageType, PointerType
<1>2. Len(list) \in Nat /\ DOMAIN list = 1 .. Len(list) /\ \A i \in 1 .. Len(list) : list[i] \in E
  OBVIOUS
<1>3. page = IF none \/ limit >= Len(rest) THEN rest ELSE SubSeq(rest, 1, limit)
  BY DEF Page
<1> DEFINE Wanted == IF n <= 0 THEN 0 ELSE IF none \/ limit > n THEN n ELSE limit
<1>4. SUFFICES page \in Seq(E) /\ Len(page) = Wanted
               /\ \A i \in DOMAIN page : page[i] = list[o + i] /\ o + i \in DOMAIN list
  BY DEF IsPage
<1> HIDE DEF o, none, limit, page
<1>5. /\ rest \in Seq(E)
      /\ Len(rest) = IF o + 1 <= Len(list) THEN Len(list) - (o + 1) + 1 ELSE 0
      /\ \A i \in 1 .. Len(list) - (o + 1) + 1 : rest[i] = list[(o + 1) + i - 1]
  <2> DEFINE m == o + 1
             k == Len(list)
  <2>1. m \in Int /\ k \in Int /\ \A i \in m .. k : list[i] \in E
    BY <1>1, <1>2
  <2> HIDE DEF m, k
  <2>2. /\ SubSeq(list, m, k) \in Seq(E)
        /\ Len(SubSeq(list, m, k)) = IF m <= k THEN k - m + 1 ELSE 0
        /\ \A i \in 1 .. k - m + 1 : SubSeq(list, m, k)[i] = list[m + i - 1]
    BY <2>1, SubSeqProperties
  <2> QED
    BY <2>2 DEF m, k
<1> DEFINE l == Len(rest)
<1>6. l = IF n <= 0 THEN 0 ELSE n
  BY <1>1, <1>2, <1>5
<1>7. \A i \in 1 .. l : rest[i] = list[o + i] /\ o + i \in DOMAIN list
  BY <1>1, <1>2, <1>5, <1>6
<1>8. rest \in Seq(E) /\ DOMAIN rest = 1 .. l /\ l \in Nat
  BY <1>5
<1> HIDE DEF l
<1>9. page = IF none \/ limit >= l THEN rest ELSE SubSeq(rest, 1, limit)
  BY <1>3 DEF l
<1>10. n \in Int
  BY <1>1, <1>2
<1>11. Len(rest) = l
  BY DEF l
<1> HIDE DEF rest, n
<1>12. CASE none \/ limit >= l
  <2>1. page = rest
    BY <1>9, <1>12
  <2>2. l = Wanted
    <3>1. CASE n <= 0
      BY <1>6, <3>1
    <3>2. CASE ~ (n <= 0) /\ none
      BY <1>6, <3>2
    <3>3. CASE ~ (n <= 0) /\ ~none
      <4>1. limit \in Nat /\ limit >= n /\ l = n
        BY <1>1, <1>6, <1>12, <3>3
      <4>2. CASE limit > n
        BY <3>3, <4>1, <4>2
      <4>3. CASE ~ (limit > n)
        <5>1. limit = n
          BY <1>10, <4>1, <4>3
        <5> QED
          BY <3>3, <4>1, <4>3, <5>1
      <4> QED
        BY <4>2, <4>3
    <3> QED
      BY <3>1, <3>2, <3>3
  <2> QED
    BY <2>1, <2>2, <1>7, <1>8, <1>11
<1>13. CASE ~ (none \/ limit >= l)
  <2>1. limit \in Nat /\ limit < l
    BY <1>1, <1>8, <1>13
  <2>2. page = SubSeq(rest, 1, limit)
    BY <1>9, <1>13
  <2>3. /\ page \in Seq(E) /\ Len(page) = limit
        /\ \A i \in 1 .. limit : page[i] = rest[i]
    BY <1>8, <1>11, <2>1, <2>2
  <2>4. limit = Wanted
    BY <1>6, <1>10, <1>13, <2>1
  <2>5. \A i \in DOMAIN page : i \in 1 .. l /\ page[i] = rest[i]
    BY <2>1, <2>3, <1>8
  <2> QED
    BY <2>3, <2>4, <2>5, <1>7
<1> QED
  BY <1>12, <1>13
-----------------------------------------------------------------------------
LEMMA CallKnown ==
  ASSUME Held, outcome = "answered"
  PROVE  call # << >> /\ call[1].api \in {"query", "query_range"}
<1>1. call # << >> /\ call \in Pointers(Calls)
  BY DEF Held, SentHeld, TypeOK
<1>2. call[1] \in Calls
  BY <1>1, PointerElement
<1> QED
  BY <1>1, <1>2 DEF Calls

LEMMA SeqMore ==
  ASSUME NEW S, NEW list \in Seq(S), NEW E, \A i \in DOMAIN list : list[i] \in E
  PROVE  list \in Seq(E)
<1>1. list = [i \in DOMAIN list |-> list[i]]
  OBVIOUS
<1> QED
  BY <1>1, SeqLike

Singles == {s \in Series : Len(s.samples) = 1}

LEMMA FilteredType ==
  ASSUME Held, AnsweredHeld, outcome = "answered"
  PROVE  /\ Filter(answer) \in Seq(Series)
         /\ call[1].api = "query" => Filter(answer) \in Seq(Singles)
<1>1. answer \in Seq(Series)
  BY AnswerType DEF Held
<1>2. Filter(answer) \in Seq(Series)
  BY <1>1, FilterType
<1>3. ASSUME call[1].api = "query" PROVE Filter(answer) \in Seq(Singles)
  <2>1. \A i \in DOMAIN answer : answer[i] \in Singles
    BY <1>1, <1>3 DEF AnsweredHeld, Singles
  <2>2. answer \in Seq(Singles)
    BY <1>1, <2>1, SeqMore
  <2>3. Singles \in SUBSET Series
    BY DEF Singles
  <2> QED
    BY <1>1, <1>3, <2>2, <2>3, FilterType
<1> QED
  BY <1>2, <1>3

LEMMA RowsOfType ==
  ASSUME Held, AnsweredHeld, outcome = "answered"
  PROVE  rows \in Seq(Row)
<1> DEFINE by == request.order.by
           left == Filter(answer)
<1>1. TypeOK /\ rows = RowsOf(answer) /\ answer \in Seq(Series)
  BY AnswerType DEF Held, AnsweredHeld
<1>2. left \in Seq(Series) /\ by \in Orders
  BY <1>1, FilteredType, PageType
<1>3. CASE request.kind = "raw"
  BY <1>1, <1>3, RowsType DEF RowsOf
<1>4. CASE request.kind # "raw" /\ call[1].api = "query"
  <2>1. rows = Rows(Page(SortVector(left, by)))
    BY <1>1, <1>4 DEF RowsOf
  <2> HIDE DEF by, left
  <2>2. Page(SortVector(left, by)) \in Seq(Series)
    BY <1>1, <1>2, SortVectorType, PageIs
  <2> QED
    BY <2>1, <2>2, RowsType
<1>5. CASE request.kind # "raw" /\ call[1].api # "query"
  <2>1. rows = Page(Rows(SortMatrix(left, by)))
    BY <1>1, <1>5 DEF RowsOf
  <2> HIDE DEF by, left
  <2>2. Rows(SortMatrix(left, by)) \in Seq(Row)
    BY <1>2, SortMatrixType, RowsType
  <2> QED
    BY <1>1, <2>1, <2>2, PageIs
<1> QED
  BY <1>3, <1>4, <1>5

(* A page of a vector has the rows of the page. *)
LEMMA PagedBefore ==
  ASSUME TypeOK, NEW list \in Seq(Singles)
  PROVE  IsPage(Rows(Page(list)), Rows(list))
<1> DEFINE page == Page(list)
           all == Rows(list)
           some == Rows(page)
           o == request.offset
<1>1. page \in Seq(Singles) /\ IsPage(page, list) /\ \A i \in DOMAIN page : o + i \in DOMAIN list
  BY PageIs
<1>2. \A q \in Seq(Singles) : q \in Seq(Series) /\ \A i \in DOMAIN q : Len(q[i].samples) = 1
  <2>1. TAKE q \in Seq(Singles)
  <2>2. \A i \in DOMAIN q : q[i] \in Singles
    OBVIOUS
  <2>3. \A i \in DOMAIN q : q[i] \in Series /\ Len(q[i].samples) = 1
    BY <2>2 DEF Singles
  <2> QED
    BY <2>3, SeqMore
<1> HIDE DEF page
<1>3. all = [i \in DOMAIN list |-> OneRow(list[i])]
  BY <1>2, RowsOfSingles
<1>4. some = [i \in DOMAIN page |-> OneRow(page[i])]
  BY <1>1, <1>2, RowsOfSingles
<1>5. all \in Seq(Row) /\ some \in Seq(Row)
  BY <1>1, <1>2, RowsType
<1>6. Len(all) = Len(list) /\ Len(some) = Len(page)
  <2> HIDE DEF all, some
  <2>1. \A q, r : q \in Seq(Row) /\ r \in Seq(Singles) /\ DOMAIN q = DOMAIN r => Len(q) = Len(r)
    OBVIOUS
  <2>2. DOMAIN all = DOMAIN list /\ DOMAIN some = DOMAIN page
    BY <1>3, <1>4
  <2> QED
    BY <1>1, <1>5, <2>1, <2>2
<1>7. ASSUME NEW i \in DOMAIN some PROVE some[i] = all[o + i]
  <2> HIDE DEF all, some
  <2> DEFINE p == o + i
  <2>1. i \in DOMAIN page
    BY <1>4
  <2>2. some[i] = OneRow(page[i])
    BY <1>4, <2>1
  <2>3. p \in DOMAIN list /\ page[i] = list[p]
    BY <1>1, <2>1 DEF IsPage
  <2> HIDE DEF p
  <2>4. all[p] = OneRow(list[p])
    BY <1>3, <2>3
  <2> QED
    BY <2>2, <2>3, <2>4 DEF p
<1>8. IsPage(some, all)
  <2> HIDE DEF all, some
  <2>1. \A i \in DOMAIN some : some[i] = all[request.offset + i]
    BY <1>7 DEF o
  <2>2. Len(page) = IF Len(list) - request.offset <= 0 THEN 0
                    ELSE IF request.limit = << >> \/ request.limit[1] > Len(list) - request.offset
                    THEN Len(list) - request.offset ELSE request.limit[1]
    BY <1>1 DEF IsPage
  <2> QED
    BY <2>1, <2>2, <1>6 DEF IsPage
<1> QED
  BY <1>8 DEF page

LEMMA RowsPaged ==
  ASSUME IInv, outcome = "answered", request.kind = "native", AllFilterable,
         Orderable(request.order.by, Meant)
  PROVE  IsPage(rows, Rows(Ordered(request.order.by, Meant)))
<1> DEFINE by == request.order.by
           list == Meant
<1>1. TypeOK /\ Held /\ FilterHeld /\ AnsweredHeld
  BY DEF IInv, Held
<1>2. by \in Orders
  BY <1>1, PageType
<1>3. list = Filter(answer)
  BY <1>1, FilterMeant
<1>4. list \in Seq(Series) /\ (call[1].api = "query" => list \in Seq(Singles))
  BY <1>1, <1>3, FilteredType
<1>5. rows = IF call[1].api = "query" THEN Rows(Page(SortVector(list, by)))
             ELSE Page(Rows(SortMatrix(list, by)))
  BY <1>1, <1>3 DEF AnsweredHeld, RowsOf
<1>6. Orderable(by, list)
  OBVIOUS
<1> HIDE DEF by, list
<1>7. \A i \in DOMAIN list : list[i] \in Sortable(by)
  <2>1. \A i \in DOMAIN list : list[i] \in Series /\ (list[i].bare => SampleColumns(by) = DOMAIN by)
    BY <1>4, <1>6 DEF Orderable
  <2> QED
    BY <2>1 DEF Sortable
<1>8. CASE call[1].api = "query"
  <2> DEFINE E == Sortable(by) \cap Singles
             sorted == SortVector(list, by)
  <2>1. \A i \in DOMAIN list : list[i] \in Singles
    BY <1>4, <1>8
  <2>2. list \in Seq(E)
    BY <1>4, <1>7, <2>1, SeqMore
  <2>3. E \in SUBSET Sortable(by) /\ E \in SUBSET Singles
    OBVIOUS
  <2> HIDE DEF E
  <2>4. sorted = Ranked(list, {p \in Pairs(list) :
                   BeforeInOrder(by, DOMAIN by, OfSample(list[p[1]], 1), OfSample(list[p[2]], 1))})
        /\ sorted \in Seq(E)
    BY <1>2, <2>2, <2>3, VectorSorted
  <2>5. sorted = Ordered(by, list)
    BY <1>8, <2>4 DEF Ordered
  <2> HIDE DEF sorted
  <2>6. sorted \in Seq(Singles)
    BY <2>3, <2>4
  <2>7. rows = Rows(Page(sorted))
    BY <1>5, <1>8 DEF sorted
  <2>8. IsPage(Rows(Page(sorted)), Rows(sorted))
    BY <1>1, <2>6, PagedBefore
  <2> QED
    BY <2>5, <2>7, <2>8 DEF by, list
<1>9. CASE call[1].api # "query"
  <2> DEFINE sorted == SortMatrix(list, by)
  <2>1. call[1].api = "query_range"
    BY <1>1, <1>9, CallKnown
  <2>2. list \in Seq(Sortable(by))
    BY <1>4, <1>7, SeqMore
  <2>3. OneColumn(by) /\ (SampleColumns(by) # {} => Len(list) > 1)
    BY <1>6, <2>1 DEF Orderable, OneColumn
  <2>4. sorted = Ordered(by, list)
    <3>1. SortMatrix(list, by) =
            Ranked([i \in DOMAIN list |-> SamplesOrdered(by, list[i])],
                   {p \in Pairs(list) :
                      BeforeInOrder(by, DOMAIN by \ SampleColumns(by), list[p[1]], list[p[2]])})
      BY <1>2, <2>2, <2>3, MatrixSorted
    <3> QED
      BY <1>9, <3>1 DEF Ordered
  <2>5. Rows(sorted) \in Seq(Row)
    BY <1>2, <1>4, SortMatrixType, RowsType
  <2>6. rows = Page(Rows(sorted))
    BY <1>5, <1>9
  <2> HIDE DEF sorted
  <2>7. IsPage(rows, Rows(sorted))
    BY <1>1, <2>5, <2>6, PageIs
  <2> QED
    BY <2>4, <2>7 DEF by, list
<1> QED
  BY <1>8, <1>9

LEMMA RowsHeld == IInv => RowsMeant
<1> SUFFICES ASSUME IInv, outcome = "answered"
             PROVE  /\ \A i \in DOMAIN rows :
                         rows[i].label \in Labels \cup {0} /\ rows[i].values \in Samples
                    /\ request.kind = "raw" => rows = Rows(answer)
                    /\ request.kind # "raw" /\ AllFilterable
                         /\ Orderable(request.order.by, Meant)
                         => IsPage(rows, Rows(Ordered(request.order.by, Meant)))
  BY DEF RowsMeant, AllFilterable, IsPage
<1>1. TypeOK /\ Held /\ AnsweredHeld
  BY DEF IInv, Held
<1>2. \A i \in DOMAIN rows : rows[i].label \in Labels \cup {0} /\ rows[i].values \in Samples
  <2>1. \A i \in DOMAIN rows : rows[i] \in Row
    BY <1>1, RowsOfType
  <2> QED
    BY <2>1 DEF Row
<1>3. request.kind = "raw" => rows = Rows(answer)
  BY <1>1 DEF AnsweredHeld, RowsOf
<1>4. request.kind # "raw" => request.kind = "native"
  BY <1>1, RequestType
<1> QED
  BY <1>2, <1>3, <1>4, RowsPaged
-----------------------------------------------------------------------------
LEMMA RowsSteady ==
  ASSUME request' = request, call' = call, expression' = expression, hasValue' = hasValue
  PROVE  /\ \A a : RowsOf(a)' = RowsOf(a)
         /\ \A a : FilterFails(a)' <=> FilterFails(a)
<1>1. \A s, v : ValidItem(s, v)' = ValidItem(s, v)
  BY DEF ValidItem
<1>2. \A s : FilterSample(s)' = FilterSample(s)
  BY <1>1 DEF FilterSample
<1>3. \A s : FilterSeries(s)' = FilterSeries(s)
  BY <1>1 DEF FilterSeries
<1>4. \A a : Filter(a)' = Filter(a)
  BY <1>2, <1>3 DEF Filter
<1>5. \A a : FilterFails(a)' <=> FilterFails(a)
  BY <1>1 DEF FilterFails
<1>6. IsFlat' = IsFlat
  BY DEF IsFlat
<1>7. \A a : Rows(a)' = Rows(a)
  BY <1>6 DEF Rows
<1>8. \A q : Page(q)' = Page(q)
  BY DEF Page
<1>9. \A a : RowsOf(a)' = RowsOf(a)
  BY <1>4, <1>7, <1>8 DEF RowsOf
<1> QED
  BY <1>5, <1>9

LEMMA FilterKept ==
  ASSUME FilterHeld, request' = request, expression' = expression, hasValue' = hasValue,
         request.kind = "native" => stage # "predicate"
  PROVE  FilterHeld'
<1>1. Terms' = Terms
  BY RequestSteady
<1> QED
  BY <1>1 DEF FilterHeld

LEMMA NotAnswered == ASSUME outcome' # "answered" PROVE AnsweredHeld'
BY DEF AnsweredHeld

LEMMA InitFilled == Init => FilterHeld /\ AnsweredHeld
BY DEF Init, FilterHeld, AnsweredHeld

LEMMA AnswerFilled == ASSUME IInv, Answer PROVE AnsweredHeld'
<1>1. /\ request' = request /\ call' = call /\ expression' = expression
      /\ hasValue' = hasValue
  BY DEF Answer
<1>2. CASE outcome' # "answered"
  BY <1>2, NotAnswered
<1>3. CASE outcome' = "answered"
  <2>1. ~ (request.kind = "native" /\ FilterFails(answer')) /\ rows' = RowsOf(answer')
    BY <1>3 DEF Answer, Refuse
  <2>2. call[1].api = "query" => \A i \in DOMAIN answer' : Len(answer'[i].samples) = 1
    BY DEF Answer
  <2>3. RowsOf(answer)' = RowsOf(answer')
    BY <1>1, RowsSteady
  <2>4. FilterFails(answer)' <=> FilterFails(answer')
    BY <1>1, RowsSteady
  <2>5. rows' = RowsOf(answer)'
    BY <2>1, <2>3
  <2>6. request'.kind = "native" => ~FilterFails(answer)'
    BY <1>1, <2>1, <2>4
  <2>7. (call[1].api = "query" => \A i \in DOMAIN answer : Len(answer[i].samples) = 1)'
    BY <1>1, <2>2
  <2> QED
    BY <2>5, <2>6, <2>7 DEF AnsweredHeld
<1> QED
  BY <1>2, <1>3

LEMMA StutterFilled == ASSUME IInv, UNCHANGED vars PROVE FilterHeld' /\ AnsweredHeld'
<1>1. /\ request' = request /\ stage' = stage /\ outcome' = outcome
      /\ expression' = expression /\ hasValue' = hasValue /\ call' = call
      /\ answer' = answer /\ rows' = rows
  BY DEF vars
<1>2. Terms' = Terms
  BY <1>1, RequestSteady
<1>3. FilterHeld'
  BY <1>1, <1>2 DEF IInv, FilterHeld
<1>4. RowsOf(answer)' = RowsOf(answer) /\ (FilterFails(answer)' <=> FilterFails(answer))
  BY <1>1, RowsSteady
<1>5. AnsweredHeld'
  BY <1>1, <1>4 DEF IInv, AnsweredHeld
<1> QED
  BY <1>3, <1>5

LEMMA NextFilled == ASSUME IInv, [Next]_vars PROVE FilterHeld' /\ AnsweredHeld'
<1>0. FilterHeld /\ RawHeld
  BY DEF IInv, Held
<1>1. CASE EvalPredicate
  <2>1. Terms' = Terms
    BY <1>1, RequestSteady DEF EvalPredicate
  <2>2. FilterHeld'
    BY <1>1, <2>1 DEF EvalPredicate, FilterHeld
  <2>3. outcome' # "answered"
    BY <1>1 DEF EvalPredicate, Refuse, Goto
  <2> QED
    BY <2>2, <2>3, NotAnswered
<1>2. CASE EvalRaw
  <2>1. FilterHeld'
    BY <1>0, <1>2, FilterKept DEF EvalRaw
  <2>2. outcome' # "answered"
    BY <1>2 DEF EvalRaw, Refuse, Goto, Explained
  <2> QED
    BY <2>1, <2>2, NotAnswered
<1>3. CASE \E key \in Settings : EvalSetting(key)
  <2>1. FilterHeld'
    BY <1>0, <1>3, FilterKept DEF EvalSetting
  <2>2. outcome' # "answered"
    BY <1>3 DEF EvalSetting, Refuse, Goto
  <2> QED
    BY <2>1, <2>2, NotAnswered
<1>4. CASE \E key \in Names : EvalArgument(key)
  <2>1. FilterHeld'
    BY <1>0, <1>4, FilterKept DEF EvalArgument
  <2>2. outcome' # "answered"
    BY <1>4 DEF EvalArgument, Refuse, Goto
  <2> QED
    BY <2>1, <2>2, NotAnswered
<1>5. CASE CheckResolved
  <2>1. FilterHeld'
    BY <1>0, <1>5, FilterKept DEF CheckResolved
  <2>2. outcome' # "answered"
    BY <1>5 DEF CheckResolved, Refuse, Goto, Explained
  <2> QED
    BY <2>1, <2>2, NotAnswered
<1>6. CASE Send
  <2>1. FilterHeld'
    BY <1>0, <1>6, FilterKept DEF Send
  <2>2. outcome' # "answered"
    BY <1>6 DEF Send, Refuse, Goto
  <2> QED
    BY <2>1, <2>2, NotAnswered
<1>7. CASE CallFails
  <2>1. FilterHeld'
    BY <1>0, <1>7, FilterKept DEF CallFails
  <2>2. outcome' # "answered"
    BY <1>7 DEF CallFails, Refuse
  <2> QED
    BY <2>1, <2>2, NotAnswered
<1>8. CASE Answer
  <2>1. FilterHeld'
    BY <1>0, <1>8, FilterKept DEF Answer
  <2> QED
    BY <1>8, <2>1, AnswerFilled
<1>9. CASE Done \/ UNCHANGED vars
  BY <1>9, StutterFilled DEF Done
<1> QED
  BY <1>1, <1>2, <1>3, <1>4, <1>5, <1>6, <1>7, <1>8, <1>9 DEF Next

(* The invariant of a query: what the predicate and the arguments have been *)
(* found to be when the walk has come to some place, what of the predicate *)
(* is left for the filter, and the rows of the answer (Explain, execute).  *)
THEOREM InductiveInvariant == Spec => []IInv
<1>1. Init => IInv
  BY InitHeld, InitFilled DEF IInv
<1>2. IInv /\ [Next]_vars => IInv'
  <2> SUFFICES ASSUME IInv, [Next]_vars PROVE IInv'
    OBVIOUS
  <2>1. Held'
    BY NextHeld DEF IInv
  <2>2. FilterHeld' /\ AnsweredHeld'
    BY NextFilled
  <2> QED
    BY <2>1, <2>2 DEF IInv
<1> QED
  BY <1>1, <1>2, PTL DEF Spec

(* The rows of a native query are the samples that its whole predicate     *)
(* means, in the order and on the page asked for, whichever of the two     *)
(* filters, sorts and ways of paging is taken (queryInstant, queryRange,   *)
(* sortVector, sortMatrix); a raw query has the rows of the whole answer.  *)
THEOREM RowsAreMeant == Spec => []RowsMeant
BY RowsHeld, InductiveInvariant, PTL
=============================================================================
