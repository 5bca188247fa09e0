------------------------- MODULE PlaceholdersProofs -------------------------
(***************************************************************************)
(* Proofs about Placeholders for every query text, names of any length and *)
(* number, declared arguments or none, and any number of runs.             *)
(***************************************************************************)
EXTENDS Placeholders, SequenceTheorems, WellFoundedInduction, TLAPS

LEMMA Least ==
  ASSUME NEW T \in SUBSET Nat, T # {}
  PROVE  \E n \in T : \A m \in T : n <= m
<1> DEFINE R == {ss \in Nat \X Nat : ss[1] < ss[2]}
<1>1. IsWellFoundedOn(R, Nat)
  BY NatLessThanWellFounded DEF OpToRel
<1>2. PICK n \in T : \A m \in T : ~ (<<m, n>> \in R)
  BY <1>1, WFMin
<1>3. \A m \in T : <<m, n>> \in Nat \X Nat
  OBVIOUS
<1>4. \A m \in T : <<m, n>>[1] = m /\ <<m, n>>[2] = n
  OBVIOUS
<1>5. \A m \in T : ~ (m < n)
  BY <1>2, <1>3, <1>4
<1> QED
  BY <1>5

(* Induction up to N: T is the set of numbers of which the fact holds. *)
LEMMA Induct ==
  ASSUME NEW N \in Nat, NEW T, 0 \in T,
         \A n \in 1 .. N : n - 1 \in T => n \in T
  PROVE  \A n \in 0 .. N : n \in T
<1>1. SUFFICES ASSUME (0 .. N) \ T # {} PROVE FALSE
  OBVIOUS
<1>2. PICK n \in (0 .. N) \ T : \A m \in (0 .. N) \ T : n <= m
  <2>1. (0 .. N) \ T \in SUBSET Nat
    OBVIOUS
  <2> QED
    BY <1>1, <2>1, Least
<1>3. n \in 1 .. N /\ n - 1 \in 0 .. N
  BY <1>2
<1>4. n - 1 \in T
  BY <1>2, <1>3
<1> QED
  BY <1>2, <1>3, <1>4

LEMMA Greatest ==
  ASSUME NEW N \in Nat, NEW T \in SUBSET (1 .. N), T # {}
  PROVE  \E n \in T : \A m \in T : m <= n
<1> DEFINE D == {N - n : n \in T}
<1>0. \A n \in T : n \in 1 .. N /\ N - n \in Nat
  OBVIOUS
<1>1. D \in SUBSET Nat /\ D # {}
  BY <1>0
<1>2. PICK d \in D : \A c \in D : d <= c
  BY <1>1, Least
<1>3. PICK n \in T : d = N - n
  BY <1>2
<1>4. ASSUME NEW m \in T PROVE m <= n
  <2>1. N - m \in D
    OBVIOUS
  <2>2. N - n <= N - m
    BY <2>1, <1>2, <1>3
  <2>3. n \in Int /\ m \in Int
    OBVIOUS
  <2> QED
    BY <2>2, <2>3
<1> QED
  BY <1>4

LEMMA ElementType == ASSUME NEW S, NEW q \in Seq(S), NEW i \in DOMAIN q PROVE q[i] \in S
OBVIOUS

LEMMA SeqDomain ==
  ASSUME NEW S, NEW q \in Seq(S)
  PROVE  DOMAIN q = 1 .. Len(q) /\ Len(q) \in Nat
OBVIOUS

-----------------------------------------------------------------------------
(* What FlattenSeq makes of its parts, one part at a time.                 *)
Flattens(f, parts) ==
  /\ f \in [0 .. Len(parts) -> Text]
  /\ f[0] = << >>
  /\ \A n \in 1 .. Len(parts) : f[n] = f[n - 1] \o parts[n]
  /\ f[Len(parts)] = FlattenSeq(parts)

(* A function that gathers the parts, as a recursion defines it. *)
LEMMA Gathered ==
  ASSUME NEW parts \in Seq(Text)
  PROVE  \E g : g \in [0 .. Len(parts) -> Text] /\ g[0] = << >>
                /\ \A n \in 1 .. Len(parts) : g[n] = g[n - 1] \o parts[n]
<1> DEFINE Up(g, k) == /\ g \in [0 .. k -> Text] /\ g[0] = << >>
                       /\ \A n \in 1 .. k : g[n] = g[n - 1] \o parts[n]
           N == Len(parts)
           T == {k \in 0 .. N : \E g : Up(g, k)}
<1>0. N \in Nat /\ \A n \in 1 .. N : parts[n] \in Text
  BY SeqDomain, ElementType
<1> HIDE DEF N
<1>1. 0 \in T
  <2>1. << >> \in Text
    BY DEF Text
  <2>2. Up([n \in 0 .. 0 |-> << >>], 0)
    BY <2>1
  <2> HIDE DEF Up
  <2>3. 0 \in 0 .. N
    BY <1>0
  <2> QED
    BY <2>2, <2>3
<1>2. ASSUME NEW k \in 1 .. N, k - 1 \in T
      PROVE  k \in T
  <2>1. PICK f : Up(f, k - 1)
    BY <1>2
  <2>2. f \in [0 .. k - 1 -> Text] /\ f[k - 1] \in Text
    BY <2>1, <1>0
  <2> DEFINE y == f[k - 1] \o parts[k]
             g == [n \in 0 .. k |-> IF n = k THEN y ELSE f[n]]
  <2>4. y \in Text
    BY <2>2, <1>0, ConcatProperties DEF Text
  <2> HIDE DEF y
  <2>5. g \in [0 .. k -> Text] /\ g[k] = y
    BY <2>2, <2>4, <1>0
  <2>6. \A n \in 0 .. k - 1 : n # k /\ n \in 0 .. k /\ g[n] = f[n]
    BY <1>0
  <2>7. g[0] = << >>
    BY <2>1, <2>6, <1>0
  <2>8. \A n \in 1 .. k : g[n] = g[n - 1] \o parts[n]
    <3>1. TAKE n \in 1 .. k
    <3>2. n - 1 \in 0 .. k - 1 /\ g[n - 1] = f[n - 1]
      BY <2>6, <1>0
    <3>3. CASE n = k
      BY <3>2, <3>3, <2>5 DEF y
    <3>4. CASE n # k
      <4>1. n \in 1 .. k - 1 /\ n \in 0 .. k - 1
        BY <3>4, <1>0
      <4> QED
        BY <4>1, <3>2, <2>6, <2>1
    <3> QED
      BY <3>3, <3>4
  <2>9. Up(g, k)
    BY <2>5, <2>7, <2>8
  <2> HIDE DEF Up, g
  <2>10. k \in 0 .. N
    BY <1>0
  <2> QED
    BY <2>9, <2>10
<1>3. N \in T
  <2> HIDE DEF T
  <2>1. \A n \in 0 .. N : n \in T
    BY <1>0, <1>1, <1>2, Induct
  <2> QED
    BY <2>1, <1>0
<1>4. PICK g : Up(g, N)
  BY <1>3
<1> QED
  BY <1>4 DEF N

LEMMA Flattened ==
  ASSUME NEW parts \in Seq(Text)
  PROVE  \E f : Flattens(f, parts)
<1> DEFINE N == Len(parts)
           Eq(h) == h = [i \in 1 .. N |-> IF i = 1 THEN parts[i] ELSE h[i - 1] \o parts[i]]
           flatten == CHOOSE h : Eq(h)
<1>0. N \in Nat /\ \A n \in 1 .. N : parts[n] \in Text
  BY SeqDomain, ElementType
<1>1. PICK g : /\ g \in [0 .. N -> Text] /\ g[0] = << >>
               /\ \A n \in 1 .. N : g[n] = g[n - 1] \o parts[n]
  BY Gathered
<1> HIDE DEF N
<1>4. ASSUME N # 0 PROVE g[1] = parts[1]
  <2>1. 1 \in 1 .. N /\ 1 - 1 = 0
    BY <1>0, <1>4
  <2>2. g[1] = << >> \o parts[1] /\ parts[1] \in Seq(Symbols)
    BY <2>1, <1>0, <1>1 DEF Text
  <2> QED
    BY <2>2, ConcatEmptySeq
<1>2. CASE N = 0
  <2>1. parts = << >>
    BY <1>2 DEF N
  <2>2. FlattenSeq(parts) = << >>
    BY <1>2, <2>1 DEF FlattenSeq, N
  <2>3. g[N] = << >>
    BY <1>1, <1>2
  <2>4. Flattens(g, parts)
    BY <1>1, <2>2, <2>3 DEF Flattens, N
  <2> QED
    BY <2>4
<1>3. CASE N # 0
  <2>1. Eq([i \in 1 .. N |-> g[i]])
    <3> DEFINE h == [i \in 1 .. N |-> g[i]]
    <3>1. ASSUME NEW i \in 1 .. N
          PROVE  h[i] = IF i = 1 THEN parts[i] ELSE h[i - 1] \o parts[i]
      <4>1. CASE i = 1
        BY <4>1, <1>3, <1>4
      <4>2. CASE i # 1
        <5>1. i - 1 \in 1 .. N
          BY <4>2, <1>0
        <5> QED
          BY <5>1, <4>2, <1>1
      <4> QED
        BY <4>1, <4>2
    <3> QED
      BY <3>1
  <2>2. Eq(flatten)
    BY <2>1
  <2>3. FlattenSeq(parts) = flatten[N]
    BY <1>3 DEF FlattenSeq, N
  <2> HIDE DEF flatten
  <2>a. flatten = [i \in 1 .. N |-> IF i = 1 THEN parts[i] ELSE flatten[i - 1] \o parts[i]]
    BY <2>2
  <2>4. flatten[1] = parts[1] /\ \A i \in 2 .. N : flatten[i] = flatten[i - 1] \o parts[i]
    <3>1. \A i \in 1 .. N : flatten[i] = IF i = 1 THEN parts[i] ELSE flatten[i - 1] \o parts[i]
      BY <2>a
    <3>2. 1 \in 1 .. N
      BY <1>0, <1>3
    <3>3. \A i \in 2 .. N : i \in 1 .. N /\ i # 1
      BY <1>0
    <3> QED
      BY <3>1, <3>2, <3>3
  <2> DEFINE T == {n \in 0 .. N : n > 0 => flatten[n] = g[n]}
  <2>5. 0 \in T
    BY <1>0
  <2>6. ASSUME NEW n \in 1 .. N, n - 1 \in T PROVE n \in T
    <3>1. CASE n = 1
      BY <1>3, <1>4, <3>1, <2>4, <1>0
    <3>2. CASE n # 1
      <4>1. n \in 2 .. N /\ n - 1 > 0 /\ n \in 0 .. N
        BY <3>2, <1>0
      <4>2. flatten[n - 1] = g[n - 1]
        BY <2>6, <4>1
      <4>3. flatten[n] = g[n]
        BY <4>1, <4>2, <2>4, <1>1
      <4> QED
        BY <4>1, <4>3
    <3> QED
      BY <3>1, <3>2
  <2>7. N \in T
    <3> HIDE DEF T
    <3>1. \A n \in 0 .. N : n \in T
      BY <1>0, <2>5, <2>6, Induct
    <3> QED
      BY <3>1, <1>0
  <2>8. flatten[N] = g[N]
    BY <2>7, <1>0, <1>3
  <2>9. Flattens(g, parts)
    BY <1>1, <2>8, <2>3 DEF Flattens, N
  <2> QED
    BY <2>9
<1> QED
  BY <1>2, <1>3

LEMMA Associative ==
  ASSUME NEW x \in Text, NEW y \in Text, NEW z \in Text
  PROVE  (x \o y) \o z = x \o (y \o z)
<1>1. x \in Seq(Symbols) /\ y \in Seq(Symbols) /\ z \in Seq(Symbols)
  BY DEF Text
<1> QED
  BY <1>1, ConcatAssociative

UpTo(f, n) == Len(f[n])

Size(parts, n) == Len(parts[n])

(* Where the parts are in what they make. *)
LEMMA PartPlaces ==
  ASSUME NEW parts \in Seq(Text), NEW f, Flattens(f, parts)
  PROVE  /\ \A n \in 0 .. Len(parts) : f[n] \in Text /\ UpTo(f, n) \in Nat
         /\ UpTo(f, 0) = 0
         /\ \A n \in 1 .. Len(parts) :
              /\ parts[n] \in Text /\ Size(parts, n) \in Nat
              /\ UpTo(f, n) = UpTo(f, n - 1) + Size(parts, n)
              /\ \A q \in 1 .. UpTo(f, n - 1) : f[n][q] = f[n - 1][q]
              /\ \A k \in 1 .. Size(parts, n) : f[n][UpTo(f, n - 1) + k] = parts[n][k]
<1>1. \A n \in 0 .. Len(parts) : f[n] \in Text /\ Len(f[n]) \in Nat
  BY SeqDomain DEF Flattens, Text
<1>2. ASSUME NEW n \in 1 .. Len(parts)
      PROVE  /\ Len(f[n]) = Len(f[n - 1]) + Len(parts[n])
             /\ \A q \in 1 .. Len(f[n - 1]) : f[n][q] = f[n - 1][q]
             /\ \A k \in 1 .. Len(parts[n]) : f[n][Len(f[n - 1]) + k] = parts[n][k]
  <2>1. /\ f[n - 1] \in Seq(Symbols) /\ parts[n] \in Seq(Symbols)
        /\ f[n] = f[n - 1] \o parts[n]
    <3>1. n - 1 \in 0 .. Len(parts) /\ Len(parts) \in Nat /\ n \in DOMAIN parts
      BY SeqDomain
    <3> QED
      BY <3>1, <1>1, ElementType DEF Text, Flattens
  <2> DEFINE a == f[n - 1]
             b == parts[n]
  <2>2. a \in Seq(Symbols) /\ b \in Seq(Symbols) /\ f[n] = a \o b
    BY <2>1
  <2> HIDE DEF a, b
  <2>3. Len(a) \in Nat /\ Len(b) \in Nat
    BY <2>2, SeqDomain
  <2>4. /\ Len(a \o b) = Len(a) + Len(b)
        /\ \A i \in 1 .. Len(a) + Len(b) :
             (a \o b)[i] = IF i <= Len(a) THEN a[i] ELSE b[i - Len(a)]
    BY <2>2, ConcatProperties
  <2>5. \A q \in 1 .. Len(a) : (a \o b)[q] = a[q]
    BY <2>3, <2>4
  <2>6. ASSUME NEW k \in 1 .. Len(b) PROVE (a \o b)[Len(a) + k] = b[k]
    <3>1. Len(a) + k \in 1 .. Len(a) + Len(b) /\ ~(Len(a) + k <= Len(a))
          /\ (Len(a) + k) - Len(a) = k
      BY <2>3
    <3> QED
      BY <3>1, <2>4
  <2> QED
    BY <2>2, <2>4, <2>5, <2>6 DEF a, b
<1>3. \A n \in 1 .. Len(parts) : parts[n] \in Text /\ Len(parts[n]) \in Nat
  BY ElementType, SeqDomain DEF Text
<1>4. Len(f[0]) = 0
  BY DEF Flattens
<1> QED
  BY <1>1, <1>2, <1>3, <1>4 DEF UpTo, Size

(* Earlier gatherings are prefixes of later ones. *)
LEMMA PartsGrow ==
  ASSUME NEW parts \in Seq(Text), NEW f, Flattens(f, parts),
         NEW n \in 0 .. Len(parts), NEW m \in 0 .. n
  PROVE  /\ UpTo(f, m) <= UpTo(f, n)
         /\ \A q \in 1 .. UpTo(f, m) : f[n][q] = f[m][q]
<1> DEFINE N == Len(parts)
           T == {k \in 0 .. N : k >= m => /\ UpTo(f, m) <= UpTo(f, k)
                                          /\ \A q \in 1 .. UpTo(f, m) : f[k][q] = f[m][q]}
<1>0. N \in Nat
  BY SeqDomain
<1>1. /\ \A k \in 0 .. N : UpTo(f, k) \in Nat
      /\ \A k \in 1 .. N : /\ UpTo(f, k) = UpTo(f, k - 1) + Size(parts, k)
                           /\ Size(parts, k) \in Nat
                           /\ \A q \in 1 .. UpTo(f, k - 1) : f[k][q] = f[k - 1][q]
  BY PartPlaces
<1> HIDE DEF N
<1>2. m \in 0 .. N /\ n \in 0 .. N /\ n >= m
  BY <1>0 DEF N
<1>3. 0 \in T
  <2>1. 0 >= m => m = 0
    BY <1>2
  <2> QED
    BY <1>0, <1>1, <1>2, <2>1
<1>4. ASSUME NEW k \in 1 .. N, k - 1 \in T PROVE k \in T
  <2>1. k \in 0 .. N /\ k - 1 \in 0 .. N
    BY <1>0
  <2>2. CASE m = k
    BY <2>1, <2>2, <1>1
  <2>3. CASE m < k
    <3>1. k - 1 >= m
      BY <2>3, <1>2, <1>0
    <3>2. /\ UpTo(f, m) <= UpTo(f, k - 1)
          /\ \A q \in 1 .. UpTo(f, m) : f[k - 1][q] = f[m][q]
      BY <3>1, <1>4
    <3>3. UpTo(f, k - 1) <= UpTo(f, k)
      <4>1. /\ UpTo(f, k - 1) \in Nat /\ Size(parts, k) \in Nat
            /\ UpTo(f, k) = UpTo(f, k - 1) + Size(parts, k)
        BY <1>1, <2>1
      <4> QED
        BY <4>1
    <3>4. \A q \in 1 .. UpTo(f, m) : q \in 1 .. UpTo(f, k - 1)
      BY <3>2, <1>1, <1>2, <2>1
    <3>5. \A q \in 1 .. UpTo(f, m) : f[k][q] = f[m][q]
      BY <3>2, <3>4, <1>1
    <3>6. UpTo(f, m) <= UpTo(f, k)
      BY <3>2, <3>3, <1>1, <1>2, <2>1
    <3> QED
      BY <2>1, <3>5, <3>6
  <2>4. CASE m > k
    BY <2>1, <2>4, <1>0, <1>2
  <2> QED
    BY <2>2, <2>3, <2>4, <1>0, <1>2
<1>5. n \in T
  <2> HIDE DEF T
  <2>1. \A k \in 0 .. N : k \in T
    BY <1>0, <1>3, <1>4, Induct
  <2> QED
    BY <2>1, <1>2
<1> QED
  BY <1>2, <1>5

(* Every place of what the parts make is a place of a part. *)
LEMMA PartOfPlace ==
  ASSUME NEW parts \in Seq(Text), NEW f, Flattens(f, parts),
         NEW q \in 1 .. UpTo(f, Len(parts))
  PROVE  \E n \in 1 .. Len(parts) : \E k \in 1 .. Size(parts, n) : q = UpTo(f, n - 1) + k
<1> DEFINE N == Len(parts)
           T == {n \in 0 .. N : q <= UpTo(f, n)}
<1>0. N \in Nat /\ N \in 0 .. N
  BY SeqDomain
<1>1. /\ \A n \in 0 .. N : UpTo(f, n) \in Nat
      /\ \A n \in 1 .. N : UpTo(f, n) = UpTo(f, n - 1) + Size(parts, n)
      /\ \A n \in 1 .. N : Size(parts, n) \in Nat
  BY PartPlaces
<1>2. UpTo(f, 0) = 0
  BY PartPlaces
<1>3. q \in 1 .. UpTo(f, N) /\ q \in Nat /\ q >= 1
  BY <1>0, <1>1
<1> HIDE DEF N
<1>4. T \in SUBSET Nat /\ N \in T
  BY <1>0, <1>1, <1>3
<1>5. PICK n \in T : \A m \in T : n <= m
  <2> HIDE DEF T
  <2> QED
    BY <1>4, Least
<1>6. n # 0
  BY <1>2, <1>3, <1>5
<1>7. n \in 1 .. N /\ n - 1 \in 0 .. N /\ n - 1 \notin T
  BY <1>5, <1>6, <1>0
<1>8. UpTo(f, n - 1) < q /\ q <= UpTo(f, n - 1) + Size(parts, n)
  <2>1. /\ UpTo(f, n - 1) \in Nat /\ Size(parts, n) \in Nat /\ UpTo(f, n) \in Nat
        /\ UpTo(f, n) = UpTo(f, n - 1) + Size(parts, n)
    BY <1>1, <1>7
  <2>2. q <= UpTo(f, n)
    BY <1>5
  <2>3. ~(q <= UpTo(f, n - 1))
    BY <1>7
  <2> QED
    BY <2>1, <2>2, <2>3, <1>3
<1> DEFINE k == q - UpTo(f, n - 1)
<1>9. k \in 1 .. Size(parts, n) /\ q = UpTo(f, n - 1) + k
  <2>1. UpTo(f, n - 1) \in Nat /\ Size(parts, n) \in Nat
    BY <1>1, <1>7
  <2> QED
    BY <2>1, <1>3, <1>8
<1> QED
  BY <1>7, <1>9 DEF N

(* A stretch whose parts are all empty, and one whose parts are the symbols*)
(* of a text.                                                              *)
LEMMA EmptyStretch ==
  ASSUME NEW parts \in Seq(Text), NEW f, Flattens(f, parts),
         NEW b \in 0 .. Len(parts), NEW a \in 0 .. b,
         \A q \in a + 1 .. b : parts[q] = << >>
  PROVE  f[b] = f[a]
<1> DEFINE N == Len(parts)
           T == {n \in 0 .. N : a <= n /\ n <= b => f[n] = f[a]}
<1>0. N \in Nat /\ a \in 0 .. N /\ b \in 0 .. N /\ a <= b
  BY SeqDomain
<1>1. \A n \in 0 .. N : f[n] \in Seq(Symbols)
  BY DEF Flattens, Text
<1>2. \A n \in 1 .. N : f[n] = f[n - 1] \o parts[n]
  BY DEF Flattens
<1>a. \A q \in a + 1 .. b : parts[q] = << >>
  OBVIOUS
<1> HIDE DEF N
<1>3. 0 \in T
  <2>1. a <= 0 => a = 0
    BY <1>0
  <2> QED
    BY <2>1, <1>0
<1>4. ASSUME NEW n \in 1 .. N, n - 1 \in T PROVE n \in T
  <2>1. SUFFICES ASSUME a <= n, n <= b PROVE f[n] = f[a]
    BY <1>0
  <2>2. CASE n = a
    BY <2>2
  <2>3. CASE n # a
    <3>1. n \in a + 1 .. b /\ a <= n - 1 /\ n - 1 <= b /\ n - 1 \in 0 .. N
      BY <2>1, <2>3, <1>0
    <3>2. f[n - 1] = f[a]
      BY <3>1, <1>4
    <3>3. f[n] = f[n - 1] \o << >>
      BY <3>1, <1>2, <1>a
    <3> QED
      BY <3>1, <3>2, <3>3, <1>1, ConcatEmptySeq
  <2> QED
    BY <2>2, <2>3
<1>5. b \in T
  <2> HIDE DEF T
  <2>1. \A k \in 0 .. N : k \in T
    BY <1>0, <1>3, <1>4, Induct
  <2> QED
    BY <2>1, <1>0
<1> QED
  BY <1>5, <1>0

(* The text gathered at b is that at a and one part more. *)
Continued(g, a, b, part) == g[b] = g[a] \o part

(* The parts from a + 1 to b are single symbols, those of u.               *)
Copies(parts, u, a, b) == \A q \in a + 1 .. b : parts[q] = <<u[q]>>

LEMMA CopiedStretch ==
  ASSUME NEW parts \in Seq(Text), NEW f, Flattens(f, parts), NEW u \in Text,
         Len(parts) = Len(u),
         NEW b \in 0 .. Len(parts), NEW a \in 0 .. b,
         Copies(parts, u, a, b)
  PROVE  Continued(f, a, b, SubSeq(u, a + 1, b))
<1> DEFINE N == Len(parts)
           T == {n \in 0 .. N : a <= n /\ n <= b => f[n] = f[a] \o SubSeq(u, a + 1, n)}
<1>0. N \in Nat /\ a \in 0 .. N /\ b \in 0 .. N /\ a <= b
  BY SeqDomain
<1>1. \A n \in 0 .. N : f[n] \in Seq(Symbols)
  BY DEF Flattens, Text
<1>2. \A n \in 1 .. N : f[n] = f[n - 1] \o parts[n]
  BY DEF Flattens
<1>a. \A q \in a + 1 .. b : parts[q] = <<u[q]>>
  BY DEF Copies
<1>b. \A q \in 1 .. N : u[q] \in Symbols
  BY DEF Text
<1> HIDE DEF N
<1>c. f[a] \o SubSeq(u, a + 1, a) = f[a]
  <2>1. SubSeq(u, a + 1, a) = << >>
    BY <1>0, SubSeqEmpty
  <2> QED
    BY <2>1, <1>0, <1>1, ConcatEmptySeq
<1>3. 0 \in T
  <2>1. a <= 0 => a = 0
    BY <1>0
  <2>2. a <= 0 => f[0] = f[a] \o SubSeq(u, a + 1, 0)
    BY <2>1, <1>c
  <2>3. 0 \in 0 .. N
    BY <1>0
  <2> QED
    BY <2>2, <2>3
<1>4. ASSUME NEW n \in 1 .. N, n - 1 \in T PROVE n \in T
  <2>0. n \in 0 .. N
    BY <1>0
  <2>1. SUFFICES ASSUME a <= n, n <= b PROVE f[n] = f[a] \o SubSeq(u, a + 1, n)
    BY <2>0
  <2>2. CASE n = a
    BY <2>2, <1>c
  <2>3. CASE n # a
    <3>1. n \in a + 1 .. b /\ a <= n - 1 /\ n - 1 <= b /\ n - 1 \in 0 .. N
      BY <2>1, <2>3, <1>0
    <3>2. f[n - 1] = f[a] \o SubSeq(u, a + 1, n - 1)
      BY <3>1, <1>4
    <3>3. f[n] = f[n - 1] \o <<u[n]>>
      BY <3>1, <1>2, <1>a
    <3> DEFINE v == SubSeq(u, a + 1, n - 1)
               w == SubSeq(u, a + 1, n)
    <3>4. \A q \in a + 1 .. n : u[q] \in Symbols
      BY <3>1, <1>0, <1>b
    <3>5. /\ v \in Seq(Symbols) /\ Len(v) = n - 1 - a
          /\ \A i \in 1 .. n - 1 - a : v[i] = u[a + i]
      <4>1. (n - 1) - (a + 1) + 1 = n - 1 - a /\ \A i \in Int : (a + 1) + i - 1 = a + i
        BY <3>1, <1>0
      <4>2. \A i \in a + 1 .. n - 1 : u[i] \in Symbols
        BY <3>4, <1>0
      <4>3. a + 1 \in Int /\ n - 1 \in Int
        BY <1>0
      <4>4. /\ v \in Seq(Symbols)
            /\ Len(v) = IF a + 1 <= n - 1 THEN (n - 1) - (a + 1) + 1 ELSE 0
            /\ \A i \in 1 .. (n - 1) - (a + 1) + 1 : v[i] = u[(a + 1) + i - 1]
        BY <4>2, <4>3, SubSeqProperties
      <4>5. Len(v) = n - 1 - a
        BY <4>4, <3>1, <1>0
      <4> QED
        BY <4>1, <4>4, <4>5
    <3>6. /\ w \in Seq(Symbols) /\ Len(w) = n - a
          /\ \A i \in 1 .. n - a : w[i] = u[a + i]
      <4>1. n - (a + 1) + 1 = n - a /\ \A i \in Int : (a + 1) + i - 1 = a + i
        BY <3>1, <1>0
      <4>3. a + 1 \in Int /\ n \in Int
        BY <1>0
      <4>4. /\ w \in Seq(Symbols)
            /\ Len(w) = IF a + 1 <= n THEN n - (a + 1) + 1 ELSE 0
            /\ \A i \in 1 .. n - (a + 1) + 1 : w[i] = u[(a + 1) + i - 1]
        BY <4>3, <3>4, SubSeqProperties
      <4>5. Len(w) = n - a
        BY <4>4, <3>1, <1>0
      <4> QED
        BY <4>1, <4>4, <4>5
    <3>7. <<u[n]>> \in Seq(Symbols) /\ Len(<<u[n]>>) = 1 /\ <<u[n]>>[1] = u[n]
      BY <1>b
    <3> HIDE DEF v, w
    <3>8. v \o <<u[n]>> = w
      <4> DEFINE x == v \o <<u[n]>>
      <4>0. /\ x \in Seq(Symbols) /\ Len(x) = Len(v) + 1
            /\ \A i \in 1 .. Len(v) + 1 : x[i] = IF i <= Len(v) THEN v[i] ELSE <<u[n]>>[i - Len(v)]
        BY <3>5, <3>7, ConcatProperties
      <4>1. Len(x) = n - a
        BY <4>0, <3>5, <3>1, <1>0
      <4>2. ASSUME NEW i \in 1 .. Len(x) PROVE x[i] = w[i]
        <5>1. i \in 1 .. n - a /\ i \in 1 .. Len(v) + 1
          BY <4>1, <4>0
        <5>2. CASE i <= Len(v)
          <6>1. i \in 1 .. n - 1 - a
            BY <5>1, <5>2, <3>5
          <6> QED
            BY <6>1, <5>1, <5>2, <4>0, <3>5, <3>6
        <5>3. CASE ~(i <= Len(v))
          <6>1. i = n - a /\ i - Len(v) = 1 /\ a + i = n
            BY <5>1, <5>3, <3>5, <3>1, <1>0
          <6> QED
            BY <6>1, <5>1, <5>3, <4>0, <3>6, <3>7
        <5> QED
          BY <5>2, <5>3
      <4> HIDE DEF x
      <4>3. x = w
        BY <4>0, <4>1, <4>2, <3>6, SeqEqual
      <4> QED
        BY <4>3 DEF x
    <3>9. f[n] = (f[a] \o v) \o <<u[n]>>
      BY <3>2, <3>3 DEF v
    <3>10. (f[a] \o v) \o <<u[n]>> = f[a] \o (v \o <<u[n]>>)
      <4>1. f[a] \in Seq(Symbols)
        BY <1>0, <1>1
      <4>2. v \in Seq(Symbols)
        BY <3>5
      <4>3. <<u[n]>> \in Seq(Symbols)
        BY <3>7
      <4> QED
        BY <4>1, <4>2, <4>3, Associative, ZenonT(20) DEF Text
    <3> QED
      BY <3>8, <3>9, <3>10 DEF w
  <2> QED
    BY <2>2, <2>3
<1>5. b \in T
  <2> HIDE DEF T
  <2>1. \A k \in 0 .. N : k \in T
    BY <1>0, <1>3, <1>4, Induct
  <2> QED
    BY <2>1, <1>0
<1>6. a <= b /\ b <= b
  BY <1>0
<1> QED
  BY <1>5, <1>6 DEF Continued

-----------------------------------------------------------------------------
LEMMA SymbolsApart ==
  /\ \A x \in {"$", "{", "}", "[", "]", Quote} : x \in Symbols /\ x \notin Pieces
  /\ "$" # "{" /\ "$" # "}" /\ "$" # "[" /\ "$" # Quote
  /\ "{" # "}" /\ "{" # "[" /\ "{" # Quote /\ "}" # "[" /\ "}" # Quote
  /\ Pieces \subseteq Symbols
BY PlaceholdersAssumption DEF Symbols

LEMMA TextType ==
  ASSUME NEW t \in Text
  PROVE  /\ DOMAIN t = 1 .. Len(t) /\ Len(t) \in Nat
         /\ \A i \in 1 .. Len(t) : t[i] \in Symbols
BY DEF Text

LEMMA RunEndFacts ==
  ASSUME NEW t \in Text, NEW i \in 1 .. Len(t) + 1
  PROVE  /\ RunEnd(t, i) \in i .. Len(t) + 1
         /\ \A m \in i .. RunEnd(t, i) - 1 : t[m] \in Pieces
         /\ RunEnd(t, i) = Len(t) + 1 \/ t[RunEnd(t, i)] \notin Pieces
<1> DEFINE Ends == {j \in i .. Len(t) + 1 : j = Len(t) + 1 \/ t[j] \notin Pieces}
<1>1. Len(t) \in Nat
  BY TextType
<1>2. Ends \in SUBSET Nat /\ Len(t) + 1 \in Ends
  BY <1>1
<1>3. PICK j \in Ends : \A m \in Ends : j <= m
  <2> HIDE DEF Ends
  <2> QED
    BY <1>2, Least
<1>4. \A m \in i .. j - 1 : t[m] \in Pieces
  <2> SUFFICES ASSUME NEW m \in i .. j - 1, t[m] \notin Pieces PROVE FALSE
    OBVIOUS
  <2>1. j \in i .. Len(t) + 1
    BY <1>3
  <2>2. m \in i .. Len(t) + 1 /\ ~(j <= m)
    BY <2>1, <1>1
  <2>3. m \in Ends
    BY <2>2
  <2> QED
    BY <2>2, <2>3, <1>3
<1> DEFINE Q(k) == /\ \A m \in i .. k - 1 : t[m] \in Pieces
                   /\ k = Len(t) + 1 \/ t[k] \notin Pieces
<1>5. j \in i .. Len(t) + 1 /\ Q(j)
  BY <1>3, <1>4
<1>6. RunEnd(t, i) = CHOOSE k \in i .. Len(t) + 1 : Q(k)
  BY DEF RunEnd
<1> HIDE DEF Q
<1>7. RunEnd(t, i) \in i .. Len(t) + 1 /\ Q(RunEnd(t, i))
  BY <1>5, <1>6
<1> QED
  BY <1>7 DEF Q

LEMMA RunEndIs ==
  ASSUME NEW t \in Text, NEW i \in 1 .. Len(t) + 1, NEW j \in i .. Len(t) + 1,
         \A m \in i .. j - 1 : t[m] \in Pieces,
         j = Len(t) + 1 \/ t[j] \notin Pieces
  PROVE  RunEnd(t, i) = j
<1> DEFINE e == RunEnd(t, i)
<1>1. Len(t) \in Nat
  BY TextType
<1>2. /\ e \in i .. Len(t) + 1
      /\ \A m \in i .. e - 1 : t[m] \in Pieces
      /\ e = Len(t) + 1 \/ t[e] \notin Pieces
  BY RunEndFacts
<1> HIDE DEF e
<1>3. CASE e < j
  <2>1. e \in i .. j - 1 /\ e # Len(t) + 1
    BY <1>1, <1>2, <1>3
  <2> QED
    BY <2>1, <1>2
<1>4. CASE j < e
  <2>1. j \in i .. e - 1 /\ j # Len(t) + 1
    BY <1>1, <1>2, <1>4
  <2> QED
    BY <2>1, <1>2
<1>5. e = j
  BY <1>1, <1>2, <1>3, <1>4
<1> QED
  BY <1>5 DEF e

LEMMA OpenedIs ==
  ASSUME NEW t, NEW i
  PROVE  /\ At(t, i, "{") => Opened(t, i) = i + 1
         /\ ~At(t, i, "{") => Opened(t, i) = i
<1>1. ASSUME At(t, i, "{") PROVE Opened(t, i) = i + 1
  BY <1>1 DEF Opened
<1>2. ASSUME ~At(t, i, "{") PROVE Opened(t, i) = i
  BY <1>2 DEF Opened
<1> QED
  BY <1>1, <1>2

LEMMA ClosedIs ==
  ASSUME NEW t, NEW i
  PROVE  /\ At(t, i, "}") => Closed(t, i) = i + 1
         /\ ~At(t, i, "}") => Closed(t, i) = i
<1>1. ASSUME At(t, i, "}") PROVE Closed(t, i) = i + 1
  BY <1>1 DEF Closed
<1>2. ASSUME ~At(t, i, "}") PROVE Closed(t, i) = i
  BY <1>2 DEF Closed
<1> QED
  BY <1>1, <1>2

LEMMA AtIs ==
  ASSUME NEW t \in Text, NEW i, NEW x
  PROVE  /\ At(t, i, x) => i \in 1 .. Len(t) /\ t[i] = x
         /\ i \in 1 .. Len(t) /\ t[i] = x => At(t, i, x)
<1>1. DOMAIN t = 1 .. Len(t)
  BY TextType
<1>2. At(t, i, x) => i \in 1 .. Len(t) /\ t[i] = x
  BY <1>1 DEF At
<1>3. ASSUME i \in 1 .. Len(t), t[i] = x PROVE At(t, i, x)
  BY <1>1, <1>3 DEF At
<1> QED
  BY <1>2, <1>3

(* Where the name after a $ begins, and where it ends. *)
Begin(t, p) == Opened(t, p + 1)
Stop(t, p)  == RunEnd(t, Opened(t, p + 1))

LEMMA BeginIs ==
  ASSUME NEW t \in Text, NEW p \in 1 .. Len(t)
  PROVE  /\ Begin(t, p) = p + 1 \/ Begin(t, p) = p + 2
         /\ Begin(t, p) \in 1 .. Len(t) + 1
         /\ At(t, p + 1, "{") => Begin(t, p) = p + 2
         /\ ~At(t, p + 1, "{") => Begin(t, p) = p + 1
         /\ Begin(t, p) = p + 2 => At(t, p + 1, "{")
<1> DEFINE b == Begin(t, p)
<1>1. Len(t) \in Nat
  BY TextType
<1>2. At(t, p + 1, "{") => b = (p + 1) + 1 /\ p + 1 \in 1 .. Len(t)
  BY OpenedIs, AtIs DEF Begin
<1>3. ~At(t, p + 1, "{") => b = p + 1
  BY OpenedIs DEF Begin
<1> HIDE DEF b
<1>4. (p + 1) + 1 = p + 2 /\ p + 1 # p + 2
  BY <1>1
<1>5. b = p + 1 \/ (b = p + 2 /\ p + 1 \in 1 .. Len(t))
  BY <1>2, <1>3, <1>4
<1>6. b \in 1 .. Len(t) + 1
  BY <1>1, <1>5
<1> QED
  BY <1>2, <1>3, <1>4, <1>5, <1>6 DEF b

LEMMA StopIs ==
  ASSUME NEW t \in Text, NEW p \in 1 .. Len(t)
  PROVE  /\ Stop(t, p) \in Begin(t, p) .. Len(t) + 1
         /\ \A m \in Begin(t, p) .. Stop(t, p) - 1 : t[m] \in Pieces
         /\ Stop(t, p) = Len(t) + 1 \/ t[Stop(t, p)] \notin Pieces
<1>1. Begin(t, p) \in 1 .. Len(t) + 1
  BY BeginIs
<1>2. Stop(t, p) = RunEnd(t, Begin(t, p))
  BY DEF Begin, Stop
<1> QED
  BY <1>1, <1>2, RunEndFacts

LEMMA NameIs ==
  ASSUME NEW t \in Text, NEW p \in 1 .. Len(t)
  PROVE  /\ NameAt(t, p) = SubSeq(t, Begin(t, p), Stop(t, p) - 1)
         /\ NameAt(t, p) \in Seq(Pieces)
         /\ Len(NameAt(t, p)) = Stop(t, p) - Begin(t, p)
         /\ \A k \in 1 .. Stop(t, p) - Begin(t, p) :
              NameAt(t, p)[k] = t[Begin(t, p) + k - 1]
<1> DEFINE b == Begin(t, p)
           e == Stop(t, p)
           n == SubSeq(t, b, e - 1)
<1>1. NameAt(t, p) = n
  BY DEF NameAt, Begin, Stop
<1>2. Len(t) \in Nat
  BY TextType
<1>3. b \in 1 .. Len(t) + 1 /\ e \in b .. Len(t) + 1
  BY BeginIs, StopIs
<1>4. \A m \in b .. e - 1 : t[m] \in Pieces
  BY StopIs
<1> HIDE DEF b, e
<1>5. b \in Int /\ e - 1 \in Int /\ (e - 1) - b + 1 = e - b
      /\ (b <= e - 1 \/ e = b) /\ e - b >= 0
  BY <1>2, <1>3
<1>6. /\ n \in Seq(Pieces)
      /\ Len(n) = IF b <= e - 1 THEN (e - 1) - b + 1 ELSE 0
      /\ \A k \in 1 .. (e - 1) - b + 1 : n[k] = t[b + k - 1]
  BY <1>4, <1>5, SubSeqProperties
<1> HIDE DEF n
<1>7. Len(n) = e - b
  BY <1>3, <1>5, <1>6
<1> QED
  BY <1>1, <1>5, <1>6, <1>7 DEF n, b, e

LEMMA EndIs ==
  ASSUME NEW t \in Text, NEW p \in 1 .. Len(t)
  PROVE  /\ End(t, p) = Stop(t, p) \/ End(t, p) = Stop(t, p) + 1
         /\ End(t, p) \in p + 1 .. Len(t) + 1
         /\ At(t, Stop(t, p), "}") => End(t, p) = Stop(t, p) + 1
         /\ ~At(t, Stop(t, p), "}") => End(t, p) = Stop(t, p)
         /\ End(t, p) = Stop(t, p) + 1 => At(t, Stop(t, p), "}")
<1> DEFINE b == Begin(t, p)
           e == Stop(t, p)
           d == End(t, p)
           l == Len(NameAt(t, p))
<1>1. Len(t) \in Nat
  BY TextType
<1>2. (b = p + 1 \/ b = p + 2) /\ b \in 1 .. Len(t) + 1
  BY BeginIs
<1>3. e \in b .. Len(t) + 1
  BY StopIs
<1>4. l = e - b
  BY NameIs
<1>5. d = Closed(t, b + l)
  BY DEF End, MatchEnd, Begin
<1>6. At(t, e, "}") => e \in 1 .. Len(t)
  BY AtIs
<1> HIDE DEF b, e, d, l
<1>7. b + l = e
  BY <1>1, <1>2, <1>3, <1>4
<1>8. At(t, e, "}") => d = e + 1
  BY <1>5, <1>7, ClosedIs
<1>9. ~At(t, e, "}") => d = e
  BY <1>5, <1>7, ClosedIs
<1>10. d = e \/ (d = e + 1 /\ e \in 1 .. Len(t))
  BY <1>6, <1>8, <1>9
<1>11. d \in p + 1 .. Len(t) + 1 /\ e # e + 1
  BY <1>1, <1>2, <1>3, <1>10
<1> QED
  BY <1>8, <1>9, <1>10, <1>11 DEF b, e, d

(* A match holds no $ but its first symbol, and no [ and no quote. *)
LEMMA MatchHolds ==
  ASSUME NEW t \in Text, NEW p \in 1 .. Len(t), NEW r \in p + 1 .. End(t, p) - 1
  PROVE  /\ r \in 1 .. Len(t)
         /\ t[r] \in Pieces \cup {"{", "}"}
         /\ t[r] # "$" /\ t[r] # "[" /\ t[r] # Quote
<1> DEFINE b == Begin(t, p)
           e == Stop(t, p)
           d == End(t, p)
<1>1. /\ b = p + 1 \/ b = p + 2
      /\ e \in b .. Len(t) + 1
      /\ d = e \/ d = e + 1
      /\ d \in p + 1 .. Len(t) + 1
  BY BeginIs, StopIs, EndIs
<1>2. Len(t) \in Nat
  BY TextType
<1>3. b = p + 2 => t[p + 1] = "{"
  <2>1. b = p + 2 => At(t, p + 1, "{")
    BY BeginIs
  <2>2. At(t, p + 1, "{") => t[p + 1] = "{"
    BY AtIs
  <2> QED
    BY <2>1, <2>2
<1>4. d = e + 1 => t[e] = "}"
  BY EndIs, AtIs
<1>5. \A m \in b .. e - 1 : t[m] \in Pieces
  BY StopIs
<1>6. r \in p + 1 .. d - 1
  OBVIOUS
<1> HIDE DEF b, e, d
<1>7. r \in 1 .. Len(t)
  BY <1>1, <1>2, <1>6
<1>8. (r = p + 1 /\ b = p + 2) \/ r \in b .. e - 1 \/ (r = e /\ d = e + 1)
  BY <1>1, <1>2, <1>6
<1>9. t[r] \in Pieces \cup {"{", "}"}
  BY <1>3, <1>4, <1>5, <1>8
<1> QED
  BY <1>7, <1>9, SymbolsApart

LEMMA TextHolds ==
  ASSUME NEW t \in Text, NEW i \in 1 .. Len(t)
  PROVE  i \in DOMAIN t /\ t[i] \in Symbols /\ i \in Nat
BY TextType

LEMMA MatchIs ==
  ASSUME NEW t \in Text, NEW p \in Matches(t)
  PROVE  /\ p \in 1 .. Len(t) /\ t[p] = "$" /\ IsLong(NameAt(t, p))
         /\ NameAt(t, p) \in Names
<1>1. p \in 1 .. Len(t) /\ t[p] = "$" /\ IsLong(NameAt(t, p))
  BY TextType DEF Matches
<1>2. NameAt(t, p) \in Seq(Pieces)
  BY <1>1, NameIs
<1>3. NameAt(t, p) # << >>
  <2> SUFFICES ASSUME NameAt(t, p) = << >> PROVE FALSE
    OBVIOUS
  <2>1. Len(NameAt(t, p)) = 0
    OBVIOUS
  <2> QED
    BY <1>1, <2>1 DEF IsLong
<1> QED
  BY <1>1, <1>2, <1>3 DEF Names

LEMMA Pair ==
  ASSUME NEW S, NEW a \in S, NEW b \in S
  PROVE  <<a, b>> \in Seq(S) /\ Len(<<a, b>>) = 2 /\ <<a, b>>[1] = a /\ <<a, b>>[2] = b
OBVIOUS

LEMMA Single ==
  ASSUME NEW S, NEW a \in S
  PROVE  <<a>> \in Seq(S) /\ Len(<<a>>) = 1 /\ <<a>>[1] = a
OBVIOUS

LEMMA BracedIs ==
  ASSUME NEW n \in Seq(Pieces)
  PROVE  /\ Braced(n) \in Text
         /\ Len(n) \in Nat
         /\ Len(Braced(n)) = Len(n) + 3
         /\ Braced(n)[1] = "$" /\ Braced(n)[2] = "{" /\ Braced(n)[Len(n) + 3] = "}"
         /\ \A k \in 1 .. Len(n) : Braced(n)[k + 2] = n[k]
<1> DEFINE s == <<"$", "{">>
           x == s \o n
           y == <<"}">>
           l == Len(n)
<1>1. n \in Seq(Symbols) /\ Len(n) \in Nat
  <2>1. Pieces \subseteq Symbols
    BY SymbolsApart
  <2> QED
    BY <2>1
<1>2. s \in Seq(Symbols) /\ Len(s) = 2 /\ y \in Seq(Symbols) /\ Len(y) = 1
  <2>1. "$" \in Symbols /\ "{" \in Symbols /\ "}" \in Symbols
    BY SymbolsApart
  <2>2. s \in Seq(Symbols) /\ Len(s) = 2
    BY Zenon, <2>1, Pair
  <2>3. y \in Seq(Symbols) /\ Len(y) = 1
    BY Zenon, <2>1, Single
  <2> QED
    BY <2>2, <2>3
<1>a. s[1] = "$" /\ s[2] = "{" /\ y[1] = "}"
  OBVIOUS
<1>3. Braced(n) = x \o y
  BY DEF Braced
<1> HIDE DEF s, y
<1>b. /\ x \in Seq(Symbols) /\ Len(x) = Len(s) + Len(n)
      /\ \A i \in 1 .. Len(s) + Len(n) : x[i] = IF i <= Len(s) THEN s[i] ELSE n[i - Len(s)]
  BY <1>1, <1>2, ConcatProperties
<1>4. /\ x \in Seq(Symbols) /\ Len(x) = 2 + l
      /\ \A i \in 1 .. 2 + l : x[i] = IF i <= 2 THEN s[i] ELSE n[i - 2]
  BY <1>2, <1>b
<1> HIDE DEF x
<1> DEFINE z == x \o y
<1>c. /\ z \in Seq(Symbols) /\ Len(z) = Len(x) + Len(y)
      /\ \A i \in 1 .. Len(x) + Len(y) : z[i] = IF i <= Len(x) THEN x[i] ELSE y[i - Len(x)]
  BY <1>2, <1>4, ConcatProperties
<1>5. /\ z \in Seq(Symbols) /\ Len(z) = 2 + l + 1
      /\ \A i \in 1 .. 2 + l + 1 : z[i] = IF i <= 2 + l THEN x[i] ELSE y[i - (2 + l)]
  BY <1>2, <1>4, <1>c
<1>d. l \in Nat
  BY <1>1
<1> HIDE DEF z, l
<1>6. 1 \in 1 .. 2 + l /\ 2 \in 1 .. 2 + l /\ 1 \in 1 .. 2 + l + 1 /\ 2 \in 1 .. 2 + l + 1
      /\ 1 <= 2 + l /\ 2 <= 2 + l
  BY <1>d
<1>7. z[1] = s[1] /\ z[2] = s[2]
  BY <1>4, <1>5, <1>6
<1>8. l + 3 \in 1 .. 2 + l + 1 /\ ~(l + 3 <= 2 + l) /\ (l + 3) - (2 + l) = 1 /\ 2 + l + 1 = l + 3
  BY <1>d
<1>9. z[l + 3] = y[1] /\ Len(z) = l + 3
  BY <1>5, <1>8
<1>10. ASSUME NEW k \in 1 .. l PROVE z[k + 2] = n[k]
  <2>1. k + 2 \in 1 .. 2 + l /\ k + 2 \in 1 .. 2 + l + 1 /\ k + 2 <= 2 + l /\ ~(k + 2 <= 2)
        /\ (k + 2) - 2 = k
    BY <1>d
  <2> QED
    BY <2>1, <1>4, <1>5
<1> QED
  BY <1>a, <1>d, <1>3, <1>5, <1>7, <1>9, <1>10 DEF z, l, Text

(* The place p is inside a match at one of the places A. *)
Inside(t, A, p) == \E i \in A : i < p /\ p < End(t, i)

(* A $ is not inside a match. *)
LEMMA DollarOutside ==
  ASSUME NEW t \in Text, NEW p \in 1 .. Len(t), t[p] = "$", NEW i \in 1 .. Len(t), i < p
  PROVE  End(t, i) <= p
<1>1. End(t, i) \in i + 1 .. Len(t) + 1 /\ Len(t) \in Nat
  BY EndIs, TextType
<1>2. ASSUME p < End(t, i) PROVE p \in i + 1 .. End(t, i) - 1
  BY <1>1, <1>2
<1>3. ~(p < End(t, i))
  BY <1>2, MatchHolds
<1> QED
  BY <1>1, <1>3

PartsAt(t, A) ==
  Parts(t, [i \in A |-> End(t, i)], [i \in A |-> Braced(NameAt(t, i))])

LEMMA PartsAre ==
  ASSUME NEW t \in Text, NEW A \in SUBSET Matches(t)
  PROVE  /\ PartsAt(t, A) \in Seq(Text)
         /\ Len(PartsAt(t, A)) = Len(t)
         /\ \A p \in A : PartsAt(t, A)[p] = Braced(NameAt(t, p))
         /\ \A p \in 1 .. Len(t) :
              /\ Inside(t, A, p) => p \notin A /\ PartsAt(t, A)[p] = << >>
              /\ p \notin A /\ ~Inside(t, A, p) => PartsAt(t, A)[p] = <<t[p]>>
         /\ RewrittenAt(t, A) = FlattenSeq(PartsAt(t, A))
<1> DEFINE parts == PartsAt(t, A)
           Part(p) == IF p \in A THEN Braced(NameAt(t, p))
                      ELSE IF Inside(t, A, p) THEN << >> ELSE <<t[p]>>
<1>1. DOMAIN t = 1 .. Len(t) /\ Len(t) \in Nat
  BY TextType
<1>2. parts = [p \in 1 .. Len(t) |-> Part(p)]
  BY <1>1 DEF PartsAt, Parts, Inside
<1>3. ASSUME NEW p \in A PROVE p \in 1 .. Len(t) /\ NameAt(t, p) \in Seq(Pieces) /\ t[p] = "$"
  BY MatchIs DEF Names
<1>4. ASSUME NEW p \in 1 .. Len(t) PROVE Part(p) \in Text
  <2>1. p \in A => Braced(NameAt(t, p)) \in Text
    BY <1>3, BracedIs
  <2>2. << >> \in Text
    BY DEF Text
  <2>3. <<t[p]>> \in Text
    BY TextType DEF Text
  <2> QED
    BY <2>1, <2>2, <2>3
<1>5. ASSUME NEW p \in 1 .. Len(t), Inside(t, A, p) PROVE p \notin A
  <2>1. PICK i \in A : i < p /\ p < End(t, i)
    BY <1>5 DEF Inside
  <2>2. i \in 1 .. Len(t)
    BY <1>3
  <2>3. End(t, i) \in i + 1 .. Len(t) + 1
    BY <2>2, EndIs
  <2>4. p \in i + 1 .. End(t, i) - 1
    BY <2>1, <2>2, <2>3, <1>1
  <2>5. t[p] # "$"
    BY <2>2, <2>4, MatchHolds
  <2> QED
    BY <2>5, <1>3
<1> HIDE DEF Part
<1>6. parts \in Seq(Text) /\ Len(parts) = Len(t)
  BY <1>1, <1>2, <1>4
<1>7. \A p \in 1 .. Len(t) : parts[p] = Part(p)
  BY <1>2
<1>8. RewrittenAt(t, A) = FlattenSeq(parts)
  BY DEF RewrittenAt, Replaced, PartsAt
<1> HIDE DEF parts
<1>9. ASSUME NEW p \in A PROVE parts[p] = Braced(NameAt(t, p))
  BY <1>3, <1>7 DEF Part
<1>10. ASSUME NEW p \in 1 .. Len(t)
       PROVE  /\ Inside(t, A, p) => p \notin A /\ parts[p] = << >>
              /\ p \notin A /\ ~Inside(t, A, p) => parts[p] = <<t[p]>>
  <2>1. ASSUME Inside(t, A, p) PROVE p \notin A /\ parts[p] = << >>
    BY <2>1, <1>5, <1>7 DEF Part
  <2>2. ASSUME p \notin A, ~Inside(t, A, p) PROVE parts[p] = <<t[p]>>
    BY <2>2, <1>7 DEF Part
  <2> QED
    BY <2>1, <2>2
<1> QED
  BY <1>6, <1>8, <1>9, <1>10 DEF parts

-----------------------------------------------------------------------------
(* Where the part of place p begins. *)
Place(f, p) == UpTo(f, p - 1) + 1

LEMMA ImagePlaces ==
  ASSUME NEW t \in Text, NEW A \in SUBSET Matches(t), NEW f, Flattens(f, PartsAt(t, A))
  PROVE  /\ RewrittenAt(t, A) \in Text
         /\ f[Len(t)] = RewrittenAt(t, A)
         /\ Len(RewrittenAt(t, A)) = UpTo(f, Len(t))
         /\ UpTo(f, 0) = 0
         /\ \A n \in 0 .. Len(t) : UpTo(f, n) \in Nat
         /\ \A n \in 1 .. Len(t) :
              /\ Size(PartsAt(t, A), n) \in Nat
              /\ UpTo(f, n) = UpTo(f, n - 1) + Size(PartsAt(t, A), n)
              /\ \A k \in 1 .. Size(PartsAt(t, A), n) :
                   RewrittenAt(t, A)[UpTo(f, n - 1) + k] = PartsAt(t, A)[n][k]
         /\ \A n \in 0 .. Len(t) : \A m \in 0 .. n : UpTo(f, m) <= UpTo(f, n)
         /\ \A q \in 1 .. Len(RewrittenAt(t, A)) :
              \E n \in 1 .. Len(t) : \E k \in 1 .. Size(PartsAt(t, A), n) : q = UpTo(f, n - 1) + k
<1> DEFINE parts == PartsAt(t, A)
           u == RewrittenAt(t, A)
           N == Len(t)
<1>1. parts \in Seq(Text) /\ Len(parts) = N /\ u = FlattenSeq(parts) /\ Flattens(f, parts)
  BY PartsAre
<1>2. N \in Nat
  BY TextType
<1> HIDE DEF parts, u, N
<1>3. f[N] = u
  BY <1>1 DEF Flattens
<1>4. /\ \A n \in 0 .. N : f[n] \in Text /\ UpTo(f, n) \in Nat
      /\ UpTo(f, 0) = 0
      /\ \A n \in 1 .. N :
           /\ Size(parts, n) \in Nat
           /\ UpTo(f, n) = UpTo(f, n - 1) + Size(parts, n)
           /\ \A k \in 1 .. Size(parts, n) : f[n][UpTo(f, n - 1) + k] = parts[n][k]
  <2>1. /\ \A n \in 0 .. Len(parts) : f[n] \in Text /\ UpTo(f, n) \in Nat
        /\ UpTo(f, 0) = 0
        /\ \A n \in 1 .. Len(parts) :
             /\ Size(parts, n) \in Nat
             /\ UpTo(f, n) = UpTo(f, n - 1) + Size(parts, n)
             /\ \A k \in 1 .. Size(parts, n) : f[n][UpTo(f, n - 1) + k] = parts[n][k]
    BY <1>1, PartPlaces
  <2> QED
    BY <2>1, <1>1
<1>5. u \in Text /\ Len(u) = UpTo(f, N)
  BY <1>2, <1>3, <1>4 DEF UpTo
<1>6. \A n \in 0 .. N : \A m \in 0 .. n : UpTo(f, m) <= UpTo(f, n)
                                          /\ \A q \in 1 .. UpTo(f, m) : f[n][q] = f[m][q]
  <2>1. \A n \in 0 .. Len(parts) : \A m \in 0 .. n :
          UpTo(f, m) <= UpTo(f, n) /\ \A q \in 1 .. UpTo(f, m) : f[n][q] = f[m][q]
    BY <1>1, PartsGrow
  <2> QED
    BY <2>1, <1>1
<1>7. ASSUME NEW n \in 1 .. N, NEW k \in 1 .. Size(parts, n)
      PROVE  u[UpTo(f, n - 1) + k] = parts[n][k]
  <2> DEFINE q == UpTo(f, n - 1) + k
  <2>1. n \in 0 .. N /\ N \in 0 .. N /\ n \in 0 .. N /\ n - 1 \in 0 .. N
    BY <1>2
  <2>2. /\ UpTo(f, n - 1) \in Nat /\ Size(parts, n) \in Nat
        /\ UpTo(f, n) = UpTo(f, n - 1) + Size(parts, n)
    BY <1>4, <2>1
  <2>3. q \in 1 .. UpTo(f, n)
    BY <2>2
  <2>4. f[n][q] = parts[n][k]
    BY <1>4
  <2> HIDE DEF q
  <2>5. f[N][q] = f[n][q]
    BY <1>6, <2>1, <2>3
  <2> QED
    BY <2>4, <2>5, <1>3 DEF q
<1>8. ASSUME NEW q \in 1 .. Len(u)
      PROVE  \E n \in 1 .. N : \E k \in 1 .. Size(parts, n) : q = UpTo(f, n - 1) + k
  <2>1. q \in 1 .. UpTo(f, Len(parts))
    BY <1>1, <1>5
  <2>2. \E n \in 1 .. Len(parts) : \E k \in 1 .. Size(parts, n) : q = UpTo(f, n - 1) + k
    BY <1>1, <2>1, PartOfPlace
  <2> QED
    BY <2>2, <1>1
<1>9. \A n \in 0 .. N : \A m \in 0 .. n : UpTo(f, m) <= UpTo(f, n)
  BY <1>6
<1> QED
  BY <1>3, <1>4, <1>5, <1>7, <1>8, <1>9 DEF parts, u, N

(* The parts of a match that is rewritten, of what it covers, and of other *)
(* text.                                                                   *)
IsRewritten(t, A, f, p) ==
  /\ p \in 1 .. Len(t) /\ Len(NameAt(t, p)) \in Nat /\ UpTo(f, p - 1) \in Nat
  /\ UpTo(f, p) = UpTo(f, p - 1) + Len(NameAt(t, p)) + 3
  /\ RewrittenAt(t, A)[UpTo(f, p - 1) + 1] = "$"
  /\ RewrittenAt(t, A)[UpTo(f, p - 1) + 2] = "{"
  /\ \A k \in 1 .. Len(NameAt(t, p)) :
         RewrittenAt(t, A)[UpTo(f, p - 1) + 2 + k] = NameAt(t, p)[k]
  /\ RewrittenAt(t, A)[UpTo(f, p)] = "}"

LEMMA RewrittenPart ==
  ASSUME NEW t \in Text, NEW A \in SUBSET Matches(t), NEW f, Flattens(f, PartsAt(t, A)),
         NEW p \in A
  PROVE  IsRewritten(t, A, f, p)
<1> DEFINE parts == PartsAt(t, A)
           u == RewrittenAt(t, A)
           s == UpTo(f, p - 1)
           n == NameAt(t, p)
           b == Braced(n)
           l == Len(n)
<1>1. p \in 1 .. Len(t) /\ n \in Names
  BY MatchIs
<1>2. parts[p] = b
  BY PartsAre
<1>3. /\ Size(parts, p) \in Nat
      /\ UpTo(f, p) = s + Size(parts, p)
      /\ \A k \in 1 .. Size(parts, p) : u[s + k] = parts[p][k]
  BY <1>1, ImagePlaces
<1>4. s \in Nat
  <2>1. p - 1 \in 0 .. Len(t)
    BY <1>1, TextType
  <2> QED
    BY <2>1, ImagePlaces
<1>5. /\ l \in Nat /\ Len(b) = l + 3
      /\ b[1] = "$" /\ b[2] = "{" /\ b[l + 3] = "}"
      /\ \A k \in 1 .. l : b[k + 2] = n[k]
  <2>1. n \in Seq(Pieces)
    BY <1>1 DEF Names
  <2> HIDE DEF n
  <2> QED
    BY <2>1, BracedIs
<1>6. Size(parts, p) = l + 3
  BY <1>2, <1>5 DEF Size
<1> HIDE DEF parts, u, s, n, b, l
<1>7. l \in Nat
  BY <1>5
<1>8. UpTo(f, p) = s + l + 3 /\ UpTo(f, p) = s + (l + 3)
  BY <1>3, <1>4, <1>6, <1>7
<1>9. 1 \in 1 .. l + 3 /\ 2 \in 1 .. l + 3 /\ l + 3 \in 1 .. l + 3
      /\ \A k \in 1 .. l : k + 2 \in 1 .. l + 3 /\ s + (k + 2) = s + 2 + k
  BY <1>4, <1>7
<1>10. \A k \in 1 .. l + 3 : u[s + k] = b[k]
  BY <1>2, <1>3, <1>6
<1>11. u[s + 1] = "$"
  BY <1>5, <1>9, <1>10
<1>12. u[s + 2] = "{"
  BY <1>5, <1>9, <1>10
<1>13. u[UpTo(f, p)] = "}"
  BY <1>5, <1>8, <1>9, <1>10
<1>14. ASSUME NEW k \in 1 .. l PROVE u[s + 2 + k] = n[k]
  <2>1. k + 2 \in 1 .. l + 3 /\ s + (k + 2) = s + 2 + k
    BY <1>9
  <2>2. u[s + (k + 2)] = b[k + 2]
    BY <2>1, <1>10
  <2>3. b[k + 2] = n[k]
    BY <1>5
  <2> QED
    BY <2>1, <2>2, <2>3
<1> QED
  BY <1>1, <1>4, <1>7, <1>8, <1>11, <1>12, <1>13, <1>14 DEF u, s, n, l, IsRewritten

(* Its facts one by one, as most proofs need numbers or symbols only.      *)
LEMMA RewrittenSize ==
  ASSUME NEW t \in Text, NEW A \in SUBSET Matches(t), NEW f, Flattens(f, PartsAt(t, A)),
         NEW p \in A
  PROVE  /\ p \in 1 .. Len(t) /\ Len(NameAt(t, p)) \in Nat /\ UpTo(f, p - 1) \in Nat
         /\ UpTo(f, p) = UpTo(f, p - 1) + Len(NameAt(t, p)) + 3
<1>1. IsRewritten(t, A, f, p)
  BY RewrittenPart
<1> QED
  BY <1>1 DEF IsRewritten

LEMMA RewrittenDollar ==
  ASSUME NEW t \in Text, NEW A \in SUBSET Matches(t), NEW f, Flattens(f, PartsAt(t, A)),
         NEW p \in A
  PROVE  RewrittenAt(t, A)[UpTo(f, p - 1) + 1] = "$"
<1>1. IsRewritten(t, A, f, p)
  BY RewrittenPart
<1> QED
  BY <1>1 DEF IsRewritten

LEMMA RewrittenBrace ==
  ASSUME NEW t \in Text, NEW A \in SUBSET Matches(t), NEW f, Flattens(f, PartsAt(t, A)),
         NEW p \in A
  PROVE  RewrittenAt(t, A)[UpTo(f, p - 1) + 2] = "{"
<1>1. IsRewritten(t, A, f, p)
  BY RewrittenPart
<1> QED
  BY <1>1 DEF IsRewritten

LEMMA RewrittenLetters ==
  ASSUME NEW t \in Text, NEW A \in SUBSET Matches(t), NEW f, Flattens(f, PartsAt(t, A)),
         NEW p \in A
  PROVE  \A k \in 1 .. Len(NameAt(t, p)) :
           RewrittenAt(t, A)[UpTo(f, p - 1) + 2 + k] = NameAt(t, p)[k]
<1>1. IsRewritten(t, A, f, p)
  BY RewrittenPart
<1> QED
  BY <1>1 DEF IsRewritten

LEMMA RewrittenEnd ==
  ASSUME NEW t \in Text, NEW A \in SUBSET Matches(t), NEW f, Flattens(f, PartsAt(t, A)),
         NEW p \in A
  PROVE  RewrittenAt(t, A)[UpTo(f, p)] = "}"
<1>1. IsRewritten(t, A, f, p)
  BY RewrittenPart
<1> QED
  BY <1>1 DEF IsRewritten

LEMMA CoveredPart ==
  ASSUME NEW t \in Text, NEW A \in SUBSET Matches(t), NEW f, Flattens(f, PartsAt(t, A)),
         NEW p \in 1 .. Len(t), Inside(t, A, p)
  PROVE  UpTo(f, p) = UpTo(f, p - 1) /\ Size(PartsAt(t, A), p) = 0
<1>1. PartsAt(t, A)[p] = << >>
  BY PartsAre
<1>2. Size(PartsAt(t, A), p) = 0
  BY <1>1 DEF Size
<1>3. UpTo(f, p) = UpTo(f, p - 1) + Size(PartsAt(t, A), p)
  BY ImagePlaces
<1>4. UpTo(f, p - 1) \in Nat
  <2>1. p - 1 \in 0 .. Len(t)
    BY TextType
  <2> QED
    BY <2>1, ImagePlaces
<1> QED
  BY <1>2, <1>3, <1>4

LEMMA KeptPart ==
  ASSUME NEW t \in Text, NEW A \in SUBSET Matches(t), NEW f, Flattens(f, PartsAt(t, A)),
         NEW p \in 1 .. Len(t), ~Inside(t, A, p), p \notin A
  PROVE  /\ UpTo(f, p) = UpTo(f, p - 1) + 1 /\ Size(PartsAt(t, A), p) = 1
         /\ RewrittenAt(t, A)[UpTo(f, p)] = t[p]
<1>1. PartsAt(t, A)[p] = <<t[p]>>
  BY PartsAre
<1>2. Size(PartsAt(t, A), p) = 1 /\ PartsAt(t, A)[p][1] = t[p]
  BY <1>1 DEF Size
<1>3. /\ UpTo(f, p) = UpTo(f, p - 1) + Size(PartsAt(t, A), p)
      /\ \A k \in 1 .. Size(PartsAt(t, A), p) :
           RewrittenAt(t, A)[UpTo(f, p - 1) + k] = PartsAt(t, A)[p][k]
  BY ImagePlaces
<1>4. UpTo(f, p) = UpTo(f, p - 1) + 1
  BY <1>2, <1>3
<1>5. RewrittenAt(t, A)[UpTo(f, p - 1) + 1] = PartsAt(t, A)[p][1]
  BY <1>2, <1>3
<1> QED
  BY <1>2, <1>4, <1>5

(* The symbol at a place that no match covers. *)
LEMMA OutsidePart ==
  ASSUME NEW t \in Text, NEW A \in SUBSET Matches(t), NEW f, Flattens(f, PartsAt(t, A)),
         NEW p \in 1 .. Len(t), ~Inside(t, A, p)
  PROVE  /\ UpTo(f, p - 1) \in Nat
         /\ UpTo(f, p - 1) + 1 <= UpTo(f, p)
         /\ UpTo(f, p) <= Len(RewrittenAt(t, A))
         /\ Place(f, p) \in 1 .. Len(RewrittenAt(t, A))
         /\ RewrittenAt(t, A)[Place(f, p)] = t[p]
<1>1. p - 1 \in 0 .. Len(t) /\ p \in 0 .. Len(t) /\ Len(t) \in 0 .. Len(t)
  BY TextType
<1>2. UpTo(f, p - 1) \in Nat /\ UpTo(f, p) \in Nat
  BY <1>1, ImagePlaces
<1>3. UpTo(f, p) <= Len(RewrittenAt(t, A))
  BY <1>1, ImagePlaces
<1>4. CASE p \in A
  <2>1. Len(NameAt(t, p)) \in Nat /\ UpTo(f, p) = UpTo(f, p - 1) + Len(NameAt(t, p)) + 3
    BY <1>4, RewrittenSize
  <2>4. RewrittenAt(t, A)[UpTo(f, p - 1) + 1] = "$"
    BY <1>4, RewrittenDollar
  <2>2. t[p] = "$"
    BY <1>4, MatchIs
  <2>3. UpTo(f, p - 1) + 1 <= UpTo(f, p)
    BY <2>1, <1>2
  <2>5. RewrittenAt(t, A)[UpTo(f, p - 1) + 1] = t[p]
    BY <2>2, <2>4
  <2>6. UpTo(f, p - 1) + 1 \in 1 .. Len(RewrittenAt(t, A))
    <3>1. Len(RewrittenAt(t, A)) \in Nat
      BY ImagePlaces, TextType
    <3> QED
      BY <3>1, <1>2, <1>3, <2>3
  <2> QED
    BY <1>2, <1>3, <2>3, <2>5, <2>6 DEF Place
<1>5. CASE p \notin A
  <2>1. UpTo(f, p) = UpTo(f, p - 1) + 1 /\ RewrittenAt(t, A)[UpTo(f, p)] = t[p]
    BY <1>5, KeptPart
  <2> QED
    BY <1>2, <1>3, <2>1 DEF Place
<1> QED
  BY <1>4, <1>5

LEMMA AtTheEnd ==
  ASSUME NEW n \in Nat, NEW b \in Nat, NEW e \in b .. n + 1, NEW d \in Nat,
         d = e \/ d = e + 1, d <= n + 1, ~(e <= n)
  PROVE  e = n + 1 /\ d = e
OBVIOUS

(* Two texts that agree on a match and on the symbol after it have the     *)
(* same name there.                                                        *)
LEMMA SameStretch ==
  ASSUME NEW t \in Text, NEW u \in Text, NEW p \in 1 .. Len(t), NEW q \in 1 .. Len(u),
         \A r \in p .. End(t, p) : r <= Len(t) =>
           q + (r - p) \in 1 .. Len(u) /\ u[q + (r - p)] = t[r],
         End(t, p) = Len(t) + 1 => q + (End(t, p) - p) = Len(u) + 1
  PROVE  NameAt(u, q) = NameAt(t, p) /\ End(u, q) = q + (End(t, p) - p)
<1> DEFINE b == Begin(t, p)
           e == Stop(t, p)
           d == End(t, p)
           bu == Begin(u, q)
           j == q + (e - p)
<1>1. /\ b = p + 1 \/ b = p + 2
      /\ b \in 1 .. Len(t) + 1
      /\ e \in b .. Len(t) + 1
      /\ d = e \/ d = e + 1
      /\ d \in p + 1 .. Len(t) + 1
  BY BeginIs, StopIs, EndIs
<1>2. Len(t) \in Nat /\ Len(u) \in Nat
  BY TextType
<1>3. /\ At(t, p + 1, "{") => b = p + 2
      /\ ~At(t, p + 1, "{") => b = p + 1
  BY BeginIs
<1>4. /\ At(u, q + 1, "{") => bu = q + 2
      /\ ~At(u, q + 1, "{") => bu = q + 1
  BY BeginIs
<1>5. \A m \in b .. e - 1 : t[m] \in Pieces
  BY StopIs
<1>6. e = Len(t) + 1 \/ t[e] \notin Pieces
  BY StopIs
<1>7. /\ At(t, e, "}") => d = e + 1
      /\ ~At(t, e, "}") => d = e
  BY EndIs
<1>8. \A r \in p .. d : r <= Len(t) => q + (r - p) \in 1 .. Len(u)
  OBVIOUS
<1>9. \A r \in p .. d : r <= Len(t) => u[q + (r - p)] = t[r]
  OBVIOUS
<1>10. d = Len(t) + 1 => q + (d - p) = Len(u) + 1
  OBVIOUS
<1> HIDE DEF b, e, d, bu, j
<1>11. j \in Nat
  BY <1>1, <1>2 DEF j
<1>a. /\ p + 1 <= Len(t) => p + 1 \in p .. d /\ p + 1 \in 1 .. Len(t) /\ q + ((p + 1) - p) = q + 1
      /\ ~(p + 1 <= Len(t)) => d = Len(t) + 1 /\ q + (d - p) = q + 1 /\ p + 1 \notin 1 .. Len(t)
  BY <1>1, <1>2
<1>b. p + 1 <= Len(t) => q + 1 \in 1 .. Len(u) /\ u[q + 1] = t[p + 1]
  <2>1. ASSUME p + 1 <= Len(t)
        PROVE  q + ((p + 1) - p) \in 1 .. Len(u) /\ u[q + ((p + 1) - p)] = t[p + 1]
    BY <2>1, <1>8, <1>9, <1>a
  <2> QED
    BY <2>1, <1>a
<1>c. ~(p + 1 <= Len(t)) => q + 1 \notin 1 .. Len(u)
  <2>1. q + 1 = Len(u) + 1 => q + 1 \notin 1 .. Len(u)
    BY <1>2
  <2> QED
    BY <2>1, <1>10, <1>a
<1>12. At(t, p + 1, "{") <=> At(u, q + 1, "{")
  <2>1. At(t, p + 1, "{") <=> p + 1 \in 1 .. Len(t) /\ t[p + 1] = "{"
    BY AtIs
  <2>2. At(u, q + 1, "{") <=> q + 1 \in 1 .. Len(u) /\ u[q + 1] = "{"
    BY AtIs
  <2>3. CASE p + 1 <= Len(t)
    BY <2>1, <2>2, <2>3, <1>a, <1>b
  <2>4. CASE ~(p + 1 <= Len(t))
    BY <2>1, <2>2, <2>4, <1>a, <1>c
  <2> QED
    BY <2>3, <2>4
<1>14. bu = q + (b - p)
  <2>1. CASE At(t, p + 1, "{")
    <3>1. b = p + 2 /\ bu = q + 2
      BY <2>1, <1>3, <1>4, <1>12
    <3> QED
      BY <3>1, <1>2
  <2>2. CASE ~At(t, p + 1, "{")
    <3>1. b = p + 1 /\ bu = q + 1
      BY <2>2, <1>3, <1>4, <1>12
    <3> QED
      BY <3>1, <1>2
  <2> QED
    BY <2>1, <2>2
<1>15. e <= Len(t) => j \in 1 .. Len(u) /\ e \in p .. d
  <2>1. e \in p .. d
    BY <1>1, <1>2
  <2> QED
    BY <2>1, <1>8 DEF j
<1>16. ~(e <= Len(t)) => j = Len(u) + 1 /\ e = Len(t) + 1 /\ d = e
  <2> SUFFICES ASSUME ~(e <= Len(t)) PROVE j = Len(u) + 1 /\ e = Len(t) + 1 /\ d = e
    OBVIOUS
  <2>1. b \in Nat /\ d \in Nat /\ d <= Len(t) + 1
    BY <1>1, <1>2
  <2>2. e = Len(t) + 1 /\ d = e
    BY <2>1, <1>1, <1>2, AtTheEnd
  <2> QED
    BY <2>2, <1>10 DEF j
<1>17. e <= Len(t) => u[j] = t[e]
  BY <1>9, <1>15 DEF j
<1>18. j \in bu .. Len(u) + 1 /\ bu \in 1 .. Len(u) + 1
  BY <1>1, <1>2, <1>14, <1>15, <1>16 DEF j
<1>19. ASSUME NEW m \in bu .. j - 1
       PROVE  u[m] \in Pieces /\ m - q + p \in b .. e - 1 /\ u[m] = t[m - q + p]
  <2> DEFINE r == m - q + p
  <2>1. r \in b .. e - 1 /\ r \in p .. d /\ r <= Len(t) /\ q + (r - p) = m
    BY <1>1, <1>2, <1>14, <1>18 DEF j
  <2> HIDE DEF r
  <2>2. u[m] = t[r]
    BY <2>1, <1>9
  <2>3. t[r] \in Pieces
    BY <2>1, <1>5
  <2> QED
    BY <2>1, <2>2, <2>3 DEF r
<1>20. j = Len(u) + 1 \/ u[j] \notin Pieces
  <2>1. CASE e <= Len(t)
    <3>1. e # Len(t) + 1
      BY <2>1, <1>2
    <3> QED
      BY <2>1, <3>1, <1>6, <1>17
  <2> QED
    BY <2>1, <1>16
<1>21. Stop(u, q) = j
  <2>1. \A m \in bu .. j - 1 : u[m] \in Pieces
    BY <1>19
  <2>2. RunEnd(u, bu) = j
    BY <2>1, <1>18, <1>20, RunEndIs
  <2> QED
    BY <2>2 DEF Stop, Begin, bu
<1>22. /\ NameAt(t, p) \in Seq(Pieces)
       /\ Len(NameAt(t, p)) = e - b
       /\ \A k \in 1 .. e - b : NameAt(t, p)[k] = t[b + k - 1]
  BY NameIs DEF e, b
<1>23. /\ NameAt(u, q) \in Seq(Pieces)
       /\ Len(NameAt(u, q)) = j - bu
       /\ \A k \in 1 .. j - bu : NameAt(u, q)[k] = u[bu + k - 1]
  BY <1>21, NameIs DEF bu
<1>24. NameAt(u, q) = NameAt(t, p)
  <2>1. j - bu = e - b
    BY <1>1, <1>2, <1>14 DEF j
  <2>2. ASSUME NEW k \in 1 .. e - b PROVE NameAt(u, q)[k] = NameAt(t, p)[k]
    <3>1. bu + k - 1 \in bu .. j - 1 /\ (bu + k - 1) - q + p = b + k - 1
      BY <1>1, <1>2, <1>14 DEF j
    <3>2. u[bu + k - 1] = t[b + k - 1]
      BY <3>1, <1>19
    <3>3. NameAt(u, q)[k] = u[bu + k - 1]
      BY <2>1, <1>23
    <3> QED
      BY <3>2, <3>3, <1>22
  <2> DEFINE x == NameAt(u, q)
             y == NameAt(t, p)
  <2>3. /\ x \in Seq(Pieces) /\ y \in Seq(Pieces) /\ Len(x) = Len(y)
        /\ \A k \in 1 .. Len(x) : x[k] = y[k]
    BY <2>1, <2>2, <1>22, <1>23
  <2> HIDE DEF x, y
  <2>4. x = y
    BY <2>3, SeqEqual
  <2> QED
    BY <2>4 DEF x, y
<1>25. At(t, e, "}") <=> At(u, j, "}")
  <2>1. CASE e <= Len(t)
    <3>1. e \in 1 .. Len(t)
      BY <2>1, <1>1, <1>2
    <3> QED
      BY <3>1, <2>1, <1>15, <1>17, AtIs, ZenonT(20)
  <2>2. CASE ~(e <= Len(t))
    <3>1. e \notin 1 .. Len(t)
      BY <2>2, <1>2
    <3>2. j \notin 1 .. Len(u)
      BY <2>2, <1>2, <1>16
    <3> QED
      BY <3>1, <3>2, AtIs
  <2> QED
    BY <2>1, <2>2
<1>26. End(u, q) = q + (d - p)
  <2>0. /\ At(u, j, "}") => End(u, q) = j + 1
        /\ ~At(u, j, "}") => End(u, q) = j
    BY <1>21, EndIs
  <2>1. CASE At(t, e, "}")
    <3>1. d = e + 1 /\ End(u, q) = j + 1
      BY <2>0, <2>1, <1>7, <1>25
    <3> QED
      BY <3>1, <1>1, <1>2 DEF j
  <2>2. CASE ~At(t, e, "}")
    <3>1. d = e /\ End(u, q) = j
      BY <2>0, <2>2, <1>7, <1>25
    <3> QED
      BY <3>1 DEF j
  <2> QED
    BY <2>1, <2>2
<1> QED
  BY <1>24, <1>26 DEF d

LEMMA DollarPart ==
  ASSUME NEW t \in Text, NEW A \in SUBSET Matches(t), NEW p \in 1 .. Len(t), t[p] = "$"
  PROVE  ~Inside(t, A, p)
<1> SUFFICES ASSUME Inside(t, A, p) PROVE FALSE
  OBVIOUS
<1>1. PICK i \in A : i < p /\ p < End(t, i)
  BY DEF Inside
<1>2. i \in 1 .. Len(t)
  BY MatchIs
<1>3. End(t, i) <= p
  BY <1>1, <1>2, DollarOutside
<1>4. End(t, i) \in Int /\ p \in Int
  <2>1. End(t, i) \in i + 1 .. Len(t) + 1
    BY <1>2, EndIs
  <2> QED
    BY <2>1
<1>5. ~(End(t, i) <= p /\ p < End(t, i))
  BY <1>4
<1> QED
  BY <1>1, <1>3, <1>5

LEMMA PlacesOrdered ==
  ASSUME NEW t \in Text, NEW A \in SUBSET Matches(t), NEW f, Flattens(f, PartsAt(t, A)),
         NEW p \in 1 .. Len(t), NEW r \in p + 1 .. Len(t) + 1, ~Inside(t, A, p)
  PROVE  Place(f, p) <= UpTo(f, p) /\ UpTo(f, p) <= UpTo(f, r - 1) /\ Place(f, p) < Place(f, r)
         /\ UpTo(f, p) \in Nat /\ UpTo(f, r - 1) \in Nat /\ Place(f, p) \in Nat
<1>1. Len(t) \in Nat
  BY TextType
<1>2. p - 1 \in 0 .. Len(t) /\ p \in 0 .. Len(t) /\ r - 1 \in 0 .. Len(t) /\ p \in 0 .. r - 1
  BY <1>1
<1>3. UpTo(f, p - 1) \in Nat /\ UpTo(f, p) \in Nat /\ UpTo(f, r - 1) \in Nat
  BY <1>2, ImagePlaces
<1>4. UpTo(f, p - 1) + 1 <= UpTo(f, p)
  BY OutsidePart
<1>5. UpTo(f, p) <= UpTo(f, r - 1)
  BY <1>2, ImagePlaces
<1> QED
  BY <1>3, <1>4, <1>5 DEF Place

(* What is covered takes no place, what is kept takes one each. *)
LEMMA CoveredStretch ==
  ASSUME NEW t \in Text, NEW A \in SUBSET Matches(t), NEW f, Flattens(f, PartsAt(t, A)),
         NEW b \in 0 .. Len(t), NEW a \in 0 .. b,
         \A q \in a + 1 .. b : Inside(t, A, q)
  PROVE  UpTo(f, b) = UpTo(f, a)
<1> DEFINE parts == PartsAt(t, A)
<1>1. parts \in Seq(Text) /\ Len(parts) = Len(t)
  BY PartsAre
<1>2. ASSUME NEW q \in a + 1 .. b PROVE parts[q] = << >>
  <2>1. q \in 1 .. Len(t)
    BY TextType
  <2> QED
    BY <2>1, PartsAre
<1>3. Flattens(f, parts)
  OBVIOUS
<1> HIDE DEF parts
<1>4. b \in 0 .. Len(parts)
  BY <1>1
<1>5. f[b] = f[a]
  BY <1>1, <1>2, <1>3, <1>4, EmptyStretch
<1> QED
  BY <1>5 DEF UpTo

LEMMA KeptStretch ==
  ASSUME NEW t \in Text, NEW A \in SUBSET Matches(t), NEW f, Flattens(f, PartsAt(t, A)),
         NEW b \in 0 .. Len(t), NEW a \in 0 .. b,
         \A q \in a + 1 .. b : q \notin A /\ ~Inside(t, A, q)
  PROVE  UpTo(f, b) = UpTo(f, a) + (b - a)
<1> DEFINE T == {n \in 0 .. Len(t) : a <= n /\ n <= b => UpTo(f, n) = UpTo(f, a) + (n - a)}
<1>0. Len(t) \in Nat /\ a \in 0 .. Len(t)
  BY TextType
<1>1. \A n \in 0 .. Len(t) : UpTo(f, n) \in Nat
  BY ImagePlaces
<1>2. 0 \in T
  <2>1. a <= 0 => a = 0
    BY <1>0
  <2> QED
    BY <2>1, <1>0, <1>1
<1>3. ASSUME NEW n \in 1 .. Len(t), n - 1 \in T PROVE n \in T
  <2>1. SUFFICES ASSUME a <= n, n <= b PROVE UpTo(f, n) = UpTo(f, a) + (n - a)
    BY <1>0
  <2>2. CASE n = a
    BY <2>2, <1>0, <1>1
  <2>3. CASE n # a
    <3>1. n \in a + 1 .. b /\ a <= n - 1 /\ n - 1 <= b /\ n - 1 \in 0 .. Len(t)
      BY <2>1, <2>3, <1>0
    <3>2. UpTo(f, n - 1) = UpTo(f, a) + ((n - 1) - a)
      BY <3>1, <1>3
    <3>3. UpTo(f, n) = UpTo(f, n - 1) + 1
      BY <3>1, KeptPart
    <3> QED
      BY <3>1, <3>2, <3>3, <1>0, <1>1
  <2> QED
    BY <2>2, <2>3
<1>4. b \in T
  <2> HIDE DEF T
  <2>1. \A k \in 0 .. Len(t) : k \in T
    BY <1>0, <1>2, <1>3, Induct
  <2> QED
    BY <2>1
<1> QED
  BY <1>4, <1>0

(* The name of a placeholder that is rewritten, where it is then. *)
LEMMA RewrittenName ==
  ASSUME NEW t \in Text, NEW A \in SUBSET Matches(t), NEW f, Flattens(f, PartsAt(t, A)),
         NEW p \in A
  PROVE  /\ NameAt(RewrittenAt(t, A), Place(f, p)) = NameAt(t, p)
         /\ End(RewrittenAt(t, A), Place(f, p)) = Place(f, End(t, p))
         /\ End(RewrittenAt(t, A), Place(f, p)) = UpTo(f, p) + 1
         /\ IsVariable(RewrittenAt(t, A), Place(f, p))
<1> DEFINE u == RewrittenAt(t, A)
           s == UpTo(f, p - 1)
           q == Place(f, p)
           n == NameAt(t, p)
           l == Len(n)
           j == s + l + 3
<1>1. p \in 1 .. Len(t) /\ s \in Nat /\ l \in Nat /\ UpTo(f, p) = j
  BY RewrittenSize
<1>2. u \in Text
  BY ImagePlaces
<1>3. u[s + 1] = "$"
  BY RewrittenDollar
<1>4. u[s + 2] = "{"
  BY RewrittenBrace
<1>5. \A k \in 1 .. l : u[s + 2 + k] = n[k]
  BY RewrittenLetters
<1>6. u[j] = "}"
  <2>1. u[UpTo(f, p)] = "}"
    BY RewrittenEnd
  <2> QED
    BY <1>1, <2>1
<1>7. n \in Names
  BY MatchIs
<1>8. j <= Len(u) /\ Len(u) \in Nat
  <2>1. p \in 0 .. Len(t) /\ Len(t) \in 0 .. Len(t)
    BY <1>1, TextType
  <2>2. UpTo(f, p) <= UpTo(f, Len(t)) /\ Len(u) = UpTo(f, Len(t)) /\ UpTo(f, Len(t)) \in Nat
    BY <2>1, ImagePlaces
  <2> QED
    BY <2>2, <1>1
<1>9. q = s + 1
  BY DEF Place
<1>10. End(t, p) \in p + 1 .. Len(t) + 1 /\ Len(t) \in Nat
  BY <1>1, EndIs, TextType
<1>11. Place(f, End(t, p)) = j + 1
  <2> DEFINE d == End(t, p)
  <2>1. d - 1 \in 0 .. Len(t) /\ p \in 0 .. d - 1
    BY <1>1, <1>10
  <2>2. \A r \in p + 1 .. d - 1 : p < r /\ r < d
    BY <1>1, <1>10
  <2>3. \A r \in p + 1 .. d - 1 : Inside(t, A, r)
    BY <2>2 DEF Inside
  <2> HIDE DEF d
  <2>4. UpTo(f, d - 1) = UpTo(f, p)
    BY <2>1, <2>3, CoveredStretch
  <2>5. Place(f, d) = j + 1
    BY <2>4, <1>1 DEF Place
  <2> QED
    BY <2>5 DEF d
<1> HIDE DEF u, s, q, n, l, j
<1>12. q \in 1 .. Len(u) /\ q + 1 \in 1 .. Len(u) /\ q + 1 = s + 2 /\ j \in q + 2 .. Len(u) + 1
       /\ q + 2 \in 1 .. Len(u) + 1 /\ j \in 1 .. Len(u) /\ j = q + 2 + l
  BY <1>1, <1>8, <1>9 DEF j
<1>13. At(u, q + 1, "{")
  BY <1>2, <1>4, <1>12, AtIs
<1>14. Begin(u, q) = q + 2
  BY <1>2, <1>12, <1>13, BeginIs
<1>15. \A k \in 1 .. l : n[k] \in Pieces
  BY <1>7 DEF Names, l
<1>16. ASSUME NEW m \in q + 2 .. j - 1 PROVE u[m] \in Pieces
  <2>1. m - (s + 2) \in 1 .. l /\ m = s + 2 + (m - (s + 2))
    BY <1>1, <1>9, <1>12
  <2> QED
    BY <2>1, <1>5, <1>15
<1>17. u[j] \notin Pieces
  BY <1>6, SymbolsApart
<1>18. RunEnd(u, q + 2) = j
  BY <1>2, <1>12, <1>16, <1>17, RunEndIs
<1>19. Stop(u, q) = j
  BY <1>14, <1>18 DEF Stop, Begin
<1>20. NameAt(u, q) = n
  <2>1. /\ NameAt(u, q) \in Seq(Pieces)
        /\ Len(NameAt(u, q)) = j - (q + 2)
        /\ \A k \in 1 .. j - (q + 2) : NameAt(u, q)[k] = u[(q + 2) + k - 1]
    BY <1>2, <1>12, <1>14, <1>19, NameIs
  <2>2. j - (q + 2) = l /\ \A k \in 1 .. l : (q + 2) + k - 1 = s + 2 + k
    BY <1>1, <1>9, <1>12
  <2> DEFINE x == NameAt(u, q)
  <2>3. x \in Seq(Pieces) /\ Len(x) = l /\ \A k \in 1 .. l : x[k] = n[k]
    BY <2>1, <2>2, <1>5
  <2> HIDE DEF x
  <2>4. n \in Seq(Pieces) /\ Len(n) = l
    BY <1>7 DEF Names, l
  <2>5. x = n
    BY <2>3, <2>4, SeqEqual
  <2> QED
    BY <2>5 DEF x
<1>21. End(u, q) = j + 1
  <2>1. At(u, j, "}")
    BY <1>2, <1>6, <1>12, AtIs
  <2> QED
    BY <2>1, <1>2, <1>12, <1>19, EndIs
<1>22. IsVariable(u, q)
  <2>1. u[q] = "$"
    BY <1>3, <1>9
  <2>2. n # << >>
    BY <1>7 DEF Names
  <2>3. At(u, RunEnd(u, q + 2), "}")
    <3>1. At(u, j, "}")
      BY <1>2, <1>6, <1>12, AtIs
    <3> QED
      BY <3>1, <1>18
  <2> QED
    BY <2>1, <2>2, <2>3, <1>13, <1>20 DEF IsVariable
<1> QED
  BY <1>1, <1>11, <1>20, <1>21, <1>22 DEF u, q, n

(* The name of a placeholder that is left as it is, where it is then. *)
LEMMA KeptName ==
  ASSUME NEW t \in Text, NEW A \in SUBSET Matches(t), NEW f, Flattens(f, PartsAt(t, A)),
         NEW p \in 1 .. Len(t), t[p] = "$", p \notin A
  PROVE  /\ NameAt(RewrittenAt(t, A), Place(f, p)) = NameAt(t, p)
         /\ End(RewrittenAt(t, A), Place(f, p)) = Place(f, End(t, p))
<1> DEFINE u == RewrittenAt(t, A)
           q == Place(f, p)
           d == End(t, p)
<1>1. Len(t) \in Nat /\ Len(u) = UpTo(f, Len(t)) /\ u \in Text
  BY TextType, ImagePlaces
<1>2. d \in p + 1 .. Len(t) + 1
  BY EndIs
<1>3. \A r \in p + 1 .. d - 1 : t[r] # "$"
  BY MatchHolds
<1>4. \A i \in A : i \in 1 .. Len(t) /\ t[i] = "$"
  BY MatchIs
<1>5. ASSUME NEW r \in p .. d, r <= Len(t) PROVE ~Inside(t, A, r)
  <2>1. SUFFICES ASSUME NEW i \in A, i < r, r < End(t, i) PROVE FALSE
    BY DEF Inside
  <2>2. i \in 1 .. Len(t) /\ End(t, i) \in Int
    <3>1. i \in 1 .. Len(t)
      BY <1>4
    <3>2. End(t, i) \in i + 1 .. Len(t) + 1
      BY <3>1, EndIs
    <3> QED
      BY <3>1, <3>2
  <2>3. i # p
    OBVIOUS
  <2>4. CASE i < p
    <3>1. End(t, i) <= p
      BY <2>2, <2>4, DollarOutside
    <3>2. ~(End(t, i) <= p /\ r < End(t, i))
      BY <2>2, <1>1, <1>2
    <3> QED
      BY <2>1, <3>1, <3>2
  <2>5. CASE p < i
    <3>1. i \in p + 1 .. d - 1
      BY <2>1, <2>2, <2>5, <1>1, <1>2
    <3> QED
      BY <3>1, <1>3, <1>4
  <2>6. i < p \/ i = p \/ p < i
    BY <2>2
  <2> QED
    BY <2>3, <2>4, <2>5, <2>6
<1>6. ASSUME NEW r \in p .. d PROVE UpTo(f, r - 1) = UpTo(f, p - 1) + (r - p)
  <2>1. r - 1 \in 0 .. Len(t) /\ p - 1 \in 0 .. r - 1 /\ (r - 1) - (p - 1) = r - p
        /\ (p - 1) + 1 = p
    BY <1>1, <1>2
  <2>2. ASSUME NEW x \in p .. r - 1 PROVE x \notin A /\ ~Inside(t, A, x)
    <3>1. x = p \/ x \in p + 1 .. d - 1
      BY <1>1, <1>2
    <3>2. x \in p .. d /\ x <= Len(t)
      BY <1>1, <1>2
    <3>3. x \notin A
      BY <3>1, <1>3, <1>4
    <3> QED
      BY <3>2, <3>3, <1>5
  <2>3. UpTo(f, r - 1) = UpTo(f, p - 1) + ((r - 1) - (p - 1))
    BY <2>1, <2>2, KeptStretch, SMTT(20)
  <2> QED
    BY <2>1, <2>3
<1>7. p - 1 \in 0 .. Len(t) /\ UpTo(f, p - 1) \in Nat
  <2>1. p - 1 \in 0 .. Len(t)
    BY <1>1
  <2> QED
    BY <2>1, ImagePlaces
<1> HIDE DEF u, q, d
<1>8. ASSUME NEW r \in p .. d PROVE Place(f, r) = q + (r - p)
  <2>1. UpTo(f, r - 1) + 1 = UpTo(f, p - 1) + 1 + (r - p)
    BY <1>6, <1>7, <1>2, <1>1
  <2> QED
    BY <2>1 DEF Place, q
<1>9. ASSUME NEW r \in p .. d, r <= Len(t)
      PROVE  q + (r - p) \in 1 .. Len(u) /\ u[q + (r - p)] = t[r]
  <2>1. r \in 1 .. Len(t)
    BY <1>9, <1>2, <1>1
  <2>2. Place(f, r) \in 1 .. Len(u) /\ u[Place(f, r)] = t[r]
    BY <2>1, <1>5, <1>9, OutsidePart DEF u
  <2> QED
    BY <2>2, <1>8
<1>10. d \in p .. d
  BY <1>1, <1>2
<1>11. ASSUME d = Len(t) + 1 PROVE q + (d - p) = Len(u) + 1
  <2>1. d - 1 = Len(t)
    BY <1>11, <1>1
  <2>2. Place(f, d) = UpTo(f, Len(t)) + 1
    BY <2>1 DEF Place
  <2> QED
    BY <2>2, <1>1, <1>8, <1>10
<1>12. q \in 1 .. Len(u)
  <2>1. p \in p .. d /\ p <= Len(t)
    BY <1>1, <1>2
  <2>2. Place(f, p) \in 1 .. Len(u)
    BY <2>1, <1>5, OutsidePart DEF u
  <2> QED
    BY <2>2 DEF q
<1>13. NameAt(u, q) = NameAt(t, p) /\ End(u, q) = q + (d - p)
  BY <1>1, <1>9, <1>11, <1>12, SameStretch DEF d
<1>14. End(u, q) = Place(f, d)
  BY <1>8, <1>10, <1>13
<1> QED
  BY <1>13, <1>14 DEF u, q, d

LEMMA NamesKept ==
  ASSUME NEW t \in Text, NEW A \in SUBSET Matches(t), NEW f, Flattens(f, PartsAt(t, A)),
         NEW p \in 1 .. Len(t), t[p] = "$"
  PROVE  /\ NameAt(RewrittenAt(t, A), Place(f, p)) = NameAt(t, p)
         /\ End(RewrittenAt(t, A), Place(f, p)) = Place(f, End(t, p))
         /\ Place(f, p) \in 1 .. Len(RewrittenAt(t, A))
         /\ RewrittenAt(t, A)[Place(f, p)] = "$"
<1>1. ~Inside(t, A, p)
  BY DollarPart
<1>2. Place(f, p) \in 1 .. Len(RewrittenAt(t, A)) /\ RewrittenAt(t, A)[Place(f, p)] = t[p]
  BY <1>1, OutsidePart
<1> QED
  BY <1>2, KeptName, RewrittenName

(* Rewriting makes no placeholder. *)
LEMMA DollarsKept ==
  ASSUME NEW t \in Text, NEW A \in SUBSET Matches(t), NEW f, Flattens(f, PartsAt(t, A)),
         NEW q \in 1 .. Len(RewrittenAt(t, A)), RewrittenAt(t, A)[q] = "$"
  PROVE  \E p \in 1 .. Len(t) : t[p] = "$" /\ q = Place(f, p)
<1> DEFINE u == RewrittenAt(t, A)
           parts == PartsAt(t, A)
<1>1. PICK p \in 1 .. Len(t) : \E k \in 1 .. Size(parts, p) : q = UpTo(f, p - 1) + k
  BY ImagePlaces
<1>2. PICK k \in 1 .. Size(parts, p) : q = UpTo(f, p - 1) + k
  BY <1>1
<1>3. UpTo(f, p - 1) \in Nat /\ Size(parts, p) \in Nat
  <2>1. p - 1 \in 0 .. Len(t)
    BY TextType
  <2> QED
    BY <2>1, ImagePlaces
<1>4. CASE p \in A
  <2> DEFINE l == Len(NameAt(t, p))
             s == UpTo(f, p - 1)
  <2>1. l \in Nat /\ UpTo(f, p) = s + l + 3
    BY <1>4, RewrittenSize
  <2>2. u[s + 2] = "{"
    BY <1>4, RewrittenBrace
  <2>3. \A i \in 1 .. l : u[s + 2 + i] = NameAt(t, p)[i]
    BY <1>4, RewrittenLetters
  <2>4. u[UpTo(f, p)] = "}"
    BY <1>4, RewrittenEnd
  <2>5. \A i \in 1 .. l : NameAt(t, p)[i] \in Pieces
    <3>1. NameAt(t, p) \in Seq(Pieces)
      BY <1>4, MatchIs DEF Names
    <3> QED
      BY <3>1
  <2>6. UpTo(f, p) = s + Size(parts, p)
    BY ImagePlaces
  <2>7. t[p] = "$"
    BY <1>4, MatchIs
  <2> HIDE DEF l, s
  <2>a. s \in Nat /\ q = s + k
    BY <1>2, <1>3 DEF s
  <2>8. k \in 1 .. l + 3
    BY <1>3, <2>a, <2>1, <2>6
  <2>9. k = 1 \/ q = s + 2 \/ (k - 2 \in 1 .. l /\ q = s + 2 + (k - 2)) \/ q = UpTo(f, p)
    BY <2>1, <2>8, <2>a
  <2>10. CASE k = 1
    BY <2>7, <2>10, <2>a DEF Place, s
  <2>11. q # s + 2
    BY <2>2, SymbolsApart
  <2>12. ~(k - 2 \in 1 .. l /\ q = s + 2 + (k - 2))
    BY <2>3, <2>5, SymbolsApart
  <2>13. q # UpTo(f, p)
    BY <2>4, SymbolsApart
  <2> QED
    BY <2>9, <2>10, <2>11, <2>12, <2>13
<1>5. CASE p \notin A
  <2>1. ~Inside(t, A, p)
    <3> SUFFICES ASSUME Inside(t, A, p) PROVE FALSE
      OBVIOUS
    <3>1. Size(parts, p) = 0
      BY CoveredPart
    <3>2. 1 .. 0 = {}
      OBVIOUS
    <3> QED
      BY <1>2, <3>1, <3>2
  <2>2. Size(parts, p) = 1 /\ UpTo(f, p) = UpTo(f, p - 1) + 1
    BY <1>5, <2>1, KeptPart
  <2>3. u[UpTo(f, p)] = t[p]
    BY <1>5, <2>1, KeptPart
  <2>4. k = 1
    BY <2>2
  <2>5. q = UpTo(f, p) /\ q = Place(f, p)
    BY <1>2, <2>2, <2>4 DEF Place
  <2> QED
    BY <2>3, <2>5
<1> QED
  BY <1>4, <1>5

(* The placeholders after rewriting are those before. *)
LEMMA MatchesKept ==
  ASSUME NEW t \in Text, NEW A \in SUBSET Matches(t), NEW f, Flattens(f, PartsAt(t, A))
  PROVE  /\ Matches(RewrittenAt(t, A)) = {Place(f, p) : p \in Matches(t)}
         /\ NamesOf(RewrittenAt(t, A)) = NamesOf(t)
<1> DEFINE u == RewrittenAt(t, A)
<1>1. u \in Text
  BY ImagePlaces
<1>2. \A p \in Matches(t) : p \in 1 .. Len(t) /\ t[p] = "$" /\ IsLong(NameAt(t, p))
  BY MatchIs
<1>3. \A p \in 1 .. Len(t) : t[p] = "$" =>
        NameAt(u, Place(f, p)) = NameAt(t, p) /\ Place(f, p) \in 1 .. Len(u) /\ u[Place(f, p)] = "$"
  BY NamesKept
<1>4. \A q \in Matches(u) : q \in 1 .. Len(u) /\ u[q] = "$" /\ IsLong(NameAt(u, q))
  BY <1>1, MatchIs
<1>5. \A q \in 1 .. Len(u) : u[q] = "$" => \E p \in 1 .. Len(t) : t[p] = "$" /\ q = Place(f, p)
  BY DollarsKept
<1>6. DOMAIN u = 1 .. Len(u) /\ DOMAIN t = 1 .. Len(t)
  BY <1>1, TextType
<1> HIDE DEF u
<1>7. ASSUME NEW p \in Matches(t) PROVE Place(f, p) \in Matches(u)
  <2>1. NameAt(u, Place(f, p)) = NameAt(t, p) /\ Place(f, p) \in DOMAIN u /\ u[Place(f, p)] = "$"
    BY <1>2, <1>3, <1>6
  <2> QED
    BY <2>1, <1>2 DEF Matches
<1>8. ASSUME NEW q \in Matches(u) PROVE \E p \in Matches(t) : q = Place(f, p)
  <2>1. PICK p \in 1 .. Len(t) : t[p] = "$" /\ q = Place(f, p)
    BY <1>4, <1>5
  <2>2. IsLong(NameAt(t, p))
    BY <2>1, <1>3, <1>4
  <2>3. p \in Matches(t)
    BY <2>1, <2>2, <1>6 DEF Matches
  <2> QED
    BY <2>1, <2>3
<1>9. Matches(u) = {Place(f, p) : p \in Matches(t)}
  BY <1>7, <1>8
<1>10. \A p \in Matches(t) : NameAt(u, Place(f, p)) = NameAt(t, p)
  BY <1>2, <1>3
<1>11. NamesOf(u) = NamesOf(t)
  BY <1>9, <1>10 DEF NamesOf
<1> QED
  BY <1>9, <1>11 DEF u

(* What stands before a placeholder stays there. *)
LEMMA BeforeKept ==
  ASSUME NEW t \in Text, NEW A \in SUBSET Matches(t), NEW f, Flattens(f, PartsAt(t, A)),
         NEW p \in 1 .. Len(t), t[p] = "$", NEW x \in {"[", Quote}
  PROVE  At(RewrittenAt(t, A), Place(f, p) - 1, x) <=> At(t, p - 1, x)
<1> DEFINE u == RewrittenAt(t, A)
           m == p - 1
           q == UpTo(f, m)
<1>1. u \in Text /\ Len(t) \in Nat /\ Len(u) \in Nat /\ UpTo(f, 0) = 0
  <2>1. u \in Text /\ UpTo(f, 0) = 0
    BY ImagePlaces
  <2> HIDE DEF u
  <2> QED
    BY <2>1, TextType
<1>2. m \in 0 .. Len(t)
  BY <1>1
<1>3. q \in Nat /\ UpTo(f, Len(t)) = Len(u) /\ UpTo(f, m) <= UpTo(f, Len(t))
  <2>1. Len(t) \in 0 .. Len(t) /\ m \in 0 .. Len(t)
    BY <1>1, <1>2
  <2> QED
    BY <2>1, <1>2, ImagePlaces
<1>4. Place(f, p) - 1 = q
  <2>1. \A n \in Nat : (n + 1) - 1 = n
    OBVIOUS
  <2> QED
    BY <1>3, <2>1 DEF Place
<1>5. x \notin Pieces /\ x # "{" /\ x # "}" /\ x # "$"
  BY SymbolsApart
<1>6. CASE m = 0
  <2>1. 0 \notin 1 .. Len(t) /\ 0 \notin 1 .. Len(u)
    BY <1>1
  <2>2. q = 0
    BY <1>1, <1>6
  <2> HIDE DEF u, q, m
  <2>3. ~At(t, 0, x) /\ ~At(u, 0, x)
    BY <1>1, <2>1, AtIs
  <2> QED
    BY <1>4, <1>6, <2>2, <2>3 DEF u, m
<1>7. CASE m \in 1 .. Len(t) /\ m \notin A /\ ~Inside(t, A, m)
  <2>1. UpTo(f, m) = UpTo(f, m - 1) + 1 /\ u[q] = t[m]
    BY <1>7, KeptPart
  <2>2. m - 1 \in 0 .. Len(t)
    BY <1>7, <1>1
  <2>3. UpTo(f, m - 1) \in Nat
    BY <2>2, ImagePlaces
  <2>4. q \in 1 .. Len(u)
    BY <2>1, <2>3, <1>3, <1>1
  <2> HIDE DEF u, q, m
  <2>5. At(u, q, x) <=> At(t, m, x)
    BY <1>1, <1>7, <2>1, <2>4, AtIs
  <2> QED
    BY <1>4, <2>5 DEF u, m
<1>8. CASE m \in A
  <2>1. u[q] = "}"
    BY <1>8, RewrittenEnd
  <2>2. t[m] = "$"
    BY <1>8, MatchIs
  <2> HIDE DEF u, q, m
  <2>3. ~At(u, q, x) /\ ~At(t, m, x)
    BY <1>1, <2>1, <2>2, <1>5, AtIs
  <2> QED
    BY <1>4, <2>3 DEF u, m
<1>9. CASE m \in 1 .. Len(t) /\ Inside(t, A, m)
  <2>1. PICK i \in A : i < m /\ m < End(t, i)
    BY <1>9 DEF Inside
  <2>2. i \in 1 .. Len(t)
    BY MatchIs
  <2>3. End(t, i) \in i + 1 .. Len(t) + 1
    BY <2>2, EndIs
  <2>4. m \in i + 1 .. End(t, i) - 1 /\ i \in 0 .. m
    BY <2>1, <2>2, <2>3, <1>1, <1>2
  <2>5. t[m] \in Pieces \cup {"{", "}"}
    BY <2>2, <2>4, MatchHolds
  <2>6. ASSUME NEW r \in i + 1 .. m PROVE i < r /\ r < End(t, i)
    BY <2>1, <2>2, <2>3, <1>1, <1>2
  <2>7. \A r \in i + 1 .. m : Inside(t, A, r)
    BY <2>6 DEF Inside
  <2>8. UpTo(f, m) = UpTo(f, i)
    BY <1>2, <2>4, <2>7, CoveredStretch
  <2>9. u[UpTo(f, i)] = "}"
    BY RewrittenEnd
  <2>10. u[q] = "}"
    BY <2>8, <2>9
  <2> HIDE DEF u, q, m
  <2>11. ~At(u, q, x)
    BY <1>1, <2>10, <1>5, AtIs
  <2>12. ~At(t, m, x)
    BY <2>5, <1>5, AtIs
  <2> QED
    BY <1>4, <2>11, <2>12 DEF u, m
<1>10. m = 0 \/ m \in 1 .. Len(t)
  BY <1>1, <1>2
<1> QED
  BY <1>6, <1>7, <1>8, <1>9, <1>10

-----------------------------------------------------------------------------
LEMMA Imaged ==
  ASSUME NEW t \in Text, NEW A \in SUBSET Matches(t)
  PROVE  \E f : Flattens(f, PartsAt(t, A))
<1>1. PartsAt(t, A) \in Seq(Text)
  BY PartsAre
<1> QED
  BY <1>1, Flattened

(* Where the part of place n is in the text with A rewritten.              *)
LEMMA PartBounds ==
  ASSUME NEW t \in Text, NEW A \in SUBSET Matches(t), NEW f, Flattens(f, PartsAt(t, A)),
         NEW n \in 1 .. Len(t)
  PROVE  /\ UpTo(f, n - 1) \in Nat /\ UpTo(f, n) \in Nat
         /\ UpTo(f, n - 1) <= UpTo(f, n)
         /\ UpTo(f, n) <= Len(RewrittenAt(t, A))
         /\ Len(RewrittenAt(t, A)) \in Nat
<1>1. n - 1 \in 0 .. Len(t) /\ n \in 0 .. Len(t) /\ Len(t) \in 0 .. Len(t) /\ n - 1 \in 0 .. n
  BY TextType
<1>2. \A m \in 0 .. Len(t) : UpTo(f, m) \in Nat
  BY ImagePlaces
<1>3. \A m \in 0 .. Len(t) : \A k \in 0 .. m : UpTo(f, k) <= UpTo(f, m)
  BY ImagePlaces
<1>4. Len(RewrittenAt(t, A)) = UpTo(f, Len(t))
  BY ImagePlaces
<1>5. n \in 0 .. Len(t)
  BY <1>1
<1> QED
  BY <1>1, <1>2, <1>3, <1>4, <1>5

(* Where placeholders of t are once others are rewritten. *)
Moved(f, B) == {Place(f, p) : p \in B}

(* The same part, rewritten in a second step: B holds the places of t that *)
(* the second step rewrites.                                               *)
LEMMA SecondRewritten ==
  ASSUME NEW t \in Text, NEW A \in SUBSET Matches(t), NEW f, Flattens(f, PartsAt(t, A)),
         NEW B \in SUBSET Matches(t),
         NEW g, Flattens(g, PartsAt(RewrittenAt(t, A), Moved(f, B))),
         NEW n \in B
  PROVE  Continued(g, UpTo(f, n - 1), UpTo(f, n), PartsAt(t, A \cup B)[n])
<1> DEFINE u == RewrittenAt(t, A)
           C == Moved(f, B)
           a == UpTo(f, n - 1)
           b == UpTo(f, n)
           q == Place(f, n)
           parts == PartsAt(u, C)
<1>1. n \in 1 .. Len(t) /\ t[n] = "$"
  BY MatchIs
<1>2. a \in Nat /\ b \in Nat /\ b <= Len(u) /\ Len(u) \in Nat
  BY <1>1, PartBounds
<1>3. q = a + 1
  BY DEF Place
<1>4. NameAt(u, q) = NameAt(t, n)
  BY <1>1, NamesKept
<1>5. ~Inside(t, A, n)
  BY <1>1, DollarPart
<1>6. q <= b
  BY <1>1, <1>5, <1>3, OutsidePart
<1>7. u \in Text /\ C \in SUBSET Matches(u) /\ q \in C
  <2>1. u \in Text /\ Matches(u) = {Place(f, p) : p \in Matches(t)}
    BY ImagePlaces, MatchesKept
  <2> HIDE DEF u
  <2> QED
    BY <2>1 DEF Moved
<1>8. n \in A => End(u, q) = b + 1
  BY RewrittenName
<1>9. n \notin A => b = a + 1
  BY <1>1, <1>5, KeptPart
<1>10. PartsAt(t, A \cup B)[n] = Braced(NameAt(t, n))
  <2>1. A \cup B \in SUBSET Matches(t) /\ n \in A \cup B
    OBVIOUS
  <2> QED
    BY <2>1, PartsAre
<1>11. Flattens(g, parts)
  OBVIOUS
<1> HIDE DEF u, C, a, b, q
<1>12. parts \in Seq(Text) /\ Len(parts) = Len(u) /\ parts[q] = Braced(NameAt(u, q))
       /\ \A r \in 1 .. Len(u) : Inside(u, C, r) => parts[r] = << >>
  BY <1>7, PartsAre
<1> HIDE DEF parts
<1>13. ASSUME NEW r \in q + 1 .. b PROVE parts[r] = << >>
  <2>1. r \in 1 .. Len(u) /\ q < r /\ r < b + 1 /\ b # a + 1
    BY <1>2, <1>3
  <2>2. Inside(u, C, r)
    BY <2>1, <1>7, <1>8, <1>9 DEF Inside
  <2> QED
    BY <2>1, <2>2, <1>12
<1>14. g[b] = g[q]
  <2>1. b \in 0 .. Len(parts) /\ q \in 0 .. b
    BY <1>2, <1>3, <1>6, <1>12
  <2> QED
    BY <2>1, <1>11, <1>12, <1>13, EmptyStretch
<1>15. g[q] = g[q - 1] \o parts[q]
  <2>1. q \in 1 .. Len(parts)
    BY <1>2, <1>3, <1>6, <1>12
  <2> QED
    BY <2>1, <1>11 DEF Flattens
<1>16. q - 1 = a
  BY <1>2, <1>3
<1> QED
  BY <1>4, <1>10, <1>12, <1>14, <1>15, <1>16 DEF a, b, Continued

LEMMA SecondCovered ==
  ASSUME NEW t \in Text, NEW A \in SUBSET Matches(t), NEW f, Flattens(f, PartsAt(t, A)),
         NEW B \in SUBSET Matches(t),
         NEW g, Flattens(g, PartsAt(RewrittenAt(t, A), Moved(f, B))),
         NEW n \in 1 .. Len(t), Inside(t, B, n)
  PROVE  Continued(g, UpTo(f, n - 1), UpTo(f, n), PartsAt(t, A \cup B)[n])
<1> DEFINE u == RewrittenAt(t, A)
           C == Moved(f, B)
           a == UpTo(f, n - 1)
           b == UpTo(f, n)
           parts == PartsAt(u, C)
<1>1. PICK i \in B : i < n /\ n < End(t, i)
  BY DEF Inside
<1> DEFINE d == End(t, i)
           y == Place(f, i)
<1>2. i \in 1 .. Len(t) /\ t[i] = "$"
  BY MatchIs
<1>3. d \in i + 1 .. Len(t) + 1 /\ Len(t) \in Nat
  BY <1>2, EndIs, TextType
<1>4. a \in Nat /\ b \in Nat /\ a <= b /\ b <= Len(u) /\ Len(u) \in Nat
  BY PartBounds
<1>5. y <= a /\ y \in Nat
  <2>1. n \in i + 1 .. Len(t) + 1
    BY <1>1, <1>2, <1>3
  <2>2. ~Inside(t, A, i)
    BY <1>2, DollarPart
  <2>3. /\ Place(f, i) <= UpTo(f, i) /\ UpTo(f, i) <= UpTo(f, n - 1)
        /\ UpTo(f, i) \in Nat /\ UpTo(f, n - 1) \in Nat /\ Place(f, i) \in Nat
    BY <1>2, <2>1, <2>2, PlacesOrdered
  <2> QED
    BY <2>3
<1>6. End(u, y) = UpTo(f, d - 1) + 1
  BY <1>2, NamesKept DEF Place
<1>7. b <= UpTo(f, d - 1) /\ UpTo(f, d - 1) \in Nat
  <2>1. d - 1 \in 0 .. Len(t) /\ n \in 0 .. d - 1
    BY <1>1, <1>2, <1>3
  <2> QED
    BY <2>1, ImagePlaces
<1>8. u \in Text /\ C \in SUBSET Matches(u) /\ y \in C
  <2>1. u \in Text /\ Matches(u) = {Place(f, p) : p \in Matches(t)}
    BY ImagePlaces, MatchesKept
  <2> HIDE DEF u
  <2> QED
    BY <2>1 DEF Moved
<1>9. PartsAt(t, A \cup B)[n] = << >>
  <2>1. A \cup B \in SUBSET Matches(t)
    OBVIOUS
  <2>2. Inside(t, A \cup B, n)
    BY <1>1 DEF Inside
  <2> QED
    BY <2>1, <2>2, PartsAre
<1>11. Flattens(g, parts)
  OBVIOUS
<1> HIDE DEF u, C, a, b, d, y
<1>12. parts \in Seq(Text) /\ Len(parts) = Len(u)
       /\ \A r \in 1 .. Len(u) : Inside(u, C, r) => parts[r] = << >>
  BY <1>8, PartsAre
<1> HIDE DEF parts
<1>13. ASSUME NEW r \in a + 1 .. b PROVE parts[r] = << >>
  <2>1. r \in 1 .. Len(u) /\ y < r /\ r < End(u, y)
    BY <1>4, <1>5, <1>6, <1>7
  <2>2. Inside(u, C, r)
    BY <2>1, <1>8 DEF Inside
  <2> QED
    BY <2>1, <2>2, <1>12
<1>14. b \in 0 .. Len(parts) /\ a \in 0 .. b /\ a \in 0 .. Len(parts)
  BY <1>4, <1>12
<1>15. g[b] = g[a]
  BY <1>11, <1>12, <1>13, <1>14, EmptyStretch
<1>16. g[a] \in Seq(Symbols)
  BY <1>11, <1>14 DEF Flattens, Text
<1>17. g[a] \o << >> = g[a]
  BY <1>16, ConcatEmptySeq
<1> QED
  BY <1>9, <1>15, <1>17 DEF a, b, Continued

LEMMA KeptIs ==
  ASSUME NEW t \in Text, NEW A \in SUBSET Matches(t),
         NEW p \in 1 .. Len(t), p \notin A, ~Inside(t, A, p)
  PROVE  PartsAt(t, A)[p] = <<t[p]>>
BY PartsAre

LEMMA SecondKept ==
  ASSUME NEW t \in Text, NEW A \in SUBSET Matches(t), NEW f, Flattens(f, PartsAt(t, A)),
         NEW B \in SUBSET Matches(t),
         NEW g, Flattens(g, PartsAt(RewrittenAt(t, A), Moved(f, B))),
         NEW n \in 1 .. Len(t), n \notin B, ~Inside(t, B, n)
  PROVE  Continued(g, UpTo(f, n - 1), UpTo(f, n), PartsAt(t, A \cup B)[n])
<1> DEFINE u == RewrittenAt(t, A)
           C == Moved(f, B)
           a == UpTo(f, n - 1)
           b == UpTo(f, n)
           parts == PartsAt(u, C)
           part == PartsAt(t, A)[n]
<1>1. PartsAt(t, A \cup B)[n] = part
  <2>1. A \cup B \in SUBSET Matches(t)
    OBVIOUS
  <2>2. CASE n \in A
    BY <2>1, <2>2, PartsAre
  <2>3. CASE Inside(t, A, n)
    <3>1. Inside(t, A \cup B, n)
      BY <2>3 DEF Inside
    <3> QED
      BY <2>1, <2>3, <3>1, PartsAre
  <2>4. CASE n \notin A /\ ~Inside(t, A, n)
    <3>1. n \notin A \cup B /\ ~Inside(t, A \cup B, n)
      BY <2>4 DEF Inside
    <3> QED
      BY <2>1, <2>4, <3>1, PartsAre
  <2> QED
    BY <2>2, <2>3, <2>4
<1>2. a \in Nat /\ b \in Nat /\ a <= b /\ b <= Len(u) /\ Len(u) \in Nat
  BY PartBounds
<1>3. u \in Text /\ C \in SUBSET Matches(u)
  <2>1. u \in Text /\ Matches(u) = {Place(f, p) : p \in Matches(t)}
    BY ImagePlaces, MatchesKept
  <2> HIDE DEF u
  <2> QED
    BY <2>1 DEF Moved
<1>4. ASSUME NEW i \in B, NEW r \in a + 1 .. b
      PROVE  Place(f, i) # r /\ ~(Place(f, i) < r /\ r < End(u, Place(f, i)))
  <2>1. i \in 1 .. Len(t) /\ t[i] = "$"
    BY MatchIs
  <2>2. End(t, i) \in i + 1 .. Len(t) + 1 /\ Len(t) \in Nat
    BY <2>1, EndIs, TextType
  <2>3. CASE i < n
    <3> DEFINE d == End(t, i)
               y == Place(f, i)
    <3>1. ~(n < d)
      BY <2>3 DEF Inside
    <3>2. d <= n /\ n \in i + 1 .. Len(t) + 1
      BY <3>1, <2>1, <2>2, <2>3
    <3>3. ~Inside(t, A, i)
      BY <2>1, DollarPart
    <3>4. /\ Place(f, i) <= UpTo(f, i) /\ UpTo(f, i) <= UpTo(f, n - 1)
          /\ UpTo(f, i) \in Nat /\ UpTo(f, n - 1) \in Nat /\ Place(f, i) \in Nat
      BY <2>1, <3>2, <3>3, PlacesOrdered
    <3>5. End(u, y) = UpTo(f, d - 1) + 1
      BY <2>1, NamesKept DEF Place
    <3>6. UpTo(f, d - 1) <= a /\ UpTo(f, d - 1) \in Nat
      <4>1. n - 1 \in 0 .. Len(t) /\ d - 1 \in 0 .. n - 1 /\ d - 1 \in 0 .. Len(t)
        BY <3>2, <2>1, <2>2
      <4> QED
        BY <4>1, ImagePlaces
    <3> HIDE DEF u, d
    <3>7. y # r /\ ~(y < r /\ r < End(u, y))
      BY <1>2, <3>4, <3>5, <3>6
    <3> QED
      BY <3>7
  <2>4. CASE n < i
    <3>1. i - 1 \in 0 .. Len(t) /\ n \in 0 .. i - 1
      BY <2>1, <2>2, <2>4
    <3>2. b <= UpTo(f, i - 1) /\ UpTo(f, i - 1) \in Nat
      BY <3>1, ImagePlaces
    <3>3. r < UpTo(f, i - 1) + 1 /\ ~(UpTo(f, i - 1) + 1 < r) /\ UpTo(f, i - 1) + 1 # r
      BY <3>2, <1>2
    <3> QED
      BY <3>3 DEF Place
  <2>5. i < n \/ n < i
    BY <2>1
  <2> QED
    BY <2>3, <2>4, <2>5
<1>5. \A r \in a + 1 .. b : r \notin C /\ ~Inside(u, C, r)
  BY <1>4 DEF Inside, Moved
<1>6. Flattens(g, parts)
  OBVIOUS
<1>7. /\ part \in Text
      /\ Len(part) = b - a
      /\ \A k \in 1 .. b - a : u[a + k] = part[k]
  <2>1. PartsAt(t, A) \in Seq(Text) /\ Len(PartsAt(t, A)) = Len(t)
    BY PartsAre
  <2>2. part \in Text
    BY <2>1, ElementType
  <2>3. /\ Size(PartsAt(t, A), n) \in Nat
        /\ b = a + Size(PartsAt(t, A), n)
        /\ \A k \in 1 .. Size(PartsAt(t, A), n) : u[a + k] = part[k]
    BY ImagePlaces
  <2>4. Size(PartsAt(t, A), n) = b - a
    <3> HIDE DEF a, b
    <3> QED
      BY <2>3, <1>2
  <2>5. Len(part) = b - a
    BY <2>4 DEF Size
  <2> QED
    BY <2>2, <2>3, <2>4, <2>5
<1> HIDE DEF u, C, a, b, part
<1>8. parts \in Seq(Text) /\ Len(parts) = Len(u)
      /\ \A r \in 1 .. Len(u) : r \notin C /\ ~Inside(u, C, r) => parts[r] = <<u[r]>>
  <2>1. parts \in Seq(Text) /\ Len(parts) = Len(u)
    BY <1>3, PartsAre
  <2>2. ASSUME NEW r \in 1 .. Len(u), r \notin C, ~Inside(u, C, r) PROVE parts[r] = <<u[r]>>
    BY <1>3, <2>2, KeptIs
  <2> QED
    BY <2>1, <2>2
<1> HIDE DEF parts
<1>9. Copies(parts, u, a, b)
  <2>1. \A r \in a + 1 .. b : r \in 1 .. Len(u)
    BY <1>2
  <2> QED
    BY <2>1, <1>5, <1>8 DEF Copies
<1>10. g[b] = g[a] \o SubSeq(u, a + 1, b)
  <2>1. b \in 0 .. Len(parts) /\ a \in 0 .. b
    BY <1>2, <1>8
  <2> QED
    <3>1. Continued(g, a, b, SubSeq(u, a + 1, b))
      BY <2>1, <1>3, <1>6, <1>8, <1>9, CopiedStretch
    <3> QED
      BY <3>1 DEF Continued
<1>11. SubSeq(u, a + 1, b) = part
  <2> DEFINE v == SubSeq(u, a + 1, b)
  <2>1. \A k \in a + 1 .. b : u[k] \in Symbols
    <3>1. \A k \in a + 1 .. b : k \in 1 .. Len(u)
      BY <1>2
    <3> QED
      BY <3>1, <1>3, TextType
  <2>2. a + 1 \in Int /\ b \in Int
    BY <1>2
  <2>a. b - (a + 1) + 1 = b - a /\ \A k \in Int : (a + 1) + k - 1 = a + k
    BY <1>2
  <2>3. /\ v \in Seq(Symbols)
        /\ Len(v) = IF a + 1 <= b THEN b - (a + 1) + 1 ELSE 0
        /\ \A k \in 1 .. b - (a + 1) + 1 : v[k] = u[(a + 1) + k - 1]
    BY <2>1, <2>2, SubSeqProperties
  <2>4. Len(v) = b - a
    BY <2>3, <1>2
  <2>5. ASSUME NEW k \in 1 .. b - a PROVE v[k] = u[a + k]
    <3>1. k \in 1 .. b - (a + 1) + 1 /\ (a + 1) + k - 1 = a + k
      BY <2>a
    <3> QED
      BY <3>1, <2>3
  <2>6. part \in Seq(Symbols)
    BY <1>7 DEF Text
  <2> HIDE DEF v
  <2>7. v = part
    <3>1. Len(v) = Len(part) /\ \A k \in 1 .. Len(v) : v[k] = part[k]
      BY <2>4, <2>5, <1>7
    <3> QED
      BY <3>1, <2>3, <2>6, SeqEqual
  <2> QED
    BY <2>7 DEF v
<1> QED
  BY <1>1, <1>10, <1>11 DEF a, b, Continued

(* Placeholders may be rewritten in two steps. *)
LEMMA RewrittenTwice ==
  ASSUME NEW t \in Text, NEW A \in SUBSET Matches(t), NEW f, Flattens(f, PartsAt(t, A)),
         NEW B \in SUBSET Matches(t)
  PROVE  RewrittenAt(RewrittenAt(t, A), Moved(f, B)) = RewrittenAt(t, A \cup B)
<1> DEFINE u == RewrittenAt(t, A)
           C == Moved(f, B)
           N == Len(t)
           D == A \cup B
<1>1. N \in Nat /\ D \in SUBSET Matches(t)
  BY TextType
<1>2. u \in Text /\ Len(u) = UpTo(f, N) /\ UpTo(f, 0) = 0
  BY ImagePlaces
<1>3. C \in SUBSET Matches(u)
  <2>1. Matches(u) = {Place(f, p) : p \in Matches(t)}
    BY MatchesKept
  <2> HIDE DEF u
  <2> QED
    BY <2>1 DEF Moved
<1>4. PICK g : Flattens(g, PartsAt(u, C))
  <2> HIDE DEF u, C
  <2> QED
    BY <1>2, <1>3, Imaged
<1>5. PICK h : Flattens(h, PartsAt(t, D))
  <2> HIDE DEF D
  <2> QED
    BY <1>1, Imaged
<1>6. g[Len(u)] = RewrittenAt(u, C)
  <2> HIDE DEF u, C
  <2> QED
    BY <1>2, <1>3, <1>4, ImagePlaces
<1>7. /\ h[N] = RewrittenAt(t, D)
      /\ \A n \in 1 .. N : h[n] = h[n - 1] \o PartsAt(t, D)[n]
      /\ h[0] = << >>
  <2>1. Len(PartsAt(t, D)) = N
    BY <1>1, PartsAre
  <2> HIDE DEF D
  <2> QED
    BY <1>1, <1>5, <2>1, ImagePlaces DEF Flattens
<1>8. g[0] = << >>
  BY <1>4 DEF Flattens
<1>9. ASSUME NEW n \in 1 .. N PROVE Continued(g, UpTo(f, n - 1), UpTo(f, n), PartsAt(t, D)[n])
  <2>1. CASE n \in B
    BY <2>1, <1>4, SecondRewritten
  <2>2. CASE Inside(t, B, n)
    BY <2>2, <1>4, SecondCovered
  <2>3. CASE n \notin B /\ ~Inside(t, B, n)
    BY <2>3, <1>4, SecondKept
  <2> QED
    BY <2>1, <2>2, <2>3
<1> HIDE DEF u, C, N, D
<1> DEFINE T == {n \in 0 .. N : g[UpTo(f, n)] = h[n]}
<1>10. 0 \in T
  BY <1>1, <1>2, <1>7, <1>8
<1>11. ASSUME NEW n \in 1 .. N, n - 1 \in T PROVE n \in T
  <2>1. n \in 0 .. N
    BY <1>1
  <2> QED
    BY <2>1, <1>7, <1>9, <1>11 DEF Continued
<1>12. N \in T
  <2> HIDE DEF T
  <2>1. \A n \in 0 .. N : n \in T
    BY <1>1, <1>10, <1>11, Induct
  <2> QED
    BY <2>1, <1>1
<1>13. RewrittenAt(u, C) = RewrittenAt(t, D)
  BY <1>2, <1>6, <1>7, <1>12
<1> QED
  BY <1>13 DEF u, C, D

LEMMA RewrittenNowhere ==
  ASSUME NEW t \in Text
  PROVE  RewrittenAt(t, {}) = t
<1> DEFINE N == Len(t)
           parts == PartsAt(t, {})
<1>1. N \in Nat /\ {} \in SUBSET Matches(t)
  BY TextType
<1>2. PICK f : Flattens(f, parts)
  BY <1>1, Imaged
<1>3. f[N] = RewrittenAt(t, {})
  BY <1>1, <1>2, ImagePlaces
<1>4. parts \in Seq(Text) /\ Len(parts) = N /\ \A p \in 1 .. N : parts[p] = <<t[p]>>
  <2>1. \A p \in 1 .. N : p \notin {} /\ ~Inside(t, {}, p)
    BY DEF Inside
  <2> QED
    BY <2>1, <1>1, PartsAre
<1> HIDE DEF N, parts
<1>5. f[N] = f[0] \o SubSeq(t, 0 + 1, N)
  <2>1. N \in 0 .. Len(parts) /\ 0 \in 0 .. N /\ 0 + 1 = 1
    BY <1>1, <1>4
  <2>2. Copies(parts, t, 0, N)
    BY <2>1, <1>4 DEF Copies
  <2>3. Len(parts) = Len(t)
    BY <1>4 DEF N
  <2> QED
    <3>1. Continued(f, 0, N, SubSeq(t, 0 + 1, N))
      BY <2>1, <2>2, <2>3, <1>2, <1>4, CopiedStretch
    <3> QED
      BY <3>1 DEF Continued
<1>6. SubSeq(t, 1, N) = t
  BY DEF N, Text
<1>7. f[0] = << >> /\ t \in Seq(Symbols)
  BY <1>2 DEF Flattens, Text
<1>8. << >> \o t = t
  BY <1>7, ConcatEmptySeq
<1>9. 0 + 1 = 1
  OBVIOUS
<1> QED
  BY <1>3, <1>5, <1>6, <1>7, <1>8, <1>9

-----------------------------------------------------------------------------
(* The pattern of a key matches no other name, if no name begins another.  *)
LEMMA KeyIs ==
  ASSUME NEW u \in Text, Apart(u), NEW key \in NamesOf(u), NEW q \in 1 .. Len(u), u[q] = "$",
         Begin(u, q) + Len(key) <= Len(u) + 1,
         SubSeq(u, Begin(u, q), Begin(u, q) + Len(key) - 1) = key
  PROVE  q \in Matches(u) /\ NameAt(u, q) = key
<1> DEFINE b == Begin(u, q)
           e == Stop(u, q)
           n == NameAt(u, q)
           l == Len(key)
<1>1. key \in Seq(Pieces) /\ IsLong(key)
  <2>1. PICK p \in Matches(u) : key = NameAt(u, p)
    BY DEF NamesOf
  <2> QED
    BY <2>1, MatchIs DEF Names
<1>2. Len(u) \in Nat /\ l \in Nat
  BY <1>1, TextType
<1>3. b \in 1 .. Len(u) + 1 /\ e \in b .. Len(u) + 1
  BY BeginIs, StopIs
<1>4. e = Len(u) + 1 \/ u[e] \notin Pieces
  BY StopIs
<1>5. n \in Seq(Pieces) /\ Len(n) = e - b /\ \A k \in 1 .. e - b : n[k] = u[b + k - 1]
  BY NameIs
<1>6. b + l <= Len(u) + 1 /\ SubSeq(u, b, b + l - 1) = key
  OBVIOUS
<1>7. \A k \in 1 .. l : key[k] \in Pieces
  <2>1. DOMAIN key = 1 .. l
    BY <1>1, SeqDomain
  <2>2. \A k \in DOMAIN key : key[k] \in Pieces
    BY <1>1, ElementType
  <2> QED
    BY <2>1, <2>2
<1> HIDE DEF b, e, n, l
<1>8. ASSUME NEW k \in 1 .. l PROVE key[k] = u[b + k - 1]
  <2> DEFINE v == SubSeq(u, b, b + l - 1)
  <2>1. \A i \in b .. b + l - 1 : u[i] \in Symbols
    <3>1. \A i \in b .. b + l - 1 : i \in 1 .. Len(u)
      BY <1>2, <1>3, <1>6
    <3> QED
      BY <3>1, TextType
  <2>2. b \in Int /\ b + l - 1 \in Int
    BY <1>2, <1>3
  <2>3. \A i \in 1 .. (b + l - 1) - b + 1 : v[i] = u[b + i - 1]
    BY <2>1, <2>2, SubSeqProperties
  <2>4. k \in 1 .. (b + l - 1) - b + 1
    BY <1>2, <1>3
  <2> HIDE DEF v
  <2>5. v[k] = u[b + k - 1]
    BY <2>3, <2>4
  <2>6. v = key
    BY <1>6 DEF v
  <2> QED
    BY <2>5, <2>6
<1>9. l <= e - b
  <2>1. ASSUME ~(l <= e - b) PROVE e \in 1 .. Len(u) /\ e # Len(u) + 1
                                    /\ (e - b) + 1 \in 1 .. l /\ b + ((e - b) + 1) - 1 = e
    BY <2>1, <1>2, <1>3, <1>6
  <2>2. ASSUME ~(l <= e - b) PROVE u[e] \in Pieces
    <3>1. key[(e - b) + 1] = u[b + ((e - b) + 1) - 1]
      BY <2>1, <2>2, <1>8
    <3> QED
      BY <2>1, <2>2, <3>1, <1>7
  <2> QED
    BY <2>1, <2>2, <1>4
<1>10. \A k \in 1 .. l : n[k] = key[k]
  <2>1. \A k \in 1 .. l : k \in 1 .. e - b
    BY <1>2, <1>3, <1>9
  <2> QED
    BY <2>1, <1>5, <1>8
<1>11. l <= Len(n) /\ Len(n) \in Nat
  BY <1>2, <1>3, <1>5, <1>9
<1>12. IsPrefix(key, n)
  <2> DEFINE v == SubSeq(n, 1, l)
  <2>1. \A i \in 1 .. l : n[i] \in Pieces
    BY <1>7, <1>10
  <2>2. 1 \in Int /\ l \in Int
    BY <1>2
  <2>a. l - 1 + 1 = l /\ \A i \in Int : 1 + i - 1 = i
    BY <1>2
  <2>3. /\ v \in Seq(Pieces)
        /\ Len(v) = IF 1 <= l THEN l - 1 + 1 ELSE 0
        /\ \A i \in 1 .. l - 1 + 1 : v[i] = n[1 + i - 1]
    BY <2>1, <2>2, SubSeqProperties
  <2>4. Len(v) = l
    BY <2>3, <1>2
  <2>5. ASSUME NEW i \in 1 .. l PROVE v[i] = key[i]
    <3>1. i \in 1 .. l - 1 + 1 /\ 1 + i - 1 = i
      BY <2>a
    <3> QED
      BY <3>1, <2>3, <1>10
  <2> HIDE DEF v
  <2>6. key \in Seq(Pieces) /\ Len(key) = l
    BY <1>1 DEF l
  <2>7. v = key
    BY <2>3, <2>4, <2>5, <2>6, SeqEqual
  <2>8. SubSeq(key, 1, Len(key)) = key
    BY <2>6
  <2>9. SubSeq(n, 1, Len(key)) = key
    BY <2>7 DEF v, l
  <2> QED
    BY <2>8, <2>9, <1>11 DEF IsPrefix, l
<1>13. IsLong(n)
  <2>1. CASE Len(n) > 1
    BY <2>1 DEF IsLong
  <2>2. CASE ~(Len(n) > 1)
    <3>1. l > 1 \/ (l = 1 /\ key[1] \notin Short)
      BY <1>1 DEF IsLong, l
    <3>2. ~(l > 1)
      BY <1>2, <1>11, <2>2
    <3>3. l = 1
      BY <3>1, <3>2
    <3>a. \A x \in Nat : 1 <= x /\ ~(x > 1) => x = 1
      OBVIOUS
    <3>4. Len(n) = 1
      BY <3>3, <3>a, <1>11, <2>2
    <3>5. 1 \in 1 .. l
      BY <3>3
    <3> QED
      BY <3>1, <3>2, <3>4, <3>5, <1>10 DEF IsLong
  <2> QED
    BY <2>1, <2>2
<1>14. q \in Matches(u)
  BY <1>13, TextType DEF Matches, n
<1>15. n \in NamesOf(u)
  BY <1>14 DEF NamesOf, n
<1>16. key = n
  BY <1>12, <1>15 DEF Apart, IsStrictPrefix
<1> QED
  BY <1>14, <1>16 DEF n

LEMMA KeyThere ==
  ASSUME NEW u \in Text, NEW q \in Matches(u)
  PROVE  /\ Begin(u, q) + Len(NameAt(u, q)) <= Len(u) + 1
         /\ SubSeq(u, Begin(u, q), Begin(u, q) + Len(NameAt(u, q)) - 1) = NameAt(u, q)
<1> DEFINE b == Begin(u, q)
           e == Stop(u, q)
           n == NameAt(u, q)
<1>1. q \in 1 .. Len(u)
  BY MatchIs
<1>2. b \in 1 .. Len(u) + 1 /\ e \in b .. Len(u) + 1 /\ Len(u) \in Nat
  BY <1>1, BeginIs, StopIs, TextType
<1>3. Len(n) = e - b
  BY <1>1, NameIs
<1>4. n = SubSeq(u, b, e - 1)
  BY <1>1, NameIs
<1> HIDE DEF b, e, n
<1>5. b + Len(n) = e
  BY <1>2, <1>3
<1>6. b + Len(n) <= Len(u) + 1
  BY <1>2, <1>5
<1>7. SubSeq(u, b, b + Len(n) - 1) = n
  <2>1. b + Len(n) - 1 = e - 1
    BY <1>2, <1>3, <1>5
  <2> QED
    BY <2>1, <1>4
<1> QED
  BY <1>6, <1>7 DEF b, n

LEMMA KeyPlaces ==
  ASSUME text \in Text, Apart(text), NEW key \in NamesOf(text)
  PROVE  KeyMatches(key) = {q \in Matches(text) : NameAt(text, q) = key}
<1> DEFINE Matched(q) == /\ Begin(text, q) + Len(key) <= Len(text) + 1
                         /\ SubSeq(text, Begin(text, q), Begin(text, q) + Len(key) - 1) = key
<1>1. KeyMatches(key) = {q \in DOMAIN text : text[q] = "$" /\ Matched(q)}
  BY DEF KeyMatches, Begin
<1>2. DOMAIN text = 1 .. Len(text)
  BY TextType
<1>3. ASSUME NEW q \in DOMAIN text, text[q] = "$", Matched(q)
      PROVE  q \in Matches(text) /\ NameAt(text, q) = key
  BY <1>2, <1>3, KeyIs
<1>4. ASSUME NEW q \in Matches(text), NameAt(text, q) = key
      PROVE  q \in DOMAIN text /\ text[q] = "$" /\ Matched(q)
  <2>1. q \in DOMAIN text /\ text[q] = "$"
    BY <1>2, MatchIs
  <2>2. Matched(q)
    BY <1>4, KeyThere
  <2> QED
    BY <2>1, <2>2
<1> HIDE DEF Matched
<1> QED
  BY <1>1, <1>3, <1>4

(* One key of formatNativeQueryVariables rewrites the placeholders of that *)
(* name.                                                                   *)
LEMMA FormatIs ==
  ASSUME text \in Text, Apart(text), NEW key \in NamesOf(text), Format(key)
  PROVE  text' = RewrittenAt(text, {q \in Matches(text) : NameAt(text, q) = key})
<1> DEFINE S == {q \in Matches(text) : NameAt(text, q) = key}
<1>1. KeyMatches(key) = S
  BY KeyPlaces
<1>2. \A q \in S : NameAt(text, q) = key
  OBVIOUS
<1>3. text' = Replaced(text, [i \in S |-> MatchEnd(text, i, key)], [i \in S |-> Braced(key)])
  BY <1>1 DEF Format
<1> HIDE DEF S
<1>4. [i \in S |-> MatchEnd(text, i, key)] = [i \in S |-> End(text, i)]
  BY <1>2 DEF End
<1>5. [i \in S |-> Braced(key)] = [i \in S |-> Braced(NameAt(text, i))]
  BY <1>2
<1>6. text' = RewrittenAt(text, S)
  BY <1>3, <1>4, <1>5 DEF RewrittenAt
<1> QED
  BY <1>6 DEF S

-----------------------------------------------------------------------------
LEMMA RewrittenText ==
  ASSUME NEW t \in Text, NEW A \in SUBSET Matches(t)
  PROVE  RewrittenAt(t, A) \in Text /\ NamesOf(RewrittenAt(t, A)) = NamesOf(t)
<1>1. PICK f : Flattens(f, PartsAt(t, A))
  BY Imaged
<1> QED
  BY <1>1, ImagePlaces, MatchesKept

LEMMA ReplacedType ==
  ASSUME NEW t \in Text, NEW end, NEW with, \A i \in DOMAIN end : with[i] \in Text
  PROVE  Replaced(t, end, with) \in Text
<1> DEFINE parts == Parts(t, end, with)
           Part(p) == IF p \in DOMAIN end THEN with[p]
                      ELSE IF \E i \in DOMAIN end : i < p /\ p < end[i] THEN << >>
                      ELSE <<t[p]>>
<1>1. DOMAIN t = 1 .. Len(t) /\ Len(t) \in Nat
  BY TextType
<1>2. parts = [p \in 1 .. Len(t) |-> Part(p)]
  BY <1>1 DEF Parts
<1>3. ASSUME NEW p \in 1 .. Len(t) PROVE Part(p) \in Text
  <2>1. << >> \in Text
    BY DEF Text
  <2>2. <<t[p]>> \in Text
    BY TextType DEF Text
  <2> QED
    BY <2>1, <2>2
<1> HIDE DEF Part
<1>4. parts \in Seq(Text)
  BY <1>1, <1>2, <1>3
<1> HIDE DEF parts
<1>5. PICK f : Flattens(f, parts)
  BY <1>4, Flattened
<1>6. Len(parts) \in 0 .. Len(parts)
  BY <1>4, SeqDomain
<1>7. f[Len(parts)] \in Text /\ f[Len(parts)] = FlattenSeq(parts)
  BY <1>5, <1>6 DEF Flattens
<1> QED
  BY <1>7 DEF Replaced, parts

(* What the connector takes for a variable in a rewritten query. *)
LEMMA VariablesAre ==
  ASSUME NEW t \in Text
  PROVE  {n \in Variables(Rewritten(t)) : IsLong(n)} = NamesOf(t)
<1> DEFINE A == Matches(t)
           u == RewrittenAt(t, A)
<1>1. PICK f : Flattens(f, PartsAt(t, A))
  BY Imaged
<1>2. u \in Text /\ NamesOf(u) = NamesOf(t)
  BY RewrittenText
<1>3. \A p \in A : NameAt(u, Place(f, p)) = NameAt(t, p) /\ IsVariable(u, Place(f, p))
  BY <1>1, RewrittenName
<1>4. \A p \in A : Place(f, p) \in 1 .. Len(u) /\ IsLong(NameAt(t, p))
  <2>1. \A p \in A : p \in 1 .. Len(t) /\ t[p] = "$" /\ IsLong(NameAt(t, p))
    BY MatchIs
  <2> QED
    BY <2>1, <1>1, NamesKept
<1>5. Rewritten(t) = u
  BY DEF Rewritten
<1> HIDE DEF u, A
<1>6. DOMAIN u = 1 .. Len(u)
  BY <1>2, TextType
<1>7. ASSUME NEW n \in NamesOf(t) PROVE n \in Variables(u) /\ IsLong(n)
  <2>1. PICK p \in A : n = NameAt(t, p)
    BY DEF NamesOf, A
  <2>2. Place(f, p) \in {j \in DOMAIN u : IsVariable(u, j)} /\ n = NameAt(u, Place(f, p))
    BY <2>1, <1>3, <1>4, <1>6
  <2> QED
    BY <2>1, <2>2, <1>4 DEF Variables
<1>8. ASSUME NEW n \in Variables(u), IsLong(n) PROVE n \in NamesOf(t)
  <2>1. PICK j \in DOMAIN u : IsVariable(u, j) /\ n = NameAt(u, j)
    BY DEF Variables
  <2>2. u[j] = "$"
    BY <2>1 DEF IsVariable
  <2>3. j \in Matches(u)
    BY <2>1, <2>2, <1>8 DEF Matches
  <2> QED
    BY <2>1, <2>3, <1>2 DEF NamesOf
<1> QED
  BY <1>5, <1>7, <1>8

LEMMA LastMatchIs ==
  ASSUME NEW t \in Text, NEW n \in NamesOf(t)
  PROVE  LastMatch(t, n) \in Matches(t) /\ NameAt(t, LastMatch(t, n)) = n
<1> DEFINE T == {i \in Matches(t) : NameAt(t, i) = n}
<1>1. Len(t) \in Nat /\ T \in SUBSET (1 .. Len(t)) /\ T # {}
  BY TextType, MatchIs DEF NamesOf
<1>2. PICK i \in T : \A j \in T : j <= i
  <2> HIDE DEF T
  <2> QED
    BY <1>1, Greatest
<1>3. \E k \in Matches(t) : NameAt(t, k) = n /\ \A j \in Matches(t) : NameAt(t, j) = n => j <= k
  BY <1>2
<1> QED
  BY <1>3 DEF LastMatch
-----------------------------------------------------------------------------
LEMMA AskedType ==
  ASSUME TypeOK
  PROVE  IsQuery(asked) /\ asked.text \in Text
BY PlaceholdersAssumption DEF TypeOK, IsQuery

(* A type that Find gives an argument, whatever the file declares. *)
LEMMA TypeAtType ==
  ASSUME NEW q, IsQuery(q), NEW i
  PROVE  TypeAt(q, i) \in ArgTypes
BY DEF TypeAt, Declared, IsQuery, HasTypes, ArgTypes, Filled

LEMMA NothingType == << >> \in Text /\ HasTypes(<< >>) /\ {} \subseteq DOMAIN << >>
<1>1. DOMAIN << >> = {}
  OBVIOUS
<1> QED
  BY <1>1 DEF Text, HasTypes

LEMMA TypeStep ==
  ASSUME TypeOK, stage \in {"idle", "find"} => todo = {}, [Next]_vars
  PROVE  TypeOK' /\ (stage' \in {"idle", "find"} => todo' = {})
<1> USE DEF TypeOK
<1>1. CASE Start
  BY <1>1 DEF Start, IsQuery
<1>2. CASE FindFails
  BY <1>2, NothingType DEF FindFails, Fails, NoMemory
<1>3. CASE Find
  <2>1. arguments' = [n \in NamesOf(text) |-> TypeAt(file, LastMatch(text, n))]
    BY <1>3 DEF Find
  <2>2. NamesOf(text) \subseteq Names
    BY MatchIs DEF NamesOf
  <2>3. \A n \in NamesOf(text) : TypeAt(file, LastMatch(text, n)) \in ArgTypes
    BY TypeAtType
  <2>4. HasTypes(arguments')
    BY <2>1, <2>2, <2>3 DEF HasTypes
  <2>5. todo' = {} /\ stage' = "validate"
    BY <1>3 DEF Find
  <2> QED
    BY <1>3, <2>4, <2>5 DEF Find
<1>4. CASE ValidateFails
  BY <1>4, NothingType DEF ValidateFails, Fails, NoMemory
<1>5. CASE Validate
  BY <1>5 DEF Validate
<1>6. CASE Write
  BY <1>6, NothingType DEF Write, NoMemory, IsQuery
<1>7. ASSUME NEW key \in todo, Format(key) PROVE TypeOK' /\ (stage' \in {"idle", "find"} => todo' = {})
  <2>1. text' \in Text
    <3>1. key \in Seq(Pieces)
      BY DEF HasTypes, Names
    <3>2. Braced(key) \in Text
      BY <3>1, BracedIs
    <3> DEFINE end == [i \in KeyMatches(key) |-> MatchEnd(text, i, key)]
               with == [i \in KeyMatches(key) |-> Braced(key)]
    <3>3. \A i \in DOMAIN end : with[i] \in Text
      BY <3>2
    <3>4. text' = Replaced(text, end, with)
      BY <1>7 DEF Format
    <3> HIDE DEF end, with
    <3> QED
      BY <3>3, <3>4, ReplacedType
  <2>2. stage' = "format" /\ todo' \subseteq DOMAIN arguments'
    BY <1>7 DEF Format
  <2> QED
    BY <1>7, <2>1, <2>2 DEF Format
<1>8. CASE UNCHANGED vars
  BY <1>8 DEF vars
<1> QED
  BY <1>1, <1>2, <1>3, <1>4, <1>5, <1>6, <1>7, <1>8 DEF Next

(* The types that Find gives, in the first run and in later ones. *)
LEMMA TypesFound ==
  ASSUME TypeOK, NEW A \in SUBSET Matches(asked.text),
         file.text = RewrittenAt(asked.text, A),
         file = asked \/ ArgumentsMeant(file.arguments),
         NEW n \in NamesOf(file.text)
  PROVE  TypeAt(file, LastMatch(file.text, n)) \in TypesMeant(n)
<1> DEFINE t == asked.text
           u == file.text
           q == LastMatch(u, n)
<1>1. t \in Text /\ u \in Text
  BY AskedType DEF TypeOK, IsQuery
<1>2. PICK f : Flattens(f, PartsAt(t, A))
  BY <1>1, Imaged
<1>3. u = RewrittenAt(t, A) /\ Matches(u) = {Place(f, p) : p \in Matches(t)}
  BY <1>1, <1>2, MatchesKept
<1>4. q \in Matches(u) /\ NameAt(u, q) = n
  BY <1>1, LastMatchIs
<1>5. PICK p \in Matches(t) : q = Place(f, p)
  BY <1>3, <1>4
<1>6. p \in 1 .. Len(t) /\ t[p] = "$"
  BY <1>1, MatchIs
<1>7. NameAt(t, p) = n
  <2>1. NameAt(RewrittenAt(t, A), Place(f, p)) = NameAt(t, p)
    BY <1>1, <1>2, <1>6, NamesKept
  <2> HIDE DEF q, u
  <2> QED
    BY <2>1, <1>3, <1>4, <1>5
<1>8. At(u, q - 1, "[") <=> At(t, p - 1, "[")
  BY <1>1, <1>2, <1>3, <1>5, <1>6, BeforeKept
<1>9. At(u, q - 1, Quote) <=> At(t, p - 1, Quote)
  BY <1>1, <1>2, <1>3, <1>5, <1>6, BeforeKept
<1> DEFINE Meant(i) == IF At(t, i - 1, "[") THEN "Duration"
                       ELSE IF At(t, i - 1, Quote) THEN "String" ELSE Declared(asked, n)
<1>10. /\ TypesMeant(n) = {Meant(i) : i \in {j \in Matches(t) : NameAt(t, j) = n}}
       /\ Meant(p) \in TypesMeant(n)
  BY <1>7 DEF TypesMeant
<1>11. \A x \in TypesMeant(n) : x # ""
  <2>1. Declared(asked, n) # ""
    BY DEF Declared
  <2>2. \A i : Meant(i) # ""
    BY <2>1
  <2> HIDE DEF Meant
  <2> QED
    BY <2>2, <1>10
<1>12. TypeAt(file, q) = IF At(u, q - 1, "[") THEN "Duration"
                         ELSE IF At(u, q - 1, Quote) THEN "String" ELSE Declared(file, n)
  BY <1>4 DEF TypeAt
<1>13. Declared(file, n) = Declared(asked, n) \/ Declared(file, n) \in TypesMeant(n)
  <2>1. CASE file = asked
    BY <2>1
  <2>2. CASE ArgumentsMeant(file.arguments)
    <3>1. n \in NamesOf(t)
      BY <1>7 DEF NamesOf
    <3>2. n \in DOMAIN file.arguments /\ file.arguments[n] \in TypesMeant(n)
      BY <2>2, <3>1 DEF ArgumentsMeant
    <3>3. file.arguments[n] # ""
      BY <3>2, <1>11
    <3>4. Declared(file, n) = file.arguments[n]
      BY <3>2, <3>3 DEF Declared
    <3> QED
      BY <3>2, <3>4
  <2> QED
    BY <2>1, <2>2
<1> DEFINE y == TypeAt(file, q)
<1> HIDE DEF t, u, q, y
<1>14. At(u, q - 1, "[") => y = Meant(p)
  BY <1>8, <1>12 DEF y
<1>15. ~At(u, q - 1, "[") /\ At(u, q - 1, Quote) => y = Meant(p)
  BY <1>8, <1>9, <1>12 DEF y
<1>16. ~At(u, q - 1, "[") /\ ~At(u, q - 1, Quote) => y = Declared(file, n) /\ Meant(p) = Declared(asked, n)
  BY <1>8, <1>9, <1>12 DEF y
<1> HIDE DEF Meant
<1>17. y \in TypesMeant(n)
  BY <1>10, <1>13, <1>14, <1>15, <1>16
<1> QED
  BY <1>17 DEF y, q, u

TextOK == FileHeld /\ TextHeld /\ ArgumentsHeld

LEMMA Frame ==
  ASSUME asked' = asked
  PROVE  /\ \A n : TypesMeant(n)' = TypesMeant(n)
         /\ \A args : ArgumentsMeant(args)' <=> ArgumentsMeant(args)
BY DEF TypesMeant, Declared, ArgumentsMeant

(* One step of the command, if no name begins another. *)
LEMMA TextStep ==
  ASSUME TypeOK, stage \in {"idle", "find"} => todo = {}, [Next]_vars,
         Apart(asked.text), TextOK
  PROVE  TextOK'
<1> DEFINE t == asked.text
<1>1. t \in Text /\ asked' = asked
  BY AskedType DEF Next, vars, Start, FindFails, Fails, Find, ValidateFails, Validate, Format, Write
<1>2. /\ \A n : TypesMeant(n)' = TypesMeant(n)
      /\ \A args : ArgumentsMeant(args)' <=> ArgumentsMeant(args)
  BY <1>1, Frame
<1>3. Done \in SUBSET Matches(t) /\ (written => Done = Matches(t))
      /\ (stage \in {"idle", "find"} /\ ~written => Done = {})
      /\ (stage = "format" /\ todo = {} => Done = Matches(t))
  BY DEF Done
<1>4. file.text = IF written THEN RewrittenAt(t, Matches(t)) ELSE t
  BY DEF TextOK, FileHeld, FileIs, Rewritten
<1>5. stage # "idle" => text = RewrittenAt(t, Done)
  BY DEF TextOK, TextHeld
<1>6. /\ stage \in {"validate", "format"} => ArgumentsMeant(arguments)
      /\ written => ArgumentsMeant(file.arguments)
      /\ ~written => file = asked
  BY DEF TextOK, ArgumentsHeld
<1>7. t = RewrittenAt(t, {})
  BY <1>1, RewrittenNowhere
<1>8. CASE Start
  <2>1. Done' = IF written THEN Matches(t) ELSE {}
    BY <1>1, <1>8 DEF Start, Done
  <2>2. text' = RewrittenAt(t, Done')
    BY <1>4, <1>7, <1>8, <2>1 DEF Start
  <2>3. file' = file /\ written' = written /\ stage' = "find"
    BY <1>8 DEF Start
  <2> QED
    BY <1>1, <1>2, <1>4, <1>6, <2>2, <2>3 DEF TextOK, FileHeld, FileIs, Rewritten, TextHeld, ArgumentsHeld
<1>9. CASE FindFails \/ ValidateFails
  <2>1. file' = file /\ written' = written /\ stage' = "idle"
    BY <1>9 DEF FindFails, ValidateFails, Fails
  <2> QED
    BY <1>1, <1>2, <1>4, <1>6, <2>1 DEF TextOK, FileHeld, FileIs, Rewritten, TextHeld, ArgumentsHeld
<1>10. CASE Find
  <2>1. file' = file /\ written' = written /\ stage' = "validate" /\ text' = text /\ stage = "find"
    BY <1>10 DEF Find
  <2>2. Done' = Done
    BY <1>1, <1>10 DEF Find, Done
  <2>3. text = file.text
    BY <1>3, <1>4, <1>5, <1>7, <2>1
  <2>4. text = RewrittenAt(t, Done) /\ NamesOf(text) = NamesOf(t)
    BY <1>1, <1>3, <1>5, <2>1, RewrittenText
  <2>5. ASSUME NEW n \in NamesOf(t) PROVE TypeAt(file, LastMatch(text, n)) \in TypesMeant(n)
    <3>1. file = asked \/ ArgumentsMeant(file.arguments)
      BY <1>6
    <3> QED
      BY <1>3, <2>3, <2>4, <3>1, TypesFound
  <2>6. arguments' = [n \in NamesOf(t) |-> TypeAt(file, LastMatch(text, n))]
    BY <1>10, <2>4 DEF Find
  <2>7. ArgumentsMeant(arguments')
    BY <2>5, <2>6 DEF ArgumentsMeant
  <2>8. ArgumentsMeant(arguments)'
    BY <2>7, <1>1, <1>2 DEF ArgumentsMeant
  <2> QED
    BY <1>1, <1>2, <1>4, <1>5, <1>6, <2>1, <2>2, <2>8
       DEF TextOK, FileHeld, FileIs, Rewritten, TextHeld, ArgumentsHeld
<1>11. CASE Validate
  <2>1. /\ file' = file /\ written' = written /\ stage' = "format" /\ text' = text
        /\ stage = "validate" /\ arguments' = arguments /\ todo' = DOMAIN arguments
    BY <1>11 DEF Validate
  <2>2. DOMAIN arguments = NamesOf(t)
    BY <1>6, <2>1 DEF ArgumentsMeant
  <2>3. \A i \in Matches(t) : NameAt(t, i) \in NamesOf(t)
    BY DEF NamesOf
  <2>4. Done' = Done
    BY <1>1, <2>1, <2>2, <2>3 DEF Done
  <2>5. ArgumentsMeant(arguments)'
    BY <1>1, <1>2, <1>6, <2>1 DEF ArgumentsMeant
  <2> QED
    BY <1>1, <1>2, <1>4, <1>5, <1>6, <2>1, <2>4, <2>5
       DEF TextOK, FileHeld, FileIs, Rewritten, TextHeld, ArgumentsHeld
<1>12. CASE Write
  <2>1. /\ file' = [text |-> text, arguments |-> arguments] /\ written' = TRUE
        /\ stage = "format" /\ stage' = "idle" /\ todo = {}
    BY <1>12 DEF Write
  <2>2. text = RewrittenAt(t, Matches(t))
    BY <1>3, <1>5, <2>1
  <2>3. file'.text = RewrittenAt(t, Matches(t)) /\ file'.arguments = arguments
    BY <2>1, <2>2
  <2>4. ArgumentsMeant(file.arguments)'
    BY <1>1, <1>2, <1>6, <2>1, <2>3 DEF ArgumentsMeant
  <2> QED
    BY <1>1, <2>1, <2>3, <2>4 DEF TextOK, FileHeld, FileIs, Rewritten, TextHeld, ArgumentsHeld
<1>13. ASSUME NEW key \in todo, Format(key) PROVE TextOK'
  <2>1. /\ file' = file /\ written' = written /\ stage' = stage /\ stage = "format"
        /\ arguments' = arguments /\ todo' = todo \ {key}
    BY <1>13 DEF Format
  <2>2. text = RewrittenAt(t, Done) /\ text \in Text /\ NamesOf(text) = NamesOf(t)
    BY <1>1, <1>3, <1>5, <2>1, RewrittenText
  <2>3. Apart(text) /\ key \in NamesOf(text)
    BY <1>6, <2>1, <2>2 DEF Apart, ArgumentsMeant, TypeOK
  <2> DEFINE B == {p \in Matches(t) : NameAt(t, p) = key}
             S == {q \in Matches(text) : NameAt(text, q) = key}
  <2>4. text' = RewrittenAt(text, S)
    BY <1>13, <2>2, <2>3, FormatIs
  <2>5. PICK f : Flattens(f, PartsAt(t, Done))
    BY <1>1, <1>3, Imaged
  <2>6. S = Moved(f, B)
    <3>1. Matches(text) = {Place(f, p) : p \in Matches(t)}
      BY <1>1, <1>3, <2>2, <2>5, MatchesKept
    <3>2. ASSUME NEW p \in Matches(t) PROVE NameAt(text, Place(f, p)) = NameAt(t, p)
      <4>1. p \in 1 .. Len(t) /\ t[p] = "$"
        BY <1>1, MatchIs
      <4>2. NameAt(RewrittenAt(t, Done), Place(f, p)) = NameAt(t, p)
        BY <4>1, <1>1, <1>3, <2>5, NamesKept
      <4> QED
        BY <4>2, <2>2
    <3> QED
      BY <3>1, <3>2 DEF Moved
  <2>7. RewrittenAt(text, S) = RewrittenAt(t, Done \cup B)
    <3>1. B \in SUBSET Matches(t)
      OBVIOUS
    <3> HIDE DEF B
    <3>2. RewrittenAt(RewrittenAt(t, Done), Moved(f, B)) = RewrittenAt(t, Done \cup B)
      BY <3>1, <1>1, <1>3, <2>5, RewrittenTwice
    <3> QED
      BY <3>2, <2>2, <2>6
  <2>8. Done' = Done \cup B
    BY <1>1, <2>1 DEF Done
  <2>9. text' = RewrittenAt(t, Done')
    BY <2>4, <2>7, <2>8
  <2>10. ArgumentsMeant(arguments)'
    BY <1>1, <1>2, <1>6, <2>1 DEF ArgumentsMeant
  <2> QED
    BY <1>1, <1>2, <1>4, <1>6, <2>1, <2>9, <2>10
       DEF TextOK, FileHeld, FileIs, Rewritten, TextHeld, ArgumentsHeld
<1>14. CASE UNCHANGED vars
  BY <1>14 DEF vars, TextOK, FileHeld, FileIs, TextHeld, ArgumentsHeld, ArgumentsMeant, TypesMeant,
               Declared, Done
<1> QED
  BY <1>8, <1>9, <1>10, <1>11, <1>12, <1>13, <1>14 DEF Next

-----------------------------------------------------------------------------
(* Rewriting a query whose placeholders are rewritten changes nothing: what *)
(* formatNativeQueryVariables wrote is what it writes again.               *)
THEOREM RewrittenIsFinal ==
  ASSUME NEW t \in Text
  PROVE  Rewritten(Rewritten(t)) = Rewritten(t)
<1> DEFINE A == Matches(t)
<1>1. PICK f : Flattens(f, PartsAt(t, A))
  BY Imaged
<1>2. Matches(RewrittenAt(t, A)) = Moved(f, A)
  BY <1>1, MatchesKept DEF Moved
<1>3. RewrittenAt(RewrittenAt(t, A), Moved(f, A)) = RewrittenAt(t, A \cup A)
  <2>1. A \in SUBSET Matches(t)
    OBVIOUS
  <2> HIDE DEF A
  <2> QED
    BY <1>1, <2>1, RewrittenTwice
<1> QED
  BY <1>2, <1>3 DEF Rewritten

LEMMA InitHolds == Init => IInv
<1> SUFFICES ASSUME Init PROVE IInv
  OBVIOUS
<1>1. IsQuery(asked)
  BY PlaceholdersAssumption DEF Init
<1>2. TypeOK
  BY <1>1, NothingType DEF Init, TypeOK
<1>3. FileHeld /\ TextHeld /\ ArgumentsHeld
  BY DEF Init, FileHeld, FileIs, TextHeld, ArgumentsHeld
<1> QED
  BY <1>2, <1>3 DEF Init, IInv

LEMMA StepHolds == IInv /\ [Next]_vars => IInv'
<1> SUFFICES ASSUME IInv, [Next]_vars PROVE IInv'
  OBVIOUS
<1>1. TypeOK' /\ (stage' \in {"idle", "find"} => todo' = {})
  BY TypeStep DEF IInv
<1>2. asked' = asked
  BY DEF Next, vars, Start, FindFails, Fails, Find, ValidateFails, Validate, Format, Write
<1>3. ASSUME Apart(asked.text) PROVE TextOK'
  BY <1>3, TextStep DEF IInv, TextOK
<1>4. Apart(asked.text)' => Apart(asked.text)
  BY <1>2
<1> QED
  BY <1>1, <1>3, <1>4 DEF IInv, TextOK

(* IInv holds in every state: between any two steps the text is the user's *)
(* with the placeholders rewritten that the walk has reached.              *)
THEOREM InductiveInvariant == Spec => []IInv
BY InitHolds, StepHolds, PTL DEF Spec

(* The state of the command stays well typed. *)
THEOREM TypeCorrect == Spec => []TypeOK
<1>1. IInv => TypeOK
  BY DEF IInv
<1> QED
  BY <1>1, InductiveInvariant, PTL

(* Where a match of the command's pattern ends, if every placeholder has   *)
(* both braces or none: at the end of the placeholder.                     *)
LEMMA PairedEnd ==
  ASSUME NEW t \in Text, Paired(t), NEW i \in Matches(t)
  PROVE  End(t, i) = IF IsOpened(t, i) THEN AfterName(t, i) + 1 ELSE AfterName(t, i)
<1>1. i \in 1 .. Len(t)
  BY MatchIs
<1>2. Begin(t, i) = IF IsOpened(t, i) THEN i + 2 ELSE i + 1
  BY <1>1, BeginIs DEF IsOpened
<1>3. Stop(t, i) = AfterName(t, i)
  BY <1>2 DEF Stop, Begin, AfterName
<1>4. IsOpened(t, i) <=> At(t, Stop(t, i), "}")
  BY <1>3 DEF Paired
<1>5. CASE IsOpened(t, i)
  BY <1>1, <1>3, <1>4, <1>5, EndIs
<1>6. CASE ~IsOpened(t, i)
  BY <1>1, <1>3, <1>4, <1>6, EndIs
<1> QED
  BY <1>5, <1>6

LEMMA PairedRewritten ==
  ASSUME NEW t \in Text, Paired(t)
  PROVE  Rewritten(t) = Replacement(t)
<1> DEFINE ends == [i \in Matches(t) |-> End(t, i)]
           meant == [i \in Matches(t) |-> IF IsOpened(t, i) THEN AfterName(t, i) + 1
                                          ELSE AfterName(t, i)]
           with == [i \in Matches(t) |-> Braced(NameAt(t, i))]
<1>1. ends = meant
  BY PairedEnd
<1>2. Rewritten(t) = Replaced(t, ends, with) /\ Replacement(t) = Replaced(t, meant, with)
  BY DEF Rewritten, RewrittenAt, Replacement
<1> HIDE DEF ends, meant, with
<1> QED
  BY <1>1, <1>2

(* For every query none of whose names begins another one and whose bare   *)
(* names are followed by no brace, every order in which                    *)
(* formatNativeQueryVariables walks the arguments, and every number of runs*)
(* on its own output: the file holds the user's query with every $name and *)
(* ${name} rewritten once and all other text kept.                         *)
THEOREM QueryRewrittenAtOnce == Spec => []RewrittenAtOnce
<1>1. IInv => RewrittenAtOnce
  <2> SUFFICES ASSUME IInv, Apart(asked.text), Paired(asked.text)
               PROVE  FileIs(Replacement(asked.text))
    BY DEF RewrittenAtOnce
  <2>1. asked.text \in Text
    BY AskedType DEF IInv
  <2>2. Rewritten(asked.text) = Replacement(asked.text)
    BY <2>1, PairedRewritten
  <2>3. FileIs(Rewritten(asked.text))
    BY DEF IInv, FileHeld
  <2> QED
    BY <2>2, <2>3 DEF FileIs
<1> QED
  BY <1>1, InductiveInvariant, PTL

(* The variables that the connector finds in a written query are the       *)
(* arguments the file declares, each with a type that one of its places in *)
(* the user's query asks for, after any number of runs.                    *)
THEOREM VariablesServed == Spec => []ArgumentsServed
<1>1. IInv => ArgumentsServed
  <2> SUFFICES ASSUME IInv, written, Apart(asked.text)
               PROVE  /\ {n \in Variables(file.text) : IsLong(n)} = DOMAIN file.arguments
                      /\ \A n \in DOMAIN file.arguments : file.arguments[n] \in TypesMeant(n)
    BY DEF ArgumentsServed
  <2>1. asked.text \in Text
    BY AskedType DEF IInv
  <2>2. file.text = Rewritten(asked.text) /\ ArgumentsMeant(file.arguments)
    BY DEF IInv, FileHeld, FileIs, ArgumentsHeld
  <2>3. {n \in Variables(file.text) : IsLong(n)} = NamesOf(asked.text)
    BY <2>1, <2>2, VariablesAre
  <2> QED
    BY <2>2, <2>3 DEF ArgumentsMeant
<1> QED
  BY <1>1, InductiveInvariant, PTL
=============================================================================
