------------------------- MODULE GroupResultsProofs -------------------------
(***************************************************************************)
(* Proofs about GroupResults for every set of aggregates, every answer of  *)
(* Prometheus to each of them and every order of the goroutines.           *)
(***************************************************************************)
EXTENDS GroupResults, TLAPS

LEMMA ElementType == ASSUME NEW S, NEW q \in Seq(S), NEW i \in DOMAIN q PROVE q[i] \in S
OBVIOUS

(* A series of an answer and its times. *)
LEMMA SeriesType ==
  ASSUME TypeOK, NEW k \in Aggregates, next[k].series \in DOMAIN answer[k]
  PROVE  /\ Series(k) \in [labels : Labels, key : Keys, times : Seq(Nat)]
         /\ Series(k).times # << >>
         /\ \A j \in DOMAIN Series(k).times : Series(k).times[j] \in Times \cap Nat
<1> DEFINE m == answer[k]
           s == Series(k)
<1>1. m \in Matrices
  BY DEF TypeOK
<1>2. m \in Seq([labels : Labels, key : Keys, times : Seq(Nat)]) /\ IsMatrix(m)
  BY <1>1, GroupAssumption
<1>3. s = m[next[k].series]
  BY DEF Series
<1> HIDE DEF m, s
<1>4. s \in [labels : Labels, key : Keys, times : Seq(Nat)]
  <2>1. \A i \in DOMAIN m : m[i] \in [labels : Labels, key : Keys, times : Seq(Nat)]
    BY <1>2, ElementType
  <2>2. next[k].series \in DOMAIN m
    BY DEF m
  <2> QED
    BY <2>1, <2>2, <1>3
<1>5. s.times # << >>
  BY <1>2, <1>3 DEF IsMatrix, m
<1>6. ASSUME NEW j \in DOMAIN s.times PROVE s.times[j] \in Times \cap Nat
  <2>1. s.times[j] \in Nat
    BY <1>4
  <2>2. s \in UNION {Range(n) : n \in Matrices}
    BY <1>1, <1>3 DEF Range, m
  <2>3. s.times[j] \in Range(s.times)
    BY DEF Range
  <2> QED
    BY <2>1, <2>2, <2>3 DEF Times
<1> QED
  BY <1>4, <1>5, <1>6 DEF s

LEMMA MinOfOne == ASSUME NEW i \in Nat PROVE Min({i}) = i
BY DEF Min

LEMMA GroupType ==
  ASSUME NEW d \in [key : Keys, time : Seq(Nat)], NEW k \in Aggregates, NEW v \in Values
  PROVE  Group(d, k, v) \in Groups
<1>1. [a \in {k} |-> v] \in [{k} -> Values]
  OBVIOUS
<1>2. {k} \in (SUBSET Aggregates) \ {{}}
  OBVIOUS
<1>3. [a \in {k} |-> v] \in UNION {[A -> Values] : A \in (SUBSET Aggregates) \ {{}}}
  BY <1>1, <1>2
<1> QED
  BY <1>3 DEF Group, Groups

(* The value set is the aggregate's own; the others' stay. *)
LEMMA WithAggregateType ==
  ASSUME NEW g \in Groups, NEW k \in Aggregates, NEW v \in Values
  PROVE  /\ WithAggregate(g, k, v) \in Groups
         /\ WithAggregate(g, k, v).dims = g.dims
         /\ DOMAIN WithAggregate(g, k, v).aggs = DOMAIN g.aggs \cup {k}
         /\ WithAggregate(g, k, v).aggs[k] = v
         /\ \A a \in DOMAIN g.aggs \ {k} :
              /\ a \in DOMAIN WithAggregate(g, k, v).aggs
              /\ WithAggregate(g, k, v).aggs[a] = g.aggs[a]
<1> DEFINE B == DOMAIN g.aggs \cup {k}
           f == [a \in B |-> IF a = k THEN v ELSE g.aggs[a]]
<1>1. PICK A \in (SUBSET Aggregates) \ {{}} : g.aggs \in [A -> Values]
  BY DEF Groups
<1>2. B \in (SUBSET Aggregates) \ {{}} /\ f \in [B -> Values]
  BY <1>1
<1>3. f \in UNION {[C -> Values] : C \in (SUBSET Aggregates) \ {{}}}
  BY <1>2
<1>4. WithAggregate(g, k, v) = [dims |-> g.dims, aggs |-> f]
  <2>1. g = [dims |-> g.dims, aggs |-> g.aggs]
    BY DEF Groups
  <2>2. WithAggregate(g, k, v) = [g EXCEPT !.aggs = f]
    BY DEF WithAggregate
  <2> HIDE DEF f
  <2> QED
    BY <2>1, <2>2
<1>5. WithAggregate(g, k, v) \in Groups
  BY <1>3, <1>4 DEF Groups
<1> QED
  BY <1>4, <1>5

LEMMA DimensionsType ==
  ASSUME setting \in Settings, NEW t \in Nat,
         NEW s \in [labels : Labels, key : Keys, times : Seq(Nat)]
  PROVE  Dimensions(s, t) \in [key : Keys, time : Seq(Nat)]
<1>1. setting.resolution \in Nat /\ setting.resolution # 0
  BY GroupAssumption
<1>2. FormatTimestamp(t) \in Nat
  BY <1>1 DEF FormatTimestamp
<1>3. <<FormatTimestamp(t)>> \in Seq(Nat) /\ << >> \in Seq(Nat)
  BY <1>2
<1> QED
  BY <1>3 DEF Dimensions

LEMMA ValueType ==
  ASSUME NEW k \in Aggregates, NEW t \in Times,
         NEW s \in [labels : Labels, key : Keys, times : Seq(Nat)]
  PROVE  /\ FormatValue(SampleOf(k, s, t)) \in Values
         /\ Raw(SampleOf(k, s, t)) \in Values
BY DEF FormatValue, Raw, SampleOf, Values, Samples, Forms

(* One sample merged: the list keeps its type and one group for each       *)
(* combination of dimensions, and the other aggregates' values.            *)
LEMMA MergeValueKeeps ==
  ASSUME setting \in Settings, NEW list \in Seq(Groups), Unique(list),
         NEW k \in Aggregates, NEW t \in Times \cap Nat,
         NEW s \in [labels : Labels, key : Keys, times : Seq(Nat)]
  PROVE  /\ MergeValue(list, k, s, t) \in Seq(Groups)
         /\ Unique(MergeValue(list, k, s, t))
         /\ Extends(MergeValue(list, k, s, t), list, k)
<1> DEFINE d    == Dimensions(s, t)
           same == {i \in DOMAIN list : list[i].dims = d}
           new  == MergeValue(list, k, s, t)
           fresh == Group(d, k, FormatValue(SampleOf(k, s, t)))
           raw  == Raw(SampleOf(k, s, t))
<1>1. d \in [key : Keys, time : Seq(Nat)]
  BY DimensionsType
<1>2. fresh \in Groups /\ fresh.dims = d
  BY <1>1, GroupType, ValueType DEF Group
<1>3. raw \in Values
  BY ValueType
<1> HIDE DEF d, fresh, raw
<1>4. CASE same = {}
  <2>1. new = Append(list, fresh)
    BY <1>4 DEF MergeValue, d, fresh
  <2>2. new \in Seq(Groups) /\ Len(new) = Len(list) + 1
    BY <2>1, <1>2
  <2>3. /\ \A i \in DOMAIN list : i \in DOMAIN new /\ new[i] = list[i]
        /\ new[Len(list) + 1] = fresh
        /\ DOMAIN new = DOMAIN list \cup {Len(list) + 1}
    BY <2>1, <1>2
  <2>4. Extends(new, list, k)
    BY <2>3 DEF Extends
  <2>5. \A i \in DOMAIN list : list[i].dims # d
    BY <1>4
  <2>6. Unique(new)
    BY <2>3, <2>5, <1>2 DEF Unique
  <2> QED
    BY <2>2, <2>4, <2>6
<1>5. CASE same # {}
  <2>1. PICK i \in DOMAIN list : list[i].dims = d
    BY <1>5
  <2>2. same = {i} /\ i \in Nat
    BY <2>1 DEF Unique
  <2>3. Min(same) = i
    BY <2>2, MinOfOne
  <2> DEFINE g == WithAggregate(list[i], k, raw)
  <2>4. new = [list EXCEPT ![i] = g]
    BY <1>5, <2>3 DEF MergeValue, d, raw
  <2>5. list[i] \in Groups
    OBVIOUS
  <2>6. /\ g \in Groups
        /\ g.dims = list[i].dims
        /\ \A a \in DOMAIN list[i].aggs \ {k} : a \in DOMAIN g.aggs /\ g.aggs[a] = list[i].aggs[a]
    BY <1>3, <2>5, WithAggregateType
  <2> HIDE DEF g, new
  <2>7. /\ new \in Seq(Groups)
        /\ DOMAIN new = DOMAIN list
        /\ new[i] = g
        /\ \A j \in DOMAIN list \ {i} : new[j] = list[j]
    BY <2>4, <2>6
  <2>8. Extends(new, list, k)
    BY <2>6, <2>7 DEF Extends
  <2>9. Unique(new)
    BY <2>6, <2>7 DEF Unique
  <2> QED
    BY <2>7, <2>8, <2>9 DEF new
<1> QED
  BY <1>4, <1>5

LEMMA ExtendsTransitive ==
  ASSUME NEW a, NEW b, NEW c, NEW k, Extends(a, b, k), Extends(b, c, k)
  PROVE  Extends(a, c, k)
BY DEF Extends

(* What one merged sample changes: the groups of its dimensions take it    *)
(* for its aggregate, there is one, and nothing else comes or goes.        *)
Takes(new, list, k, d, sample) ==
  /\ \E i \in DOMAIN new : new[i].dims = d /\ k \in DOMAIN new[i].aggs
  /\ \A i \in DOMAIN new :
       new[i].dims = d /\ k \in DOMAIN new[i].aggs => new[i].aggs[k].sample = sample
  /\ \A i \in DOMAIN new : \A a \in DOMAIN new[i].aggs :
       a # k \/ new[i].dims # d =>
         /\ i \in DOMAIN list
         /\ list[i].dims = new[i].dims
         /\ a \in DOMAIN list[i].aggs
         /\ list[i].aggs[a] = new[i].aggs[a]
  /\ \A i \in DOMAIN list :
       /\ i \in DOMAIN new
       /\ new[i].dims = list[i].dims
       /\ DOMAIN list[i].aggs \subseteq DOMAIN new[i].aggs

LEMMA MergeValueTakes ==
  ASSUME setting \in Settings, NEW list \in Seq(Groups), Unique(list),
         NEW k \in Aggregates, NEW t \in Times \cap Nat,
         NEW s \in [labels : Labels, key : Keys, times : Seq(Nat)]
  PROVE  Takes(MergeValue(list, k, s, t), list, k, Dimensions(s, t), SampleOf(k, s, t))
<1> DEFINE d      == Dimensions(s, t)
           sample == SampleOf(k, s, t)
           same   == {i \in DOMAIN list : list[i].dims = d}
           new    == MergeValue(list, k, s, t)
           fresh  == Group(d, k, FormatValue(sample))
           raw    == Raw(sample)
<1>1. d \in [key : Keys, time : Seq(Nat)]
  BY DimensionsType
<1>2. /\ fresh \in Groups /\ fresh.dims = d
      /\ DOMAIN fresh.aggs = {k} /\ fresh.aggs[k].sample = sample
  <2>1. FormatValue(sample) \in Values /\ FormatValue(sample).sample = sample
    BY ValueType DEF FormatValue
  <2>2. fresh \in Groups
    BY <1>1, <2>1, GroupType
  <2> QED
    BY <2>1, <2>2 DEF Group
<1>3. raw \in Values /\ raw.sample = sample
  BY ValueType DEF Raw
<1>4. CASE same = {}
  <2>1. new = Append(list, fresh)
    BY <1>4 DEF MergeValue
  <2> HIDE DEF d, fresh, sample
  <2>2. /\ \A i \in DOMAIN list : i \in DOMAIN new /\ new[i] = list[i]
        /\ new[Len(list) + 1] = fresh
        /\ DOMAIN new = DOMAIN list \cup {Len(list) + 1}
    BY <2>1, <1>2
  <2>3. \A i \in DOMAIN list : list[i].dims # d
    BY <1>4
  <2> HIDE DEF new
  <2>4. Takes(new, list, k, d, sample)
    BY <2>2, <2>3, <1>2 DEF Takes
  <2> QED
    BY <2>4 DEF new, d, sample
<1>5. CASE same # {}
  <2> HIDE DEF d, sample
  <2>1. PICK i \in DOMAIN list : list[i].dims = d
    BY <1>5
  <2>2. same = {i} /\ i \in Nat
    BY <2>1 DEF Unique
  <2>3. Min(same) = i
    BY <2>2, MinOfOne
  <2> HIDE DEF raw
  <2> DEFINE g == WithAggregate(list[i], k, raw)
  <2>4. new = [list EXCEPT ![i] = g]
    BY <1>5, <2>3 DEF MergeValue, d, raw, sample
  <2>5. list[i] \in Groups
    OBVIOUS
  <2>6. /\ g \in Groups
        /\ g.dims = list[i].dims
        /\ DOMAIN g.aggs = DOMAIN list[i].aggs \cup {k}
        /\ g.aggs[k] = raw
        /\ \A a \in DOMAIN list[i].aggs \ {k} : a \in DOMAIN g.aggs /\ g.aggs[a] = list[i].aggs[a]
    BY <1>3, <2>5, WithAggregateType
  <2> HIDE DEF g, new
  <2>7. /\ DOMAIN new = DOMAIN list
        /\ new[i] = g
        /\ \A j \in DOMAIN list \ {i} : new[j] = list[j]
    BY <2>4, <2>6
  <2>8. \A j \in DOMAIN list \ {i} : list[j].dims # d
    BY <2>1, <2>2
  <2>9. Takes(new, list, k, d, sample)
    BY <1>3, <2>1, <2>6, <2>7, <2>8 DEF Takes
  <2> QED
    BY <2>9 DEF new, d, sample
<1> QED
  BY <1>4, <1>5

LEMMA PlaceMeans ==
  ASSUME NEW k, NEW d
  PROVE  /\ \A i, j : <<i, j>> \in Places(k, d) <=>
              /\ i \in DOMAIN answer[k]
              /\ j \in DOMAIN answer[k][i].times
              /\ Dimensions(answer[k][i], answer[k][i].times[j]) = d
         /\ \A p \in Places(k, d) : p = <<p[1], p[2]>>
<1> DEFINE At(i) == {n \in DOMAIN answer[k][i].times :
                       Dimensions(answer[k][i], answer[k][i].times[n]) = d}
           Pairs(i) == {<<i, j>> : j \in At(i)}
<1>1. \A i, j : j \in At(i) <=>
        /\ j \in DOMAIN answer[k][i].times
        /\ Dimensions(answer[k][i], answer[k][i].times[j]) = d
  OBVIOUS
<1>2. Places(k, d) = UNION {Pairs(i) : i \in DOMAIN answer[k]}
  BY DEF Places
<1> HIDE DEF At
<1>3. \A p : p \in Places(k, d) <=> \E i \in DOMAIN answer[k] : \E j \in At(i) : p = <<i, j>>
  BY <1>2
<1> HIDE DEF Pairs
<1>4. ASSUME NEW p \in Places(k, d) PROVE p = <<p[1], p[2]>>
  BY <1>3
<1>5. ASSUME NEW i, NEW j PROVE <<i, j>> \in Places(k, d) <=> i \in DOMAIN answer[k] /\ j \in At(i)
  BY <1>3
<1> QED
  BY <1>1, <1>4, <1>5

(* The positions of a matrix are natural numbers. *)
LEMMA PositionsType ==
  ASSUME TypeOK, NEW k \in Aggregates, NEW i \in DOMAIN answer[k],
         NEW j \in DOMAIN answer[k][i].times
  PROVE  /\ i \in Nat \ {0} /\ j \in Nat \ {0}
         /\ j <= Len(answer[k][i].times)
         /\ DOMAIN answer[k][i].times = 1 .. Len(answer[k][i].times)
         /\ Len(answer[k][i].times) \in Nat
<1>1. answer[k] \in Seq([labels : Labels, key : Keys, times : Seq(Nat)])
  BY GroupAssumption DEF TypeOK
<1>2. answer[k][i] \in [labels : Labels, key : Keys, times : Seq(Nat)]
  BY <1>1, ElementType
<1>3. answer[k][i].times \in Seq(Nat)
  BY <1>2
<1> QED
  BY <1>1, <1>3

(* Holds depends on the place only through the samples before it. *)
LEMMA HoldsSame ==
  ASSUME NEW k, NEW list, NEW n, NEW m, Holds(list, k, n),
         \A i \in DOMAIN answer[k] : \A j \in DOMAIN answer[k][i].times :
           Before(<<i, j>>, n) <=> Before(<<i, j>>, m)
  PROVE  Holds(list, k, m)
<1>1. ASSUME NEW d PROVE Passed(k, d, n) = Passed(k, d, m)
  <2>1. \A p \in Places(k, d) : Before(p, n) <=> Before(p, m)
    BY PlaceMeans
  <2> QED
    BY <2>1 DEF Passed
<1> QED
  BY <1>1 DEF Holds

(* The other aggregates lose and gain nothing by a merged sample. *)
LEMMA OthersHold ==
  ASSUME NEW k, NEW a, a # k, NEW list, NEW new, NEW d, NEW sample, NEW n,
         Takes(new, list, k, d, sample), Holds(list, a, n)
  PROVE  Holds(new, a, n)
<1>1. ASSUME NEW i \in DOMAIN answer[a], NEW j \in DOMAIN answer[a][i].times,
             Before(<<i, j>>, n)
      PROVE  \E h \in DOMAIN new :
               /\ new[h].dims = Dimensions(answer[a][i], answer[a][i].times[j])
               /\ a \in DOMAIN new[h].aggs
  <2>1. PICK h \in DOMAIN list :
          /\ list[h].dims = Dimensions(answer[a][i], answer[a][i].times[j])
          /\ a \in DOMAIN list[h].aggs
    BY <1>1 DEF Holds
  <2> QED
    BY <2>1 DEF Takes
<1>2. ASSUME NEW h \in DOMAIN new, a \in DOMAIN new[h].aggs
      PROVE  \E p \in Passed(a, new[h].dims, n) :
               /\ IsLast(p, Passed(a, new[h].dims, n))
               /\ new[h].aggs[a].sample = SampleAt(a, p)
  <2>1. /\ h \in DOMAIN list /\ list[h].dims = new[h].dims
        /\ a \in DOMAIN list[h].aggs /\ list[h].aggs[a] = new[h].aggs[a]
    BY <1>2 DEF Takes
  <2> QED
    BY <2>1 DEF Holds
<1> QED
  BY <1>1, <1>2 DEF Holds

(* The aggregate's own list holds one sample more. *)
LEMMA OneMoreHeld ==
  ASSUME TypeOK, NEW k \in Aggregates, NEW list, NEW new,
         InSeries(k), next[k].value \in DOMAIN Series(k).times,
         Holds(list, k, next[k]),
         Takes(new, list, k, Dimensions(Series(k), Series(k).times[next[k].value]),
               SampleOf(k, Series(k), Series(k).times[next[k].value]))
  PROVE  Holds(new, k, [next[k] EXCEPT !.value = @ + 1])
<1> DEFINE n  == next[k]
           m  == [next[k] EXCEPT !.value = @ + 1]
           p0 == <<n.series, n.value>>
           d0 == Dimensions(answer[k][n.series], answer[k][n.series].times[n.value])
<1>1. n \in [series : Nat, value : Nat]
  BY DEF TypeOK
<1>2. m.series = n.series /\ m.value = n.value + 1
  BY <1>1
<1>3. n.series \in DOMAIN answer[k] /\ n.value \in DOMAIN answer[k][n.series].times
  BY DEF InSeries, Series
<1>4. Takes(new, list, k, d0, SampleAt(k, p0))
  BY DEF Series, SampleAt
<1> HIDE DEF m, d0
<1>5. ASSUME NEW i \in DOMAIN answer[k], NEW j \in DOMAIN answer[k][i].times
      PROVE  /\ Before(<<i, j>>, m) <=> Before(<<i, j>>, n) \/ <<i, j>> = p0
             /\ Before(<<i, j>>, m) => i < n.series \/ (i = n.series /\ j <= n.value)
  BY <1>1, <1>2, PositionsType DEF Before
<1>6. p0 \in Places(k, d0) /\ Before(p0, m)
  BY <1>1, <1>2, <1>3, PlaceMeans DEF Before, d0
<1>7. ASSUME NEW d, d # d0 PROVE Passed(k, d, m) = Passed(k, d, n)
  <2>1. ASSUME NEW p \in Places(k, d) PROVE Before(p, m) <=> Before(p, n)
    <3>1. PICK i \in DOMAIN answer[k], j \in DOMAIN answer[k][p[1]].times :
            p = <<i, j>> /\ i = p[1] /\ j = p[2]
      BY PlaceMeans
    <3>2. p # p0
      BY <1>7, PlaceMeans DEF d0
    <3> QED
      BY <1>5, <3>1, <3>2
  <2> QED
    BY <2>1 DEF Passed
<1>8. p0 \in Passed(k, d0, m) /\ IsLast(p0, Passed(k, d0, m))
  <2>1. p0 \in Passed(k, d0, m)
    BY <1>6 DEF Passed
  <2>2. ASSUME NEW q \in Passed(k, d0, m)
        PROVE  q[1] < p0[1] \/ (q[1] = p0[1] /\ q[2] <= p0[2])
    <3>1. q \in Places(k, d0) /\ Before(q, m)
      BY DEF Passed
    <3>2. q = <<q[1], q[2]>> /\ q[1] \in DOMAIN answer[k] /\ q[2] \in DOMAIN answer[k][q[1]].times
      BY <3>1, PlaceMeans
    <3> QED
      BY <1>5, <3>1, <3>2
  <2> QED
    BY <2>1, <2>2 DEF IsLast
<1>9. ASSUME NEW i \in DOMAIN answer[k], NEW j \in DOMAIN answer[k][i].times,
             Before(<<i, j>>, m)
      PROVE  \E h \in DOMAIN new :
               /\ new[h].dims = Dimensions(answer[k][i], answer[k][i].times[j])
               /\ k \in DOMAIN new[h].aggs
  <2>1. CASE Before(<<i, j>>, n)
    <3>1. PICK h \in DOMAIN list :
            /\ list[h].dims = Dimensions(answer[k][i], answer[k][i].times[j])
            /\ k \in DOMAIN list[h].aggs
      BY <2>1 DEF Holds
    <3> QED
      BY <3>1, <1>4 DEF Takes
  <2>2. CASE <<i, j>> = p0
    <3>1. Dimensions(answer[k][i], answer[k][i].times[j]) = d0
      BY <2>2 DEF d0
    <3> QED
      BY <3>1, <1>4 DEF Takes
  <2> QED
    BY <1>5, <1>9, <2>1, <2>2
<1>10. ASSUME NEW h \in DOMAIN new, k \in DOMAIN new[h].aggs
       PROVE  \E p \in Passed(k, new[h].dims, m) :
                /\ IsLast(p, Passed(k, new[h].dims, m))
                /\ new[h].aggs[k].sample = SampleAt(k, p)
  <2>1. CASE new[h].dims = d0
    <3>1. new[h].aggs[k].sample = SampleAt(k, p0)
      BY <1>4, <1>10, <2>1 DEF Takes
    <3> QED
      BY <3>1, <2>1, <1>8
  <2>2. CASE new[h].dims # d0
    <3>1. /\ h \in DOMAIN list /\ list[h].dims = new[h].dims
          /\ k \in DOMAIN list[h].aggs /\ list[h].aggs[k] = new[h].aggs[k]
      BY <1>4, <1>10, <2>2 DEF Takes
    <3>2. Passed(k, new[h].dims, m) = Passed(k, new[h].dims, n)
      BY <1>7, <2>2
    <3> QED
      BY <3>1, <3>2 DEF Holds
  <2> QED
    BY <2>1, <2>2
<1>11. Holds(new, k, m)
  BY <1>9, <1>10 DEF Holds
<1> QED
  BY <1>11 DEF m

(* The requests do not change while the answers are merged. *)
LEMMA HoldsSteady ==
  ASSUME setting' = setting, answer' = answer
  PROVE  \A list, k, n : Holds(list, k, n)' <=> Holds(list, k, n)
<1>1. \A r, t : Dimensions(r, t)' = Dimensions(r, t)
  BY DEF Dimensions, FormatTimestamp
<1>2. \A k, d : Places(k, d)' = Places(k, d)
  BY <1>1 DEF Places
<1>3. \A k, d, n : Passed(k, d, n)' = Passed(k, d, n)
  BY <1>2 DEF Passed
<1>4. \A k, p : SampleAt(k, p)' = SampleAt(k, p)
  BY DEF SampleAt
<1> QED
  BY <1>1, <1>3, <1>4 DEF Holds
-----------------------------------------------------------------------------
LEMMA InitIInv == Init => IInv
<1> SUFFICES ASSUME Init PROVE IInv
  OBVIOUS
<1>1. TypeOK
  BY DEF Init, TypeOK
<1>2. OneGroupEach /\ \A k \in Aggregates : Unique(source[k])
  BY DEF Init, OneGroupEach, Unique
<1>3. LockHeld /\ Unstarted /\ SourceCurrent /\ SourceHolds /\ DoneMeans
  BY GroupAssumption
     DEF Init, LockHeld, Unstarted, SourceCurrent, SourceHolds, DoneMeans, InSeries
<1>4. GroupsHold
  <2> SUFFICES ASSUME NEW k \in Aggregates PROVE Holds(groups, k, SeriesStart(k))
    BY DEF GroupsHold
  <2>1. SeriesStart(k) = [series |-> 1, value |-> 1]
    BY DEF Init, SeriesStart
  <2>2. ASSUME NEW i \in DOMAIN answer[k], NEW j \in DOMAIN answer[k][i].times
        PROVE  ~ Before(<<i, j>>, SeriesStart(k))
    BY <1>1, <2>1, PositionsType DEF Before
  <2>3. DOMAIN groups = {}
    BY DEF Init
  <2> QED
    BY <2>2, <2>3 DEF Holds
<1> QED
  BY <1>1, <1>2, <1>3, <1>4 DEF IInv

LEMMA LockIInv ==
  ASSUME IInv, NEW k \in Aggregates, Lock(k)
  PROVE  IInv'
<1>1. TypeOK'
  BY DEF IInv, TypeOK, Lock
<1>2. OneGroupEach' /\ \A a \in Aggregates : Unique(source[a])'
  BY DEF IInv, OneGroupEach, Unique, Lock
<1>3. LockHeld'
  BY GroupAssumption DEF IInv, TypeOK, LockHeld, Lock
<1>4. Unstarted'
  BY DEF IInv, TypeOK, Unstarted, Lock
<1>5. SourceCurrent'
  <2> SUFFICES ASSUME NEW a \in Aggregates, InSeries(a)', (next[a].value > 1)'
               PROVE  Extends(source[a], groups, a)'
    BY DEF SourceCurrent
  <2>1. a # k
    BY DEF IInv, Unstarted, Lock
  <2>2. InSeries(a)
    BY <2>1 DEF IInv, TypeOK, InSeries, Lock
  <2>3. Extends(source[a], groups, a)
    BY <2>2 DEF IInv, SourceCurrent, Lock
  <2> QED
    BY <2>3 DEF Extends, Lock
<1>6. GroupsHold'
  <2> SUFFICES ASSUME NEW a \in Aggregates PROVE Holds(groups, a, SeriesStart(a))'
    BY DEF GroupsHold
  <2>1. Holds(groups, a, SeriesStart(a))
    BY DEF IInv, GroupsHold
  <2>2. groups' = groups /\ SeriesStart(a)' = SeriesStart(a)
    BY DEF Lock, SeriesStart
  <2>3. setting' = setting /\ answer' = answer
    BY DEF Lock
  <2> QED
    BY <2>1, <2>2, <2>3, HoldsSteady
<1>7. SourceHolds'
  <2> SUFFICES ASSUME NEW a \in Aggregates, InSeries(a)', (next[a].value > 1)'
               PROVE  /\ Holds(source[a], a, next[a])'
                      /\ \A b \in Aggregates \ {a} : Holds(source[a], b, SeriesStart(b))'
    BY DEF SourceHolds
  <2>1. InSeries(a) /\ next[a].value > 1
    <3>1. a # k
      BY DEF IInv, Unstarted, Lock
    <3> QED
      BY <3>1 DEF IInv, TypeOK, InSeries, Lock
  <2>2. /\ Holds(source[a], a, next[a])
        /\ \A b \in Aggregates \ {a} : Holds(source[a], b, SeriesStart(b))
    BY <2>1 DEF IInv, SourceHolds
  <2>3. source' = source /\ next' = next /\ \A b : SeriesStart(b)' = SeriesStart(b)
    BY DEF Lock, SeriesStart
  <2>4. setting' = setting /\ answer' = answer
    BY DEF Lock
  <2> QED
    BY <2>2, <2>3, <2>4, HoldsSteady
<1>8. DoneMeans'
  BY DEF IInv, TypeOK, DoneMeans, Lock
<1> QED
  BY <1>1, <1>2, <1>3, <1>4, <1>5, <1>6, <1>7, <1>8 DEF IInv

(* What one turn of the loop makes of the slice it works on. *)
LEMMA MergeSampleSource ==
  ASSUME IInv, NEW k \in Aggregates, MergeSample(k)
  PROVE  /\ source' \in [Aggregates -> Seq(Groups)]
         /\ Unique(source'[k])
         /\ Extends(source'[k], groups, k)
         /\ \A a \in Aggregates \ {k} : source'[a] = source[a]
<1> DEFINE list == IF next[k].value = 1 THEN groups ELSE source[k]
           t == Series(k).times[next[k].value]
           new == MergeValue(list, k, Series(k), t)
<1>1. Series(k) \in [labels : Labels, key : Keys, times : Seq(Nat)] /\ t \in Times \cap Nat
  BY SeriesType DEF IInv, MergeSample, InSeries
<1>2. list \in Seq(Groups) /\ Unique(list)
  BY DEF IInv, TypeOK, OneGroupEach
<1>3. Extends(list, groups, k)
  <2>1. CASE next[k].value = 1
    BY <2>1 DEF Extends
  <2>2. CASE next[k].value # 1
    <3>1. next[k].value > 1
      BY <2>2 DEF IInv, TypeOK
    <3> QED
      BY <3>1, <2>2 DEF IInv, SourceCurrent, MergeSample
  <2> QED
    BY <2>1, <2>2
<1>4. source' = [source EXCEPT ![k] = new]
  BY DEF MergeSample
<1>5. setting \in Settings
  BY DEF IInv, TypeOK
<1> HIDE DEF list, t
<1>6. new \in Seq(Groups) /\ Unique(new) /\ Extends(new, list, k)
  BY <1>1, <1>2, <1>5, MergeValueKeeps
<1> HIDE DEF new
<1>7. Extends(new, groups, k)
  BY <1>3, <1>6, ExtendsTransitive
<1> QED
  BY <1>4, <1>6, <1>7 DEF IInv, TypeOK

(* The slice then holds one sample more of the goroutine's own matrix.     *)
LEMMA MergeSampleHolds ==
  ASSUME IInv, NEW k \in Aggregates, MergeSample(k)
  PROVE  /\ Holds(source[k], k, next[k])'
         /\ \A a \in Aggregates \ {k} : Holds(source[k], a, SeriesStart(a))'
<1> DEFINE list == IF next[k].value = 1 THEN groups ELSE source[k]
           t == Series(k).times[next[k].value]
           d == Dimensions(Series(k), t)
           new == MergeValue(list, k, Series(k), t)
<1>1. Series(k) \in [labels : Labels, key : Keys, times : Seq(Nat)] /\ t \in Times \cap Nat
  BY SeriesType DEF IInv, MergeSample, InSeries
<1>2. list \in Seq(Groups) /\ Unique(list) /\ setting \in Settings
  BY DEF IInv, TypeOK, OneGroupEach
<1>3. /\ Holds(list, k, next[k])
      /\ \A a \in Aggregates \ {k} : Holds(list, a, SeriesStart(a))
  <2>1. CASE next[k].value = 1
    <3>1. SeriesStart(k) = next[k]
      BY <2>1 DEF IInv, TypeOK, SeriesStart
    <3> QED
      BY <2>1, <3>1 DEF IInv, GroupsHold
  <2>2. CASE next[k].value # 1
    <3>1. next[k].value > 1
      BY <2>2 DEF IInv, TypeOK
    <3> QED
      BY <3>1, <2>2 DEF IInv, SourceHolds, MergeSample
  <2> QED
    BY <2>1, <2>2
<1>4. source'[k] = new
  BY DEF IInv, TypeOK, MergeSample
<1> HIDE DEF list
<1>5. Takes(new, list, k, d, SampleOf(k, Series(k), t))
  BY <1>1, <1>2, MergeValueTakes
<1> HIDE DEF new
<1>6. Holds(new, k, [next[k] EXCEPT !.value = @ + 1])
  BY <1>3, <1>5, OneMoreHeld DEF IInv, MergeSample
<1>7. ASSUME NEW a \in Aggregates \ {k} PROVE Holds(new, a, SeriesStart(a))
  <2>1. a # k /\ Holds(list, a, SeriesStart(a))
    BY <1>3
  <2> HIDE DEF d
  <2> QED
    BY <2>1, <1>5, OthersHold
<1>8. setting' = setting /\ answer' = answer
  BY DEF MergeSample
<1>9. next'[k] = [next[k] EXCEPT !.value = @ + 1]
  BY DEF IInv, TypeOK, MergeSample
<1>10. \A a \in Aggregates \ {k} : SeriesStart(a)' = SeriesStart(a)
  BY DEF IInv, TypeOK, MergeSample, SeriesStart
<1>11. Holds(source[k], k, next[k])'
  BY <1>4, <1>6, <1>8, <1>9, HoldsSteady
<1>12. ASSUME NEW a \in Aggregates \ {k} PROVE Holds(source[k], a, SeriesStart(a))'
  BY <1>4, <1>7, <1>8, <1>10, HoldsSteady
<1> QED
  BY <1>11, <1>12

LEMMA MergeSampleIInv ==
  ASSUME IInv, NEW k \in Aggregates, MergeSample(k)
  PROVE  IInv'
<1>1. TypeOK'
  <2>1. source' \in [Aggregates -> Seq(Groups)]
    BY MergeSampleSource
  <2>2. next' \in [Aggregates -> [series : Nat \ {0}, value : Nat \ {0}]]
    <3> DEFINE R == [series : Nat \ {0}, value : Nat \ {0}]
               n == [next[k] EXCEPT !.value = next[k].value + 1]
    <3>1. next \in [Aggregates -> R]
      BY DEF IInv, TypeOK
    <3>2. n \in R
      BY <3>1
    <3>3. next' = [next EXCEPT ![k] = n]
      BY DEF MergeSample
    <3> HIDE DEF R, n
    <3>4. next' \in [Aggregates -> R]
      BY <3>1, <3>2, <3>3
    <3> QED
      BY <3>4 DEF R
  <2> QED
    BY <2>1, <2>2 DEF IInv, TypeOK, MergeSample
<1>2. OneGroupEach' /\ \A a \in Aggregates : Unique(source[a])'
  <2>1. \A a \in Aggregates : Unique(source'[a])
    BY MergeSampleSource DEF IInv
  <2> QED
    BY <2>1 DEF IInv, OneGroupEach, Unique, MergeSample
<1>3. LockHeld'
  BY DEF IInv, LockHeld, MergeSample
<1>4. Unstarted'
  BY DEF IInv, TypeOK, Unstarted, MergeSample, InSeries
<1>5. SourceCurrent'
  <2> SUFFICES ASSUME NEW a \in Aggregates, InSeries(a)', (next[a].value > 1)'
               PROVE  Extends(source[a], groups, a)'
    BY DEF SourceCurrent
  <2>1. groups' = groups
    BY DEF MergeSample
  <2>2. CASE a = k
    BY <2>1, <2>2, MergeSampleSource DEF Extends
  <2>3. CASE a # k
    <3>1. InSeries(a) /\ next[a].value > 1
      BY <2>3 DEF IInv, TypeOK, InSeries, MergeSample
    <3>2. Extends(source[a], groups, a)
      BY <3>1 DEF IInv, SourceCurrent
    <3>3. source'[a] = source[a]
      BY <2>3, MergeSampleSource
    <3> QED
      BY <2>1, <3>2, <3>3 DEF Extends
  <2> QED
    BY <2>2, <2>3
<1>6. GroupsHold' /\ DoneMeans'
  <2>1. \A a \in Aggregates : next'[a].series = next[a].series
    BY DEF IInv, TypeOK, MergeSample
  <2>2. \A a \in Aggregates : SeriesStart(a)' = SeriesStart(a)
    BY <2>1 DEF SeriesStart
  <2>3. groups' = groups /\ setting' = setting /\ answer' = answer /\ worker' = worker
    BY DEF MergeSample
  <2>4. ASSUME NEW a \in Aggregates PROVE Holds(groups, a, SeriesStart(a))'
    BY <2>2, <2>3, HoldsSteady DEF IInv, GroupsHold
  <2> QED
    BY <2>1, <2>3, <2>4 DEF IInv, GroupsHold, DoneMeans
<1>7. SourceHolds'
  <2> SUFFICES ASSUME NEW a \in Aggregates, InSeries(a)'
               PROVE  /\ Holds(source[a], a, next[a])'
                      /\ \A b \in Aggregates \ {a} : Holds(source[a], b, SeriesStart(b))'
    BY DEF SourceHolds
  <2>1. a = k
    BY DEF IInv, LockHeld, InSeries, MergeSample
  <2> QED
    BY <2>1, MergeSampleHolds
<1> QED
  BY <1>1, <1>2, <1>3, <1>4, <1>5, <1>6, <1>7 DEF IInv

LEMMA EndSeriesBegan ==
  ASSUME IInv, NEW k \in Aggregates, EndSeries(k)
  PROVE  next[k].value > 1
<1>1. Series(k).times \in Seq(Nat) /\ Series(k).times # << >>
  BY SeriesType DEF IInv, EndSeries, InSeries
<1>2. 1 \in DOMAIN Series(k).times
  BY <1>1
<1> QED
  BY <1>2 DEF IInv, TypeOK, EndSeries

(* A series that ends has merged a sample, so its slice extends the field. *)
LEMMA EndSeriesExtends ==
  ASSUME IInv, NEW k \in Aggregates, EndSeries(k)
  PROVE  /\ groups' = source[k]
         /\ Extends(groups', groups, k)
         /\ \A a \in Aggregates \ {k} : worker[a] # "merging"
<1>1. next[k].value > 1
  BY EndSeriesBegan
<1>2. Extends(source[k], groups, k)
  BY <1>1 DEF IInv, SourceCurrent, EndSeries
<1>3. groups' = source[k]
  BY DEF EndSeries
<1>4. \A a \in Aggregates \ {k} : worker[a] # "merging"
  BY DEF IInv, LockHeld, EndSeries, InSeries
<1> QED
  BY <1>2, <1>3, <1>4

(* It holds the whole series by then, as if the next one began. *)
LEMMA EndSeriesHolds ==
  ASSUME IInv, NEW k \in Aggregates, EndSeries(k), NEW a \in Aggregates
  PROVE  Holds(source[k], a, SeriesStart(a)')
<1>1. next[k].value > 1
  BY EndSeriesBegan
<1>2. /\ Holds(source[k], k, next[k])
      /\ \A b \in Aggregates \ {k} : Holds(source[k], b, SeriesStart(b))
  BY <1>1 DEF IInv, SourceHolds, EndSeries
<1>3. CASE a # k
  <2>1. SeriesStart(a)' = SeriesStart(a)
    BY <1>3 DEF IInv, TypeOK, EndSeries, SeriesStart
  <2> QED
    BY <2>1, <1>2, <1>3
<1>4. CASE a = k
  <2> DEFINE n == next[k]
             m == SeriesStart(k)'
  <2>1. n \in [series : Nat, value : Nat]
    BY DEF IInv, TypeOK
  <2>2. m.series = n.series + 1 /\ m.value = 1
    BY DEF IInv, TypeOK, EndSeries, SeriesStart
  <2>3. n.series \in DOMAIN answer[k] /\ n.value \notin DOMAIN answer[k][n.series].times
    BY DEF EndSeries, InSeries, Series
  <2>4. n.value >= 1
    BY <1>1, <2>1
  <2> HIDE DEF n, m
  <2>5. ASSUME NEW i \in DOMAIN answer[k], NEW j \in DOMAIN answer[k][i].times
        PROVE  Before(<<i, j>>, n) <=> Before(<<i, j>>, m)
    <3>1. /\ i \in Nat \ {0} /\ j \in Nat \ {0} /\ j <= Len(answer[k][i].times)
          /\ DOMAIN answer[k][i].times = 1 .. Len(answer[k][i].times)
          /\ Len(answer[k][i].times) \in Nat
      BY PositionsType DEF IInv
    <3>2. i = n.series => j < n.value
      BY <2>1, <2>3, <2>4, <3>1
    <3> QED
      BY <2>1, <2>2, <3>1, <3>2 DEF Before
  <2>6. Holds(source[k], k, n)
    BY <1>2 DEF n
  <2>7. Holds(source[k], k, m)
    BY <2>5, <2>6, HoldsSame
  <2> QED
    BY <2>7, <1>4 DEF m
<1> QED
  BY <1>3, <1>4

LEMMA EndSeriesIInv ==
  ASSUME IInv, NEW k \in Aggregates, EndSeries(k)
  PROVE  IInv'
<1>1. TypeOK'
  <2>1. groups' \in Seq(Groups)
    BY DEF IInv, TypeOK, EndSeries
  <2>2. next' \in [Aggregates -> [series : Nat \ {0}, value : Nat \ {0}]]
    BY DEF IInv, TypeOK, EndSeries
  <2> QED
    BY <2>1, <2>2 DEF IInv, TypeOK, EndSeries
<1>2. OneGroupEach' /\ \A a \in Aggregates : Unique(source[a])'
  BY DEF IInv, OneGroupEach, Unique, EndSeries
<1>3. LockHeld'
  BY DEF IInv, LockHeld, EndSeries
<1>4. Unstarted'
  BY DEF IInv, TypeOK, Unstarted, EndSeries
<1>5. SourceCurrent'
  <2> SUFFICES ASSUME NEW a \in Aggregates, InSeries(a)', (next[a].value > 1)'
               PROVE  FALSE
    BY DEF SourceCurrent
  <2>1. CASE a = k
    BY <2>1 DEF IInv, TypeOK, EndSeries
  <2>2. CASE a # k
    BY <2>2, EndSeriesExtends DEF InSeries, EndSeries
  <2> QED
    BY <2>1, <2>2
<1>6. GroupsHold'
  <2> SUFFICES ASSUME NEW a \in Aggregates PROVE Holds(groups, a, SeriesStart(a))'
    BY DEF GroupsHold
  <2>1. Holds(source[k], a, SeriesStart(a)')
    BY EndSeriesHolds
  <2>2. groups' = source[k] /\ setting' = setting /\ answer' = answer
    BY DEF EndSeries
  <2> QED
    BY <2>1, <2>2, HoldsSteady
<1>7. SourceHolds'
  <2> SUFFICES ASSUME NEW a \in Aggregates, InSeries(a)', (next[a].value > 1)'
               PROVE  FALSE
    BY DEF SourceHolds
  <2>1. CASE a = k
    BY <2>1 DEF IInv, TypeOK, EndSeries
  <2>2. CASE a # k
    BY <2>2, EndSeriesExtends DEF InSeries, EndSeries
  <2> QED
    BY <2>1, <2>2
<1>8. DoneMeans'
  <2> SUFFICES ASSUME NEW a \in Aggregates, worker'[a] = "done"
               PROVE  next'[a].series \notin DOMAIN answer'[a]
    BY DEF DoneMeans
  <2>1. a # k
    BY DEF EndSeries, InSeries
  <2> QED
    BY <2>1 DEF IInv, TypeOK, DoneMeans, EndSeries
<1> QED
  BY <1>1, <1>2, <1>3, <1>4, <1>5, <1>6, <1>7, <1>8 DEF IInv

LEMMA UnlockIInv ==
  ASSUME IInv, NEW k \in Aggregates, Unlock(k)
  PROVE  IInv'
<1>1. TypeOK'
  BY DEF IInv, TypeOK, Unlock
<1>2. OneGroupEach' /\ \A a \in Aggregates : Unique(source[a])'
  BY DEF IInv, OneGroupEach, Unique, Unlock
<1>3. LockHeld'
  BY GroupAssumption DEF IInv, TypeOK, LockHeld, Unlock
<1>4. Unstarted'
  BY DEF IInv, TypeOK, Unstarted, Unlock
<1>5. SourceCurrent'
  <2> SUFFICES ASSUME NEW a \in Aggregates, InSeries(a)', (next[a].value > 1)'
               PROVE  Extends(source[a], groups, a)'
    BY DEF SourceCurrent
  <2>1. InSeries(a) /\ next[a].value > 1
    BY DEF IInv, TypeOK, InSeries, Unlock
  <2> QED
    BY <2>1 DEF IInv, SourceCurrent, Extends, Unlock
<1>6. GroupsHold'
  <2> SUFFICES ASSUME NEW a \in Aggregates PROVE Holds(groups, a, SeriesStart(a))'
    BY DEF GroupsHold
  <2>1. Holds(groups, a, SeriesStart(a))
    BY DEF IInv, GroupsHold
  <2>2. groups' = groups /\ SeriesStart(a)' = SeriesStart(a)
    BY DEF Unlock, SeriesStart
  <2>3. setting' = setting /\ answer' = answer
    BY DEF Unlock
  <2> QED
    BY <2>1, <2>2, <2>3, HoldsSteady
<1>7. SourceHolds'
  <2> SUFFICES ASSUME NEW a \in Aggregates, InSeries(a)', (next[a].value > 1)'
               PROVE  /\ Holds(source[a], a, next[a])'
                      /\ \A b \in Aggregates \ {a} : Holds(source[a], b, SeriesStart(b))'
    BY DEF SourceHolds
  <2>1. InSeries(a) /\ next[a].value > 1
    BY DEF IInv, TypeOK, InSeries, Unlock
  <2>2. /\ Holds(source[a], a, next[a])
        /\ \A b \in Aggregates \ {a} : Holds(source[a], b, SeriesStart(b))
    BY <2>1 DEF IInv, SourceHolds
  <2>3. source' = source /\ next' = next /\ \A b : SeriesStart(b)' = SeriesStart(b)
    BY DEF Unlock, SeriesStart
  <2>4. setting' = setting /\ answer' = answer
    BY DEF Unlock
  <2> QED
    BY <2>2, <2>3, <2>4, HoldsSteady
<1>8. DoneMeans'
  BY DEF IInv, TypeOK, DoneMeans, Unlock
<1> QED
  BY <1>1, <1>2, <1>3, <1>4, <1>5, <1>6, <1>7, <1>8 DEF IInv

LEMMA StutterIInv ==
  ASSUME IInv, UNCHANGED vars
  PROVE  IInv'
<1>1. /\ TypeOK' /\ OneGroupEach' /\ (\A k \in Aggregates : Unique(source[k]))'
      /\ LockHeld' /\ Unstarted' /\ SourceCurrent' /\ DoneMeans'
  BY DEF IInv, TypeOK, OneGroupEach, Unique, LockHeld, Unstarted, SourceCurrent,
         InSeries, Extends, DoneMeans, vars
<1>2. \A list, k, n : Holds(list, k, n)' <=> Holds(list, k, n)
  BY HoldsSteady DEF vars
<1>3. /\ groups' = groups /\ source' = source /\ next' = next
      /\ \A k : SeriesStart(k)' = SeriesStart(k) /\ (InSeries(k)' <=> InSeries(k))
  BY DEF vars, SeriesStart, InSeries
<1>4. ASSUME NEW k \in Aggregates PROVE Holds(groups, k, SeriesStart(k))'
  BY <1>2, <1>3 DEF IInv, GroupsHold
<1>5. ASSUME NEW k \in Aggregates, InSeries(k)', (next[k].value > 1)'
      PROVE  /\ Holds(source[k], k, next[k])'
             /\ \A a \in Aggregates \ {k} : Holds(source[k], a, SeriesStart(a))'
  BY <1>2, <1>3, <1>5 DEF IInv, SourceHolds
<1> QED
  BY <1>1, <1>4, <1>5 DEF IInv, GroupsHold, SourceHolds
-----------------------------------------------------------------------------
(* The invariant that makes the merge correct holds in every reachable     *)
(* state, for any number of aggregates and any answers: while a goroutine  *)
(* holds GroupResults.lock the slice it works on extends the shared one.   *)
THEOREM InductiveInvariant == Spec => []IInv
<1>1. IInv /\ [Next]_vars => IInv'
  <2> SUFFICES ASSUME IInv, [Next]_vars PROVE IInv'
    OBVIOUS
  <2>1. ASSUME NEW k \in Aggregates,
               Lock(k) \/ MergeSample(k) \/ EndSeries(k) \/ Unlock(k)
        PROVE  IInv'
    BY <2>1, LockIInv, MergeSampleIInv, EndSeriesIInv, UnlockIInv
  <2>2. CASE Wait \/ UNCHANGED vars
    BY <2>2, StutterIInv DEF Wait
  <2> QED
    BY <2>1, <2>2 DEF Next
<1> QED
  BY InitIInv, <1>1, PTL DEF Spec

(* No combination of dimensions gets a second group, in whichever order    *)
(* the answers arrive (the search of mergeSampleToAggregateGroup).         *)
THEOREM OneGroupPerDimensions == Spec => []OneGroupEach
<1>1. IInv => OneGroupEach
  BY DEF IInv
<1> QED
  BY <1>1, InductiveInvariant, PTL

(* A goroutine that has returned keeps what it merged: the groups only     *)
(* grow, and no other goroutine changes its aggregate's values             *)
(* (MergeMatrixToAggregateGroups under GroupResults.lock).                 *)
THEOREM MergedValuesStay == Spec => MergedStays
<1> DEFINE Stays ==
      \A i \in DOMAIN groups :
        /\ i \in DOMAIN groups'
        /\ groups'[i].dims = groups[i].dims
        /\ \A k \in DOMAIN groups[i].aggs :
             worker[k] = "done" => /\ k \in DOMAIN groups'[i].aggs
                                   /\ groups'[i].aggs[k] = groups[i].aggs[k]
<1>1. IInv /\ [Next]_vars => [Stays]_vars
  <2> SUFFICES ASSUME IInv, Next PROVE Stays
    OBVIOUS
  <2>1. ASSUME UNCHANGED groups PROVE Stays
    BY <2>1
  <2>2. ASSUME NEW k \in Aggregates, EndSeries(k) PROVE Stays
    <3>1. Extends(groups', groups, k)
      BY <2>2, EndSeriesExtends
    <3>2. worker[k] # "done"
      BY <2>2 DEF EndSeries, InSeries
    <3> QED
      BY <3>1, <3>2 DEF Extends
  <2>3. ASSUME NEW k \in Aggregates, Lock(k) \/ MergeSample(k) \/ Unlock(k)
        PROVE  UNCHANGED groups
    BY <2>3 DEF Lock, MergeSample, Unlock
  <2>4. ASSUME Wait PROVE UNCHANGED groups
    BY <2>4 DEF Wait, vars
  <2> HIDE DEF Stays
  <2> QED
    BY <2>1, <2>2, <2>3, <2>4 DEF Next
<1> QED
  BY InductiveInvariant, <1>1, PTL DEF Spec, MergedStays
-----------------------------------------------------------------------------
(* Only one place of a set of places is the last of it. *)
LEMMA LastIsOne ==
  ASSUME TypeOK, NEW k \in Aggregates, NEW d,
         NEW p \in Places(k, d), IsLast(p, Places(k, d))
  PROVE  LastSample(k, d) = SampleAt(k, p)
<1>1. ASSUME NEW q \in Places(k, d)
      PROVE  q = <<q[1], q[2]>> /\ q[1] \in Nat /\ q[2] \in Nat
  <2>1. /\ q = <<q[1], q[2]>> /\ q[1] \in DOMAIN answer[k]
        /\ q[2] \in DOMAIN answer[k][q[1]].times
    BY PlaceMeans
  <2> QED
    BY <2>1, PositionsType
<1> DEFINE c == CHOOSE q \in Places(k, d) : IsLast(q, Places(k, d))
<1>2. c \in Places(k, d) /\ IsLast(c, Places(k, d))
  OBVIOUS
<1>3. c = p
  <2> HIDE DEF c
  <2>1. c[1] = p[1] /\ c[2] = p[2]
    BY <1>1, <1>2 DEF IsLast
  <2> QED
    BY <2>1, <1>1, <1>2
<1> QED
  BY <1>3 DEF LastSample

(* When all have returned, every place of every matrix has been passed. *)
LEMMA AllHeld ==
  ASSUME IInv, Merged, NEW k \in Aggregates
  PROVE  /\ \A d : Passed(k, d, SeriesStart(k)) = Places(k, d)
         /\ \A i \in DOMAIN answer[k] : \A j \in DOMAIN answer[k][i].times :
              \E h \in DOMAIN groups :
                /\ groups[h].dims = Dimensions(answer[k][i], answer[k][i].times[j])
                /\ k \in DOMAIN groups[h].aggs
         /\ \A h \in DOMAIN groups : k \in DOMAIN groups[h].aggs =>
              \E p \in Places(k, groups[h].dims) :
                /\ IsLast(p, Places(k, groups[h].dims))
                /\ groups[h].aggs[k].sample = SampleAt(k, p)
<1> DEFINE n == SeriesStart(k)
<1>1. n.series \in Nat \ {0} /\ n.series \notin DOMAIN answer[k]
  BY DEF IInv, TypeOK, DoneMeans, Merged, SeriesStart
<1>2. DOMAIN answer[k] = 1 .. Len(answer[k]) /\ Len(answer[k]) \in Nat
  <2>1. answer[k] \in Seq([labels : Labels, key : Keys, times : Seq(Nat)])
    BY GroupAssumption DEF IInv, TypeOK
  <2> QED
    BY <2>1
<1> HIDE DEF n
<1>3. ASSUME NEW i \in DOMAIN answer[k], NEW j PROVE Before(<<i, j>>, n)
  BY <1>1, <1>2 DEF Before
<1>4. ASSUME NEW d PROVE Passed(k, d, n) = Places(k, d)
  <2>1. \A p \in Places(k, d) : Before(p, n)
    BY <1>3, PlaceMeans
  <2> QED
    BY <2>1 DEF Passed
<1>5. Holds(groups, k, n)
  BY DEF IInv, GroupsHold, n
<1>6. \A i \in DOMAIN answer[k] : \A j \in DOMAIN answer[k][i].times :
        \E h \in DOMAIN groups :
          /\ groups[h].dims = Dimensions(answer[k][i], answer[k][i].times[j])
          /\ k \in DOMAIN groups[h].aggs
  BY <1>3, <1>5 DEF Holds
<1>7. \A h \in DOMAIN groups : k \in DOMAIN groups[h].aggs =>
        \E p \in Places(k, groups[h].dims) :
          /\ IsLast(p, Places(k, groups[h].dims))
          /\ groups[h].aggs[k].sample = SampleAt(k, p)
  BY <1>4, <1>5 DEF Holds
<1> QED
  BY <1>4, <1>6, <1>7 DEF n

LEMMA ExactlyMerged == IInv => MergedExactly
<1> SUFFICES ASSUME IInv, Merged
             PROVE  /\ {g.dims : g \in Range(groups)} =
                         {d \in AllDimensions : \E k \in Aggregates : Places(k, d) # {}}
                    /\ \A g \in Range(groups) :
                         /\ DOMAIN g.aggs = {k \in Aggregates : Places(k, g.dims) # {}}
                         /\ \A k \in DOMAIN g.aggs : g.aggs[k].sample = LastSample(k, g.dims)
  BY DEF MergedExactly
<1>1. ASSUME NEW h \in DOMAIN groups
      PROVE  DOMAIN groups[h].aggs \subseteq Aggregates /\ DOMAIN groups[h].aggs # {}
  <2>1. groups[h] \in Groups
    BY ElementType DEF IInv, TypeOK
  <2> QED
    BY <2>1 DEF Groups
<1>2. ASSUME NEW k \in Aggregates, NEW d, NEW p \in Places(k, d)
      PROVE  \E h \in DOMAIN groups : groups[h].dims = d /\ k \in DOMAIN groups[h].aggs
  <2>1. /\ p[1] \in DOMAIN answer[k] /\ p[2] \in DOMAIN answer[k][p[1]].times
        /\ Dimensions(answer[k][p[1]], answer[k][p[1]].times[p[2]]) = d
    BY PlaceMeans
  <2> QED
    BY <2>1, AllHeld
<1>3. ASSUME NEW k \in Aggregates, NEW d, NEW p \in Places(k, d)
      PROVE  d \in AllDimensions
  <2> DEFINE r == answer[k][p[1]]
             t == r.times[p[2]]
  <2>1. /\ p[1] \in DOMAIN answer[k] /\ p[2] \in DOMAIN r.times
        /\ Dimensions(r, t) = d
    BY PlaceMeans
  <2>2. r \in Range(answer[k]) /\ t \in Range(r.times)
    BY <2>1 DEF Range
  <2>3. answer[k] \in Matrices
    BY DEF IInv, TypeOK
  <2> HIDE DEF r, t
  <2>4. t \in Times
    BY <2>2, <2>3 DEF Times
  <2>5. r \in UNION {Range(answer[a]) : a \in Aggregates}
    BY <2>2
  <2> QED
    BY <2>1, <2>4, <2>5 DEF AllDimensions
<1>4. ASSUME NEW h \in DOMAIN groups
      PROVE  /\ DOMAIN groups[h].aggs = {k \in Aggregates : Places(k, groups[h].dims) # {}}
             /\ \A k \in DOMAIN groups[h].aggs :
                  groups[h].aggs[k].sample = LastSample(k, groups[h].dims)
  <2>1. ASSUME NEW k \in DOMAIN groups[h].aggs
        PROVE  /\ Places(k, groups[h].dims) # {}
               /\ groups[h].aggs[k].sample = LastSample(k, groups[h].dims)
    <3>1. k \in Aggregates
      BY <1>1
    <3>2. PICK p \in Places(k, groups[h].dims) :
            /\ IsLast(p, Places(k, groups[h].dims))
            /\ groups[h].aggs[k].sample = SampleAt(k, p)
      BY <3>1, AllHeld
    <3> QED
      BY <3>1, <3>2, LastIsOne DEF IInv
  <2>2. ASSUME NEW k \in Aggregates, Places(k, groups[h].dims) # {}
        PROVE  k \in DOMAIN groups[h].aggs
    <3>1. PICK g \in DOMAIN groups :
            groups[g].dims = groups[h].dims /\ k \in DOMAIN groups[g].aggs
      BY <2>2, <1>2
    <3>2. g = h
      BY <3>1 DEF IInv, OneGroupEach, Unique
    <3> QED
      BY <3>1, <3>2
  <2> QED
    BY <1>1, <2>1, <2>2
<1>5. {g.dims : g \in Range(groups)} =
        {d \in AllDimensions : \E k \in Aggregates : Places(k, d) # {}}
  <2>1. ASSUME NEW h \in DOMAIN groups
        PROVE  /\ groups[h].dims \in AllDimensions
               /\ \E k \in Aggregates : Places(k, groups[h].dims) # {}
    <3>1. PICK k \in DOMAIN groups[h].aggs : TRUE
      BY <1>1
    <3>2. k \in Aggregates /\ Places(k, groups[h].dims) # {}
      BY <1>4
    <3> QED
      BY <3>2, <1>3
  <2>2. ASSUME NEW d, NEW k \in Aggregates, Places(k, d) # {}
        PROVE  \E h \in DOMAIN groups : groups[h].dims = d
    BY <1>2, <2>2
  <2>3. Range(groups) = {groups[h] : h \in DOMAIN groups}
    BY DEF Range
  <2> QED
    BY <2>1, <2>2, <2>3
<1> QED
  BY <1>4, <1>5 DEF Range

(* Dropping a resolution from two times that far apart leaves them apart. *)
LEMMA CoarseApart ==
  ASSUME NEW a \in Nat, NEW b \in Nat, NEW r \in Nat \ {0}, a + r <= b
  PROVE  a \div r # b \div r
<1>1. /\ a = r * (a \div r) + (a % r) /\ 0 <= a % r
      /\ b = r * (b \div r) + (b % r) /\ b % r < r
  OBVIOUS
<1>2. a \div r \in Int /\ b \div r \in Int /\ a % r \in Int /\ b % r \in Int
  OBVIOUS
<1> QED
  BY <1>1, <1>2

(* The groups that queryGroupAggregates returns are what the answers say   *)
(* and nothing else, in whatever order the goroutines got the lock: each   *)
(* combination of dimensions some aggregate has a sample for, with each    *)
(* aggregate's last sample of it (MergeMatrixToAggregateGroups).           *)
THEOREM MergeIsExact == Spec => []MergedExactly
  BY ExactlyMerged, InductiveInvariant, PTL

(* When they are kept apart, two samples of a matrix in one group are the  *)
(* same sample.                                                            *)
LEMMA AloneInGroup ==
  ASSUME TypeOK, Separated, NEW k \in Aggregates, NEW d,
         NEW p \in Places(k, d), NEW q \in Places(k, d)
  PROVE  SampleAt(k, p) = SampleAt(k, q)
<1> DEFINE T == [labels : Labels, key : Keys, times : Seq(Nat)]
           r == answer[k][p[1]]
           s == answer[k][q[1]]
<1>1. /\ p[1] \in DOMAIN answer[k] /\ p[2] \in DOMAIN r.times
      /\ q[1] \in DOMAIN answer[k] /\ q[2] \in DOMAIN s.times
      /\ Dimensions(r, r.times[p[2]]) = d /\ Dimensions(s, s.times[q[2]]) = d
  BY PlaceMeans
<1>2. answer[k] \in Seq(T)
  BY GroupAssumption DEF TypeOK
<1>3. r \in T /\ s \in T /\ r \in Range(answer[k]) /\ s \in Range(answer[k])
  BY <1>1, <1>2, ElementType DEF Range
<1> HIDE DEF r, s
<1>4. Coarse(r) /\ (r.key = s.key => r = s)
  BY <1>3 DEF Separated
<1>5. r.key = s.key /\ FormatTimestamp(r.times[p[2]]) = FormatTimestamp(s.times[q[2]])
  BY <1>1 DEF Dimensions, Separated
<1>6. r = s
  BY <1>4, <1>5
<1> DEFINE a == r.times[p[2]]
           b == r.times[q[2]]
<1>7. a \in Nat /\ b \in Nat /\ p[2] \in DOMAIN r.times /\ q[2] \in DOMAIN r.times
  BY <1>1, <1>3, <1>6
<1>8. p[2] \in Nat /\ q[2] \in Nat
  BY <1>3, <1>7
<1>9. setting.resolution \in Nat \ {0}
  BY GroupAssumption DEF TypeOK
<1>10. a = b
  <2>1. /\ p[2] < q[2] => a + setting.resolution <= b
        /\ q[2] < p[2] => b + setting.resolution <= a
    BY <1>4, <1>7 DEF Coarse
  <2>2. a \div setting.resolution = b \div setting.resolution
    BY <1>5, <1>6 DEF FormatTimestamp
  <2>3. p[2] = q[2] => a = b
    OBVIOUS
  <2> HIDE DEF a, b
  <2>4. ~ (p[2] < q[2]) /\ ~ (q[2] < p[2])
    BY <2>1, <2>2, <1>7, <1>9, CoarseApart
  <2> QED
    BY <2>3, <2>4, <1>8
<1> QED
  BY <1>6, <1>10 DEF SampleAt, SampleOf, r, s

LEMMA AllKept == IInv => SamplesKept
<1> SUFFICES ASSUME IInv, Merged, Separated, NEW k \in Aggregates,
                    NEW i \in DOMAIN answer[k], NEW j \in DOMAIN answer[k][i].times
             PROVE  \E g \in Range(groups) :
                      /\ k \in DOMAIN g.aggs
                      /\ g.aggs[k].sample =
                           SampleOf(k, answer[k][i], answer[k][i].times[j])
  BY DEF SamplesKept, Range
<1> DEFINE d == Dimensions(answer[k][i], answer[k][i].times[j])
<1>1. <<i, j>> \in Places(k, d)
  BY PlaceMeans
<1>2. PICK h \in DOMAIN groups : groups[h].dims = d /\ k \in DOMAIN groups[h].aggs
  BY AllHeld
<1>3. PICK p \in Places(k, d) : groups[h].aggs[k].sample = SampleAt(k, p)
  BY <1>2, AllHeld
<1>4. SampleAt(k, p) = SampleAt(k, <<i, j>>)
  BY <1>1, AloneInGroup DEF IInv
<1>5. SampleAt(k, <<i, j>>) = SampleOf(k, answer[k][i], answer[k][i].times[j])
  BY DEF SampleAt
<1> QED
  BY <1>2, <1>3, <1>4, <1>5 DEF Range

(* When the step is not finer than the format of the times and the         *)
(* dimensions tell the series apart, every sample of every answer is in    *)
(* the groups: formatTimestamp then drops nothing that matters.            *)
THEOREM NoSampleLost == Spec => []SamplesKept
  BY AllKept, InductiveInvariant, PTL
=============================================================================
