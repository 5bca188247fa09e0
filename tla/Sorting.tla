------------------------------ MODULE Sorting ------------------------------
(***************************************************************************)
(* The order of a native query's answer (connector/internal/pagination.go).*)
(* A series has samples [time, value], a label, as the place of its text   *)
(* among all texts, and 0 if it lacks it, and may be bare of all labels.   *)
(* slices.SortFunc sorts up to MaxInsertion elements by insertion, which   *)
(* the model follows, as the comparison of two series of a matrix changes  *)
(* them.                                                                   *)
(***************************************************************************)
EXTENDS Integers, SequencesExt

CONSTANTS
  NaN,
  Labels   (* values of the label that predicates compare                  *)

Values == Nat \cup {NaN}

Sample == [time : Nat, value : Values]

Samples == Seq(Sample)

(* A series of an answer; in a vector it has one sample. *)
Series == [label : Labels \cup {0}, bare : BOOLEAN, samples : Samples \ {<< >>}]

Columns == {"value", "timestamp", "label"}

Orders == Seq([column : Columns, descending : BOOLEAN])

MaxInsertion == 12

Sign(elem) == IF elem.descending THEN -1 ELSE 1

CompareNumbers(a, b) == IF a = b THEN 0 ELSE IF a < b THEN -1 ELSE 1

(* compareVectorValue *)
CompareValues(a, b) ==
  IF a = b THEN 0
  ELSE IF a = NaN THEN 1
  ELSE IF b = NaN THEN -1
  ELSE CompareNumbers(a, b)

CompareSamples(a, b, elem) ==
  Sign(elem) * IF elem.column = "value" THEN CompareValues(a.value, b.value)
               ELSE CompareNumbers(a.time, b.time)

(* A series that is bare compares as equal, whatever the other one is. *)
CompareLabels(a, b, elem) ==
  Sign(elem) * IF a.bare THEN 0 ELSE CompareNumbers(a.label, b.label)

(* compare[a][b] is what comparing a with b makes of both, and their order.*)
(* The element at j, if it is not placed yet, is compared with the one     *)
(* before it.                                                              *)
Shift(acc, j, compare) ==
  LET c == compare[acc.list[j]][acc.list[j - 1]] IN
  IF acc.placed THEN acc
  ELSE IF c.order < 0
  THEN [list |-> [acc.list EXCEPT ![j] = c.b, ![j - 1] = c.a], placed |-> FALSE]
  ELSE [list |-> [acc.list EXCEPT ![j] = c.a, ![j - 1] = c.b], placed |-> TRUE]

Insert(list, i, compare) ==
  LET shifted[k \in 0 .. i - 1] ==
        IF k = 0 THEN [list |-> list, placed |-> FALSE]
        ELSE Shift(shifted[k - 1], i - k + 1, compare)
  IN shifted[i - 1].list

SortFunc(list, compare) ==
  LET sorted[i \in 0 .. Len(list)] ==
        IF i = 0 THEN list ELSE Insert(sorted[i - 1], i, compare)
  IN sorted[Len(list)]

(* sortSamplePair *)
SortSamples(samples, elem) ==
  SortFunc(samples, [a \in Sample |-> [b \in Sample |->
    [a |-> a, b |-> b, order |-> CompareSamples(a, b, elem)]]])

(* The first column by which two series of a vector differ. *)
CompareBy(a, b, elem) ==
  IF elem.column = "label" THEN CompareLabels(a, b, elem)
  ELSE CompareSamples(a.samples[1], b.samples[1], elem)

CompareSeries(a, b, orders) ==
  LET decisive == {i \in DOMAIN orders : CompareBy(a, b, orders[i]) # 0} IN
  IF decisive = {} THEN 0 ELSE CompareBy(a, b, orders[Min(decisive)])

SortVector(vector, orders) ==
  SortFunc(vector, [a \in Series |-> [b \in Series |->
    [a |-> a, b |-> b, order |-> CompareSeries(a, b, orders)]]])

(* Two series are compared by their labels only; on the way there their    *)
(* samples are sorted by the other columns, one after the other.           *)
SortedBy(samples, orders, n) ==
  LET sorted[m \in 0 .. n] ==
        IF m = 0 THEN samples
        ELSE IF orders[m].column = "label" THEN sorted[m - 1]
        ELSE SortSamples(sorted[m - 1], orders[m])
  IN sorted[n]

CompareStreams(a, b, orders) ==
  LET decisive == {i \in DOMAIN orders : /\ orders[i].column = "label"
                                         /\ CompareLabels(a, b, orders[i]) # 0}
      n == IF decisive = {} THEN Len(orders) ELSE Min(decisive)
  IN [a |-> [a EXCEPT !.samples = SortedBy(@, orders, n)],
      b |-> [b EXCEPT !.samples = SortedBy(@, orders, n)],
      order |-> IF decisive = {} THEN 0 ELSE CompareLabels(a, b, orders[n])]

SortMatrix(matrix, orders) ==
  IF orders = << >> THEN matrix
  ELSE SortFunc(matrix, [a \in Series |-> [b \in Series |-> CompareStreams(a, b, orders)]])
=============================================================================
