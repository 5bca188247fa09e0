---------------------------- MODULE GroupResults ----------------------------
(***************************************************************************)
(* The groups of one query (connector/internal/aggregate.go): the answers  *)
(* to the group's aggregate queries arrive in any order, each goroutine    *)
(* takes the lock of GroupResults and merges its matrix, series by series  *)
(* and sample by sample, into one list of groups.                          *)
(*                                                                         *)
(* A sample is identified by its aggregate, labels and time, so that the   *)
(* result tells which sample it was made of.  The key of a series is what  *)
(* its labels hold of the dimensions, "" where they hold none: the count   *)
(* of a column is taken by that column and not by the dimensions, so two   *)
(* series of one matrix may have the same key.                             *)
(***************************************************************************)
EXTENDS Naturals, Sequences, FiniteSetsExt, Functions

CONSTANTS
  Aggregates,  (* keys of explainResult.Groups.AggregateQueries             *)
  Labels,      (* the label sets a series may have                          *)
  Keys,        (* what they hold of the dimensions                          *)
  Matrices,    (* the answers Prometheus may give to one aggregate query    *)
  Settings     (* the requests and runtime formats: records of              *)
               (*   byTime      "timestamp" is a dimension                  *)
               (*   resolution  the milliseconds formatTimestamp drops to:  *)
               (*               1000 for unix and rfc3339, otherwise 1      *)
               (*   value       runtime.Format.Value                        *)

(* One series per label set, with at least one sample, by increasing time. *)
IsMatrix(m) ==
  /\ \A i, j \in DOMAIN m : m[i].labels = m[j].labels => i = j
  /\ \A i \in DOMAIN m :
       /\ m[i].times # << >>
       /\ \A a, b \in DOMAIN m[i].times :
            a < b => m[i].times[a] < m[i].times[b]

NoOne == "no one"

ASSUME GroupAssumption ==
  /\ Matrices \subseteq Seq([labels : Labels, key : Keys, times : Seq(Nat)])
  /\ \A m \in Matrices : IsMatrix(m)
  /\ Settings \subseteq [byTime : BOOLEAN, resolution : Nat \ {0},
                         value : {"float64", "string"}]
  /\ NoOne \notin Aggregates

VARIABLES
  setting,  (* the request's dimensions and the runtime's formats           *)
  answer,   (* answer[k]: the matrix of aggregate k                         *)
  lock,     (* who holds GroupResults.lock                                  *)
  worker,   (* worker[k]: "querying", "merging" or "done"                   *)
  next,     (* next[k]: the series and the sample k merges next             *)
  source,   (* source[k]: the slice mergeSampleToAggregateGroup works on    *)
  groups    (* GroupResults.groups                                          *)

vars == <<setting, answer, lock, worker, next, source, groups>>

FormatMinute(t) == t \div (60 * setting.resolution)

FormatTimestamp(t) == t \div setting.resolution

(* The dimensions of the group a sample belongs to. *)
Dimensions(s, t) ==
  [key |-> s.key,
   time |-> IF setting.byTime THEN <<FormatTimestamp(t)>> ELSE << >>]

(* A model.SampleValue left as it is: JSON makes a string of it. *)
Raw(sample) == [sample |-> sample, form |-> "string"]

FormatValue(sample) ==
  [sample |-> sample,
   form |-> IF setting.value = "float64" THEN "number" ELSE "string"]

GroupWithoutAggregate(d, k, v) == [dims |-> d, aggs |-> << >>]

Group(d, k, v) == [dims |-> d, aggs |-> [a \in {k} |-> v]]

WithFirstAggregate(g, k, v) ==
  [g EXCEPT !.aggs =
     [a \in DOMAIN @ \cup {k} |-> IF a \in DOMAIN @ THEN @[a] ELSE v]]

WithAggregate(g, k, v) ==
  [g EXCEPT !.aggs = [a \in DOMAIN @ \cup {k} |-> IF a = k THEN v ELSE @[a]]]

SampleOf(k, s, t) == [agg |-> k, labels |-> s.labels, time |-> t]

MergeIntoLast(list, k, s, t) ==
  LET d      == Dimensions(s, t)
      sample == SampleOf(k, s, t)
      last   == Len(list)
  IN IF list = << >> \/ list[last].dims # d
     THEN Append(list, Group(d, k, FormatValue(sample)))
     ELSE [list EXCEPT ![last] = WithAggregate(@, k, Raw(sample))]

(* One sample: the first group of its dimensions takes it, or a new one. *)
MergeValue(list, k, s, t) ==
  LET d      == Dimensions(s, t)
      same   == {i \in DOMAIN list : list[i].dims = d}
      sample == SampleOf(k, s, t)
  IN IF same = {}
     THEN Append(list, Group(d, k, FormatValue(sample)))
     ELSE [list EXCEPT ![Min(same)] = WithAggregate(@, k, Raw(sample))]
-----------------------------------------------------------------------------
Init ==
  /\ setting \in Settings
  /\ answer \in [Aggregates -> Matrices]
  /\ lock = NoOne
  /\ worker = [k \in Aggregates |-> "querying"]
  /\ next = [k \in Aggregates |-> [series |-> 1, value |-> 1]]
  /\ source = [k \in Aggregates |-> << >>]
  /\ groups = << >>

LockNothing(k) ==
  /\ worker[k] = "querying"
  /\ lock' = k
  /\ worker' = [worker EXCEPT ![k] = "merging"]
  /\ UNCHANGED <<setting, answer, next, source, groups>>

(* The answer of k has arrived, and its goroutine gets the lock. *)
Lock(k) ==
  /\ worker[k] = "querying"
  /\ lock = NoOne
  /\ lock' = k
  /\ worker' = [worker EXCEPT ![k] = "merging"]
  /\ UNCHANGED <<setting, answer, next, source, groups>>

Series(k) == answer[k][next[k].series]
InSeries(k) == worker[k] = "merging" /\ next[k].series \in DOMAIN answer[k]

(* One turn of the loop over the samples of a series; the slice is read    *)
(* from the shared field at the first one.                                 *)
MergeSample(k) ==
  /\ InSeries(k)
  /\ next[k].value \in DOMAIN Series(k).times
  /\ LET list == IF next[k].value = 1 THEN groups ELSE source[k] IN
     source' = [source EXCEPT ![k] =
       MergeValue(list, k, Series(k), Series(k).times[next[k].value])]
  /\ next' = [next EXCEPT ![k].value = @ + 1]
  /\ UNCHANGED <<setting, answer, lock, worker, groups>>

(* mergeSampleToAggregateGroup returns, and the field gets the new slice. *)
EndSeries(k) ==
  /\ InSeries(k)
  /\ next[k].value \notin DOMAIN Series(k).times
  /\ groups' = source[k]
  /\ next' = [next EXCEPT ![k] = [series |-> @.series + 1, value |-> 1]]
  /\ UNCHANGED <<setting, answer, lock, worker, source>>

Unlock(k) ==
  /\ worker[k] = "merging"
  /\ next[k].series \notin DOMAIN answer[k]
  /\ worker' = [worker EXCEPT ![k] = "done"]
  /\ lock' = NoOne
  /\ UNCHANGED <<setting, answer, next, source, groups>>

Merged == \A k \in Aggregates : worker[k] = "done"

(* eg.Wait has returned, and queryGroupAggregates returns the groups. *)
Wait == Merged /\ UNCHANGED vars

Next ==
  \/ \E k \in Aggregates : Lock(k) \/ MergeSample(k) \/ EndSeries(k) \/ Unlock(k)
  \/ Wait

Spec == Init /\ [][Next]_vars
-----------------------------------------------------------------------------
Forms == {"string", "number"}
Times == UNION {Range(s.times) : s \in UNION {Range(m) : m \in Matrices}}
Samples == [agg : Aggregates, labels : Labels, time : Times]
Values == [sample : Samples, form : Forms]

Groups == [dims : [key : Keys, time : Seq(Nat)],
           aggs : UNION {[A -> Values] : A \in (SUBSET Aggregates) \ {{}}}]

TypeOK ==
  /\ setting \in Settings
  /\ answer \in [Aggregates -> Matrices]
  /\ lock \in Aggregates \cup {NoOne}
  /\ worker \in [Aggregates -> {"querying", "merging", "done"}]
  /\ next \in [Aggregates -> [series : Nat \ {0}, value : Nat \ {0}]]
  /\ source \in [Aggregates -> Seq(Groups)]
  /\ groups \in Seq(Groups)

(* Where the matrix of aggregate k has samples of a group, as pairs of the *)
(* positions of the series and of the sample.                              *)
Places(k, d) ==
  UNION {{<<i, j>> : j \in {n \in DOMAIN answer[k][i].times :
                              Dimensions(answer[k][i], answer[k][i].times[n]) = d}} :
         i \in DOMAIN answer[k]}

IsLast(p, places) ==
  \A q \in places : q[1] < p[1] \/ (q[1] = p[1] /\ q[2] <= p[2])

SampleAt(k, p) == SampleOf(k, answer[k][p[1]], answer[k][p[1]].times[p[2]])

(* The last sample of the matrix of k that belongs to the group. *)
LastSample(k, d) ==
  SampleAt(k, CHOOSE p \in Places(k, d) : IsLast(p, Places(k, d)))

AllDimensions ==
  {Dimensions(s, t) : s \in UNION {Range(answer[k]) : k \in Aggregates}, t \in Times}

(* The groups do not depend on the order in which the goroutines got the   *)
(* lock: there is one group for each combination of dimensions that some   *)
(* aggregate has a sample for, and in it each aggregate's last sample      *)
(* (MergeMatrixToAggregateGroups).                                         *)
MergedExactly ==
  Merged =>
    /\ {g.dims : g \in Range(groups)} =
         {d \in AllDimensions : \E k \in Aggregates : Places(k, d) # {}}
    /\ \A g \in Range(groups) :
         /\ DOMAIN g.aggs = {k \in Aggregates : Places(k, g.dims) # {}}
         /\ \A k \in DOMAIN g.aggs : g.aggs[k].sample = LastSample(k, g.dims)

Unique(list) == \A i, j \in DOMAIN list : list[i].dims = list[j].dims => i = j

(* No combination of dimensions ever gets a second group, whichever        *)
(* aggregate brings it first (equalSlice over the groups so far).          *)
OneGroupEach == Unique(groups)

(* What one goroutine has merged, no other one takes back. *)
MergedStays ==
  [][\A i \in DOMAIN groups :
       /\ i \in DOMAIN groups'
       /\ groups'[i].dims = groups[i].dims
       /\ \A k \in DOMAIN groups[i].aggs :
            worker[k] = "done" => /\ k \in DOMAIN groups'[i].aggs
                                  /\ groups'[i].aggs[k] = groups[i].aggs[k]]_vars

(* What aggregate k makes of a list of groups leaves the others' values.   *)
Extends(new, old, k) ==
  \A i \in DOMAIN old :
    /\ i \in DOMAIN new
    /\ new[i].dims = old[i].dims
    /\ \A a \in DOMAIN old[i].aggs \ {k} :
         a \in DOMAIN new[i].aggs /\ new[i].aggs[a] = old[i].aggs[a]

LockHeld == \A k \in Aggregates : worker[k] = "merging" <=> lock = k

Unstarted == \A k \in Aggregates : worker[k] = "querying" => next[k].value = 1

(* In the middle of a series, the slice a goroutine works on extends the   *)
(* field, which no other one has changed since.                            *)
SourceCurrent ==
  \A k \in Aggregates :
    InSeries(k) /\ next[k].value > 1 => Extends(source[k], groups, k)

(* The places of a group that come before n, the next one of the loops. *)
Before(p, n) == p[1] < n.series \/ (p[1] = n.series /\ p[2] < n.value)

Passed(k, d, n) == {p \in Places(k, d) : Before(p, n)}

(* The list holds, of aggregate k, the places before n and no other: each  *)
(* of them has its group, and a group has the last of its places.          *)
Holds(list, k, n) ==
  /\ \A i \in DOMAIN answer[k] : \A j \in DOMAIN answer[k][i].times :
       Before(<<i, j>>, n) =>
         \E h \in DOMAIN list :
           /\ list[h].dims = Dimensions(answer[k][i], answer[k][i].times[j])
           /\ k \in DOMAIN list[h].aggs
  /\ \A h \in DOMAIN list : k \in DOMAIN list[h].aggs =>
       \E p \in Passed(k, list[h].dims, n) :
         /\ IsLast(p, Passed(k, list[h].dims, n))
         /\ list[h].aggs[k].sample = SampleAt(k, p)

SeriesStart(k) == [series |-> next[k].series, value |-> 1]

(* The shared list holds the series every goroutine has ended, the one a   *)
(* goroutine works on also the samples of its series so far.               *)
GroupsHold == \A k \in Aggregates : Holds(groups, k, SeriesStart(k))

SourceHolds ==
  \A k \in Aggregates : InSeries(k) /\ next[k].value > 1 =>
    /\ Holds(source[k], k, next[k])
    /\ \A a \in Aggregates \ {k} : Holds(source[k], a, SeriesStart(a))

DoneMeans ==
  \A k \in Aggregates : worker[k] = "done" => next[k].series \notin DOMAIN answer[k]

(* The inductive invariant of the merge: the lock makes the private slice  *)
(* of each goroutine an extension of the shared one, and each list holds   *)
(* what has been merged into it (MergeMatrixToAggregateGroups).            *)
IInv ==
  /\ TypeOK
  /\ OneGroupEach
  /\ \A k \in Aggregates : Unique(source[k])
  /\ LockHeld
  /\ Unstarted
  /\ SourceCurrent
  /\ GroupsHold
  /\ SourceHolds
  /\ DoneMeans

(* When time is a dimension, the step is not finer than the format and the *)
(* dimensions tell the series of each answer apart, no sample is lost to   *)
(* another one of the same group: the hazard is formatTimestamp dropping   *)
(* the fraction of a second from the key.                                  *)
Coarse(s) ==
  \A a, b \in DOMAIN s.times :
    a < b => s.times[a] + setting.resolution <= s.times[b]

Separated ==
  /\ setting.byTime
  /\ \A k \in Aggregates : \A s, r \in Range(answer[k]) :
       Coarse(s) /\ (s.key = r.key => s = r)

SamplesKept ==
  Merged /\ Separated =>
    \A k \in Aggregates : \A s \in Range(answer[k]) : \A t \in Range(s.times) :
      \E g \in Range(groups) :
        k \in DOMAIN g.aggs /\ g.aggs[k].sample = SampleOf(k, s, t)

(* "These settings specify the format of the response timestamp and        *)
(* value.": every value of the response is in the format that is set.      *)
ValuesFormatted ==
  \A g \in Range(groups) : \A k \in DOMAIN g.aggs :
    g.aggs[k] = FormatValue(g.aggs[k].sample)
=============================================================================
