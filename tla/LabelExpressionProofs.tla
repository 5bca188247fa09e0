----------------------- MODULE LabelExpressionProofs -----------------------
(***************************************************************************)
(* Proofs about LabelExpression for any texts, patterns and comparisons:   *)
(* nothing is assumed of what a pattern selects or is found in.            *)
(***************************************************************************)
EXTENDS LabelExpression, FiniteSetTheorems, TLAPS

LEMMA ElementType == ASSUME NEW S, NEW q \in Seq(S), NEW i \in DOMAIN q PROVE q[i] \in S
OBVIOUS

LEMMA SeqDomain ==
  ASSUME NEW S, NEW q \in Seq(S)
  PROVE  DOMAIN q = 1 .. Len(q) /\ Len(q) \in Nat /\ DOMAIN q \subseteq Nat
OBVIOUS

LEMMA OpsApart ==
  /\ "_eq" \notin WrapOps /\ "_regex" \notin WrapOps /\ "_in" \notin WrapOps
  /\ "_neq" \notin WrapOps /\ "_nregex" \notin WrapOps /\ "_nin" \notin WrapOps
BY LabelAssumption

LEMMA FieldType ==
  ASSUME NEW t \in Texts, NEW r \in BOOLEAN
  PROVE  Field(t, r) \in Fields /\ Field(t, r).text = t /\ Field(t, r).isRegex = r
BY DEF Field, Fields

LEMMA PlainField ==
  ASSUME NEW f \in Fields, ~f.isRegex
  PROVE  f = Field(f.text, FALSE) /\ f.text \in Texts
<1>1. f = [text |-> f.text, isRegex |-> f.isRegex] /\ f.isRegex \in BOOLEAN /\ f.text \in Texts
  BY DEF Fields
<1>2. f.isRegex = FALSE
  BY <1>1
<1> QED
  BY <1>1, <1>2 DEF Field

LEMMA ComparisonType ==
  ASSUME NEW c \in Comparisons
  PROVE  /\ c.op \in ListOps \cup ScalarOps
         /\ c.value.kind \in {"null", "bad", "given"}
         /\ c.value.texts \in Seq(Texts)
         /\ Range(c.value.texts) \subseteq Texts
<1>1. c \in [op : ListOps \cup ScalarOps, value : Values]
  BY LabelAssumption
<1>2. c.value \in Values /\ c.op \in ListOps \cup ScalarOps
  BY <1>1
<1>3. c.value.kind \in {"null", "bad", "given"} /\ c.value.texts \in Seq(Texts)
  BY <1>2 DEF Values
<1>4. Range(c.value.texts) \subseteq Texts
  BY <1>3, ElementType DEF Range
<1> QED
  BY <1>2, <1>3, <1>4

(* A scalar comparison has one text, and its pattern is a text. *)
LEMMA ScalarType ==
  ASSUME NEW c \in Comparisons, c.op \in ScalarOps, c.value.kind = "given"
  PROVE  /\ Pattern(c) \in Texts
         /\ Range(c.value.texts) = {c.value.texts[1]}
         /\ c.op \notin WrapOps => Pattern(c) = c.value.texts[1]
         /\ DOMAIN c.value.texts = {1}
<1>1. c.value.texts \in Seq(Texts)
  BY ComparisonType
<1>2. Len(c.value.texts) = 1
  BY LabelAssumption
<1>3. DOMAIN c.value.texts = {1} /\ c.value.texts[1] \in Texts
  BY <1>1, <1>2
<1>4. Range(c.value.texts) = {c.value.texts[1]}
  BY <1>3 DEF Range
<1>5. c.op \in WrapOps => Wrapped[c.op][c.value.texts[1]] \in Texts
  <2>1. Wrapped \in [WrapOps -> [Texts -> Texts]]
    BY LabelAssumption
  <2> QED
    BY <1>3, <2>1
<1> QED
  BY <1>3, <1>4, <1>5 DEF Pattern

LEMMA ExpressionType ==
  ASSUME TypeOK
  PROVE  /\ DOMAIN exprs = 1 .. Len(exprs) /\ Len(exprs) \in Nat
         /\ \A i \in DOMAIN exprs : exprs[i] \in Comparisons
<1>1. exprs \in Seq(Comparisons)
  BY DEF TypeOK
<1> QED
  BY <1>1, SeqDomain, ElementType

(* What depends on the request alone does not change with it. *)
LEMMA RequestSteady ==
  ASSUME exprs' = exprs
  PROVE  (LiteralRequest' <=> LiteralRequest) /\ Meant' = Meant
BY DEF LiteralRequest, Meant

LEMMA InitIInv == Init => IInv
<1> SUFFICES ASSUME Init PROVE IInv
  OBVIOUS
<1>1. exprs \in Seq(Comparisons)
  <2>1. PICK m \in 0 .. MaxLength : exprs \in [1 .. m -> Comparisons]
    BY DEF Init, SeqOf
  <2>2. m \in Nat
    BY <2>1, LabelAssumption
  <2> QED
    BY <2>1, <2>2
<1>2. /\ at = 1 /\ includes = << >> /\ excludes = {} /\ kept = << >> /\ ~rest
      /\ status = IF exprs = << >> THEN "all" ELSE "compare"
  BY DEF Init
<1>3. TypeOK
  <2>1. at \in Nat \ {0}
    BY <1>2
  <2>2. includes \in Seq(Fields) /\ kept \in Seq(Fields)
    BY <1>2
  <2>3. rest \in BOOLEAN
    BY DEF Init
  <2> QED
    BY <1>1, <1>2, <2>1, <2>2, <2>3 DEF TypeOK
<1>4. status = "compare" => at <= Len(exprs) + 1
  BY <1>1, <1>2
<1>5. Going => Passed = {}
  <2>1. \A i \in DOMAIN exprs : ~ (i < 1)
    BY <1>1
  <2> QED
    BY <1>2, <2>1 DEF Going, Passed
<1>6. IncludesHeld /\ ExcludesHeld
  BY <1>2, <1>5 DEF IncludesHeld, ExcludesHeld, AllExcluded
<1>7. KeptHeld /\ ListHeld /\ WalkHeld /\ EmptyHeld
  BY <1>2 DEF KeptHeld, ListHeld, WalkHeld, EmptyHeld, Going
<1> QED
  BY <1>2, <1>3, <1>4, <1>6, <1>7 DEF IInv

(* An error ends the evaluation. *)
LEMMA ErrorIInv == ASSUME IInv, status = "compare", Stop("error") PROVE IInv'
<1>1. status' = "error" /\ UNCHANGED <<exprs, at, includes, excludes, kept, rest>>
  BY DEF Stop
<1>2. TypeOK'
  BY <1>1 DEF IInv, TypeOK
<1>3. ~rest /\ ~Going'
  BY <1>1 DEF IInv, KeptHeld, Going
<1> QED
  BY <1>1, <1>2, <1>3 DEF IInv, IncludesHeld, ExcludesHeld, KeptHeld, ListHeld, WalkHeld, EmptyHeld

(* A comparison leaves nothing: it includes, and no value meets them all. *)
LEMMA EmptyIInv ==
  ASSUME IInv, status = "compare", Stop("empty"), at \in DOMAIN exprs, Includes(Current),
         LiteralRequest => Meant = {}
  PROVE  IInv'
<1>1. status' = "empty" /\ UNCHANGED <<exprs, at, includes, excludes, kept, rest>>
  BY DEF Stop
<1>2. TypeOK'
  BY <1>1 DEF IInv, TypeOK
<1>3. ~rest /\ ~Going'
  BY <1>1 DEF IInv, KeptHeld, Going
<1>4. EmptyHeld'
  BY <1>1, RequestSteady DEF EmptyHeld, Current
<1> QED
  BY <1>1, <1>2, <1>3, <1>4 DEF IInv, IncludesHeld, ExcludesHeld, KeptHeld, ListHeld, WalkHeld

(* One comparison more has been looked at. *)
LEMMA PassedNext ==
  ASSUME TypeOK, status = "compare", status' = "compare", at \in DOMAIN exprs,
         exprs' = exprs, at' = at + 1
  PROVE  Passed' = Passed \cup {at}
<1>1. at \in Nat /\ DOMAIN exprs \subseteq Nat
  BY ExpressionType
<1>2. Passed = {i \in DOMAIN exprs : i < at} /\ Passed' = {i \in DOMAIN exprs : i < at + 1}
  BY DEF Passed
<1> QED
  BY <1>1, <1>2

LEMMA CompareStep ==
  ASSUME IInv, status = "compare", at \in DOMAIN exprs, Continue,
         includes' \in Seq(Fields), excludes' = excludes \cup Excluded(Current),
         Excluded(Current) \subseteq Fields,
         IncludesHeld', ListHeld'
  PROVE  IInv'
<1>1. /\ at' = at + 1 /\ status' = "compare" /\ UNCHANGED <<exprs, kept, rest>>
      /\ TypeOK /\ ~rest
  BY DEF Continue, IInv, KeptHeld
<1>2. TypeOK'
  <2>1. at' \in Nat \ {0}
    <3>1. at \in Nat \ {0}
      BY <1>1 DEF TypeOK
    <3> QED
      BY <1>1, <3>1
  <2>2. excludes' \subseteq Fields
    BY <1>1 DEF TypeOK
  <2> QED
    BY <1>1, <2>1, <2>2 DEF TypeOK
<1>3. at' <= Len(exprs') + 1
  <2>1. at \in 1 .. Len(exprs) /\ Len(exprs) \in Nat
    BY <1>1, ExpressionType
  <2> QED
    BY <1>1, <2>1
<1>4. ExcludesHeld'
  <2>1. Passed' = Passed \cup {at}
    BY <1>1, PassedNext
  <2>2. AllExcluded' = AllExcluded \cup Excluded(Current)
    <3>1. AllExcluded' = UNION {Excluded(exprs[i]) : i \in Passed \cup {at}}
      BY <1>1, <2>1 DEF AllExcluded
    <3> QED
      BY <3>1 DEF AllExcluded, Current
  <2>3. excludes = AllExcluded
    BY DEF IInv, ExcludesHeld, Going
  <2> QED
    BY <2>2, <2>3 DEF ExcludesHeld
<1>5. KeptHeld'
  <2>1. kept = << >> /\ kept' = << >>
    BY <1>1 DEF IInv, KeptHeld
  <2>2. Range(kept') = {}
    BY <2>1 DEF Range
  <2>3. Range(kept)' \subseteq Range(includes)'
    BY <2>2 DEF Range
  <2> QED
    BY <1>1, <2>1, <2>3 DEF KeptHeld
<1>6. WalkHeld' /\ EmptyHeld'
  BY <1>1 DEF WalkHeld, EmptyHeld
<1>7. (status' = "all" <=> exprs' = << >>)
  BY <1>1 DEF IInv
<1> QED
  BY <1>1, <1>2, <1>3, <1>4, <1>5, <1>6, <1>7 DEF IInv
-----------------------------------------------------------------------------
(* What an action that looks at a comparison starts from. *)
LEMMA Looking ==
  ASSUME IInv, NEW ops, NEW kind, Comparing(ops, kind)
  PROVE  /\ status = "compare" /\ at \in DOMAIN exprs /\ at \in Nat
         /\ Current \in Comparisons /\ Current.op \in ops /\ Current.value.kind = kind
         /\ TypeOK /\ Going /\ ~rest
<1>1. status = "compare" /\ at <= Len(exprs) /\ Current.op \in ops /\ Current.value.kind = kind
  BY DEF Comparing
<1>2. TypeOK /\ Going /\ ~rest
  BY <1>1 DEF IInv, Going, KeptHeld
<1>3. at \in Nat \ {0}
  BY <1>2 DEF TypeOK
<1>4. at \in DOMAIN exprs
  BY <1>1, <1>2, <1>3, ExpressionType
<1>5. Current \in Comparisons
  BY <1>2, <1>4, ExpressionType DEF Current
<1> QED
  BY <1>1, <1>2, <1>3, <1>4, <1>5

LEMMA BadValueIInv == ASSUME IInv, BadValue PROVE IInv'
<1>1. status = "compare" /\ Stop("error")
  BY DEF BadValue, Comparing
<1> QED
  BY <1>1, ErrorIInv

(* A comparison that includes nothing leaves the list as it is. *)
LEMMA ListKept ==
  ASSUME IInv, status = "compare", at \in DOMAIN exprs, Continue,
         includes' = includes, ~Includes(Current), ~Literally(Current)
  PROVE  IncludesHeld' /\ ListHeld'
<1>1. /\ at' = at + 1 /\ status' = "compare" /\ UNCHANGED <<exprs, rest>> /\ TypeOK /\ Going
  BY DEF Continue, IInv, Going
<1>2. Passed' = Passed \cup {at}
  BY <1>1, PassedNext
<1>3. IncludesHeld'
  <2>1. /\ includes = << >> <=> \A i \in Passed : ~Includes(exprs[i])
        /\ \A i \in Passed : Literally(exprs[i]) =>
             \A n \in DOMAIN includes : includes[n].text \in Range(exprs[i].value.texts)
    BY <1>1 DEF IInv, IncludesHeld
  <2>2. /\ includes = << >> <=> \A i \in Passed' : ~Includes(exprs[i])
        /\ \A i \in Passed' : Literally(exprs[i]) =>
             \A n \in DOMAIN includes : includes[n].text \in Range(exprs[i].value.texts)
    BY <1>2, <2>1 DEF Current
  <2> QED
    BY <1>1, <2>2 DEF IncludesHeld
<1>4. ListHeld'
  <2> SUFFICES ASSUME LiteralRequest PROVE ListHeld'
    BY <1>1, RequestSteady DEF ListHeld
  <2>1. /\ \A n \in DOMAIN includes : ~includes[n].isRegex
        /\ \A m, n \in DOMAIN includes : includes[m] = includes[n] => m = n
        /\ includes # << >> => \A t \in Texts :
             (\A i \in Passed : Literally(exprs[i]) => t \in Range(exprs[i].value.texts)) =>
               Field(t, FALSE) \in Range(includes)
    BY <1>1 DEF IInv, ListHeld
  <2>2. includes # << >> => \A t \in Texts :
             (\A i \in Passed' : Literally(exprs[i]) => t \in Range(exprs[i].value.texts)) =>
               Field(t, FALSE) \in Range(includes)
    BY <1>2, <2>1
  <2> QED
    BY <1>1, <2>1, <2>2 DEF ListHeld
<1> QED
  BY <1>3, <1>4

LEMMA NullValueIInv == ASSUME IInv, NullValue PROVE IInv'
<1>1. /\ status = "compare" /\ at \in DOMAIN exprs /\ Current.value.kind = "null"
      /\ Continue /\ UNCHANGED <<includes, excludes>> /\ TypeOK
  BY Looking DEF NullValue
<1>2. ~Includes(Current) /\ ~Literally(Current) /\ Excluded(Current) = {}
  BY <1>1 DEF Includes, Literally, Excluded
<1>3. IncludesHeld' /\ ListHeld'
  BY <1>1, <1>2, ListKept
<1>4. includes' \in Seq(Fields) /\ excludes' = excludes \cup {}
  BY <1>1 DEF TypeOK
<1> QED
  BY <1>1, <1>2, <1>3, <1>4, CompareStep

LEMMA ExcludeOneIInv == ASSUME IInv, ExcludeOne PROVE IInv'
<1>1. /\ status = "compare" /\ at \in DOMAIN exprs /\ Current.value.kind = "given"
      /\ Current.op \in {"_neq", "_nregex"} /\ TypeOK /\ Current \in Comparisons
  BY Looking DEF ExcludeOne
<1>2. CASE Current.op = "_nregex" /\ Pattern(Current) \in Invalid
  <2>1. Stop("error")
    BY <1>2 DEF ExcludeOne
  <2> QED
    BY <1>1, <2>1, ErrorIInv
<1>3. CASE ~ (Current.op = "_nregex" /\ Pattern(Current) \in Invalid)
  <2>1. /\ excludes' = excludes \cup {Field(Pattern(Current), Current.op = "_nregex")}
        /\ Continue /\ includes' = includes
    BY <1>3 DEF ExcludeOne
  <2>2. Current.op \in ScalarOps /\ Current.op \notin WrapOps
    BY <1>1, OpsApart DEF ScalarOps
  <2>3. /\ Pattern(Current) \in Texts /\ Range(Current.value.texts) = {Pattern(Current)}
    BY <1>1, <2>2, ScalarType
  <2>4. Excluded(Current) = {Field(Pattern(Current), Current.op = "_nregex")}
    <3>1. CASE Current.op = "_nregex"
      <4>1. (Current.op = "_nregex") = TRUE
        BY <3>1
      <4> QED
        BY <1>1, <3>1, <4>1 DEF Excluded
    <3>2. CASE Current.op = "_neq"
      <4>1. (Current.op = "_nregex") = FALSE
        BY <3>2
      <4>2. Excluded(Current) = {Field(t, FALSE) : t \in {Pattern(Current)}}
        BY <1>1, <2>3, <3>2 DEF Excluded
      <4> QED
        BY <4>1, <4>2
    <3> QED
      BY <1>1, <3>1, <3>2
  <2>5. Excluded(Current) \subseteq Fields
    BY <2>3, <2>4, FieldType
  <2>6. ~Includes(Current) /\ ~Literally(Current)
    BY <1>1, OpsApart DEF Includes, Literally, IncludeOps
  <2>7. IncludesHeld' /\ ListHeld'
    BY <1>1, <2>1, <2>6, ListKept
  <2>8. includes' \in Seq(Fields) /\ excludes' = excludes \cup Excluded(Current)
    BY <1>1, <2>1, <2>4 DEF TypeOK
  <2> QED
    BY <1>1, <2>1, <2>5, <2>7, <2>8, CompareStep
<1> QED
  BY <1>2, <1>3

LEMMA ExcludeInIInv == ASSUME IInv, ExcludeIn PROVE IInv'
<1>1. /\ status = "compare" /\ at \in DOMAIN exprs /\ Current.value.kind = "given"
      /\ Current.op = "_nin" /\ TypeOK /\ Current \in Comparisons
  BY Looking DEF ExcludeIn
<1>2. /\ excludes' = excludes \cup {Field(t, FALSE) : t \in Range(Current.value.texts)}
      /\ Continue /\ includes' = includes
  BY DEF ExcludeIn
<1>3. Excluded(Current) = {Field(t, FALSE) : t \in Range(Current.value.texts)}
  BY <1>1 DEF Excluded
<1>4. Excluded(Current) \subseteq Fields
  BY <1>1, <1>3, ComparisonType, FieldType
<1>5. ~Includes(Current) /\ ~Literally(Current)
  BY <1>1, OpsApart DEF Includes, Literally, IncludeOps
<1>6. IncludesHeld' /\ ListHeld'
  BY <1>1, <1>2, <1>5, ListKept
<1>7. includes' \in Seq(Fields) /\ excludes' = excludes \cup Excluded(Current)
  BY <1>1, <1>2, <1>3 DEF TypeOK
<1> QED
  BY <1>1, <1>2, <1>4, <1>6, <1>7, CompareStep
-----------------------------------------------------------------------------
(* The positions of an order are those of its set, each one once. *)
LEMMA OrderFacts ==
  ASSUME NEW q \in Seq(Fields), NEW S \in SUBSET (DOMAIN q), S # {}, NEW order \in Orders(S)
  PROVE  /\ \E k \in Nat : DOMAIN order = 1 .. k
         /\ DOMAIN order # {}
         /\ \A n \in DOMAIN order : order[n] \in S
         /\ \A i \in S : \E n \in DOMAIN order : order[n] = i
         /\ \A m, n \in DOMAIN order : order[m] = order[n] => m = n
<1>1. DOMAIN q = 1 .. Len(q) /\ Len(q) \in Nat /\ S \subseteq Nat
  BY SeqDomain
<1>2. IsFiniteSet(S)
  <2>1. IsFiniteSet(1 .. Len(q))
    BY <1>1, FS_Interval
  <2> QED
    BY <1>1, <2>1, FS_Subset
<1>3. Cardinality(S) \in Nat
  BY <1>2, FS_CardinalityType
<1>4. /\ order \in [1 .. Cardinality(S) -> S] /\ Range(order) = S
      /\ \A m, n \in DOMAIN order : m < n => order[m] < order[n]
  BY DEF Orders
<1>5. DOMAIN order = 1 .. Cardinality(S) /\ \A n \in DOMAIN order : order[n] \in S /\ order[n] \in Nat
  BY <1>1, <1>4
<1>6. \A i \in S : \E n \in DOMAIN order : order[n] = i
  BY <1>4 DEF Range
<1>7. ASSUME NEW m \in DOMAIN order, NEW n \in DOMAIN order, order[m] = order[n] PROVE m = n
  <2>1. m \in Nat /\ n \in Nat
    BY <1>3, <1>5
  <2>2. ~ (m < n) /\ ~ (n < m)
    BY <1>4, <1>5, <1>7
  <2> QED
    BY <2>1, <2>2
<1> QED
  BY <1>3, <1>5, <1>6, <1>7

(* A list of distinct values that is narrowed to some of its positions. *)
Picked(g, order) == [n \in DOMAIN order |-> g[order[n]]]

LEMMA NarrowedList ==
  ASSUME NEW q \in Seq(Fields), NEW S \in SUBSET (DOMAIN q), S # {}, NEW order \in Orders(S),
         NEW g, \A i \in S : g[i] \in Fields,
         NEW new, new = Picked(g, order)
  PROVE  /\ new \in Seq(Fields) /\ new # << >>
         /\ DOMAIN new = DOMAIN order
         /\ \A n \in DOMAIN new : order[n] \in S /\ new[n] = g[order[n]]
         /\ \A i \in S : \E n \in DOMAIN new : new[n] = g[i]
         /\ \A m, n \in DOMAIN new : order[m] = order[n] => m = n
<1>1. /\ \A n \in DOMAIN order : order[n] \in S
      /\ \A i \in S : \E n \in DOMAIN order : order[n] = i
      /\ \A m, n \in DOMAIN order : order[m] = order[n] => m = n
      /\ DOMAIN order # {}
  BY OrderFacts
<1>2. PICK k \in Nat : DOMAIN order = 1 .. k
  BY OrderFacts
<1>3. DOMAIN new = 1 .. k /\ \A n \in 1 .. k : new[n] = g[order[n]] /\ new[n] \in Fields
  BY <1>1, <1>2 DEF Picked
<1>4. new \in Seq(Fields)
  <2>1. new = [n \in 1 .. k |-> new[n]]
    BY <1>2, <1>3 DEF Picked
  <2>2. new \in [1 .. k -> Fields]
    BY <1>3, <2>1
  <2> QED
    BY <2>2
<1>5. new # << >>
  <2>1. DOMAIN new # {}
    BY <1>1, <1>2, <1>3
  <2>2. new = << >> => DOMAIN new = {}
    OBVIOUS
  <2> QED
    BY <2>1, <2>2
<1> QED
  BY <1>1, <1>2, <1>3, <1>4, <1>5
-----------------------------------------------------------------------------
LEMMA LiteralMeans ==
  ASSUME NEW c \in Comparisons, Literally(c)
  PROVE  Means(c) = Range(c.value.texts) \cap LabelValues
BY DEF Literally, Means

(* What all the comparisons mean is among the values to include. *)
LEMMA MeantIncluded ==
  ASSUME TypeOK, ListHeld, LiteralRequest, Going, includes # << >>, NEW v \in Meant
  PROVE  Field(v, FALSE) \in Range(includes)
<1>1. v \in Texts /\ v \in LabelValues
  BY LabelAssumption DEF Meant
<1>2. ASSUME NEW i \in Passed, Literally(exprs[i]) PROVE v \in Range(exprs[i].value.texts)
  <2>1. i \in DOMAIN exprs
    BY DEF Passed
  <2>2. v \in Means(exprs[i]) /\ exprs[i] \in Comparisons
    BY <2>1, ExpressionType DEF Meant
  <2> QED
    BY <1>2, <2>2, LiteralMeans
<1> QED
  BY <1>1, <1>2 DEF ListHeld

(* The list holds what the comparisons leave when one more includes:       *)
(* whatever it narrows, each value is one of its texts if it is literal,   *)
(* and every value that meets all of them is still there.                  *)
LEMMA ListNext ==
  ASSUME IInv, status = "compare", at \in DOMAIN exprs, Continue, Includes(Current),
         includes' # << >>,
         \A n \in DOMAIN includes' :
           /\ includes # << >> => \E i \in DOMAIN includes : includes'[n].text = includes[i].text
           /\ Literally(Current) => includes'[n].text \in Range(Current.value.texts),
         LiteralRequest =>
           /\ \A n \in DOMAIN includes' : ~includes'[n].isRegex
           /\ \A m, n \in DOMAIN includes' : includes'[m] = includes'[n] => m = n
           /\ \A t \in Range(Current.value.texts) :
                includes = << >> \/ Field(t, FALSE) \in Range(includes) =>
                  \E n \in DOMAIN includes' : includes'[n] = Field(t, FALSE)
  PROVE  IncludesHeld' /\ ListHeld'
<1>1. /\ at' = at + 1 /\ status' = "compare" /\ UNCHANGED <<exprs, rest>> /\ TypeOK /\ Going
  BY DEF Continue, IInv, Going
<1>2. Passed' = Passed \cup {at}
  BY <1>1, PassedNext
<1>3. /\ includes = << >> <=> \A i \in Passed : ~Includes(exprs[i])
      /\ \A i \in Passed : Literally(exprs[i]) =>
           \A n \in DOMAIN includes : includes[n].text \in Range(exprs[i].value.texts)
  BY <1>1 DEF IInv, IncludesHeld
<1>4. \A c : Literally(c) => Includes(c)
  BY DEF Literally, Includes, IncludeOps
<1>5. IncludesHeld'
  <2>1. ASSUME NEW i \in Passed', Literally(exprs[i]), NEW n \in DOMAIN includes'
        PROVE  includes'[n].text \in Range(exprs[i].value.texts)
    <3>1. CASE i = at
      BY <2>1, <3>1 DEF Current
    <3>2. CASE i \in Passed
      <4>1. includes # << >>
        BY <1>3, <1>4, <2>1, <3>2
      <4>2. PICK k \in DOMAIN includes : includes'[n].text = includes[k].text
        BY <2>1, <4>1
      <4> QED
        BY <1>3, <2>1, <3>2, <4>2
    <3> QED
      BY <1>2, <3>1, <3>2
  <2>2. ~ (\A i \in Passed' : ~Includes(exprs[i]))
    BY <1>2 DEF Current
  <2> QED
    BY <1>1, <2>1, <2>2 DEF IncludesHeld
<1>6. ListHeld'
  <2> SUFFICES ASSUME LiteralRequest PROVE ListHeld'
    BY <1>1, RequestSteady DEF ListHeld
  <2>1. ASSUME NEW t \in Texts,
               \A i \in Passed' : Literally(exprs[i]) => t \in Range(exprs[i].value.texts)
        PROVE  Field(t, FALSE) \in Range(includes)'
    <3>1. Literally(Current)
      BY OpsApart DEF LiteralRequest, Current, Includes, IncludeOps, Literally
    <3>2. t \in Range(Current.value.texts)
      BY <1>2, <2>1, <3>1 DEF Current
    <3>3. includes # << >> => Field(t, FALSE) \in Range(includes)
      BY <1>1, <1>2, <2>1 DEF IInv, ListHeld
    <3>4. \E n \in DOMAIN includes' : includes'[n] = Field(t, FALSE)
      BY <3>2, <3>3
    <3> QED
      BY <3>4 DEF Range
  <2> QED
    BY <1>1, <2>1 DEF ListHeld
<1> QED
  BY <1>5, <1>6

LEMMA IncludeStep ==
  ASSUME IInv, status = "compare", at \in DOMAIN exprs, Continue, Includes(Current),
         includes' \in Seq(Fields), excludes' = excludes, IncludesHeld', ListHeld'
  PROVE  IInv'
<1>1. Excluded(Current) = {}
  BY OpsApart DEF Includes, IncludeOps, Excluded
<1>2. excludes' = excludes \cup Excluded(Current) /\ Excluded(Current) \subseteq Fields
  BY <1>1
<1> QED
  BY <1>2, CompareStep

LEMMA IncludeOneIInv == ASSUME IInv, IncludeOne PROVE IInv'
<1> DEFINE t      == Pattern(Current)
           regex  == IsRegexOp(Current.op)
           picked == {i \in DOMAIN includes : Survives(includes[i], t, regex)}
           g      == [i \in DOMAIN includes |-> Narrowed(includes[i], t, regex)]
<1>1. /\ status = "compare" /\ at \in DOMAIN exprs /\ Current.value.kind = "given"
      /\ Current.op \in {"_eq", "_regex"} \cup WrapOps /\ TypeOK /\ Current \in Comparisons
      /\ Going
  BY Looking DEF IncludeOne
<1>2. Current.op \in ScalarOps /\ Includes(Current) /\ (Literally(Current) => Current.op = "_eq")
  BY <1>1, OpsApart DEF ScalarOps, Includes, IncludeOps, Literally
<1>3. /\ t \in Texts
      /\ Current.op = "_eq" => ~regex /\ Range(Current.value.texts) = {t}
  BY <1>1, <1>2, ScalarType, OpsApart DEF IsRegexOp
<1>4. regex \in BOOLEAN
  BY DEF IsRegexOp
<1>5. includes \in Seq(Fields) /\ \A i \in DOMAIN includes : includes[i] \in Fields
  BY <1>1, ElementType DEF TypeOK
<1>6. LiteralRequest => Current.op = "_eq"
  BY <1>1, OpsApart DEF LiteralRequest, Current
<1>7. \/ Stop("error")
      \/ includes # << >> /\ picked = {} /\ Stop("empty")
      \/ includes = << >> /\ includes' = <<Field(t, regex)>> /\ Continue /\ excludes' = excludes
      \/ /\ picked # {} /\ Continue /\ excludes' = excludes
         /\ \E order \in Orders(picked) :
              includes' = [n \in DOMAIN order |-> Narrowed(includes[order[n]], t, regex)]
  BY DEF IncludeOne
<1> HIDE DEF t, regex
<1>8. CASE Stop("error")
  BY <1>1, <1>8, ErrorIInv
<1>9. CASE includes # << >> /\ picked = {} /\ Stop("empty")
  <2>1. ASSUME LiteralRequest, NEW v \in Meant PROVE FALSE
    <3>1. Field(v, FALSE) \in Range(includes)
      BY <1>1, <1>9, <2>1, MeantIncluded DEF IInv
    <3>2. PICK i \in DOMAIN includes : includes[i] = Field(v, FALSE)
      BY <3>1 DEF Range
    <3>3. v \in Means(Current) /\ Literally(Current)
      BY <1>1, <1>6, <2>1 DEF Meant, Current, Literally
    <3>4. v = t
      BY <1>1, <1>3, <1>6, <2>1, <3>3, LiteralMeans
    <3>5. includes[i].text = t
      BY <3>2, <3>4 DEF Field
    <3> QED
      BY <1>9, <3>5 DEF Survives
  <2> QED
    BY <1>1, <1>2, <1>9, <2>1, EmptyIInv
<1>10. CASE includes = << >> /\ includes' = <<Field(t, regex)>> /\ Continue /\ excludes' = excludes
  <2>1. Field(t, regex) \in Fields /\ Field(t, regex).text = t /\ Field(t, regex).isRegex = regex
    BY <1>3, <1>4, FieldType
  <2>2. includes' = <<Field(t, regex)>>
    BY <1>10
  <2>3. /\ includes' \in Seq(Fields) /\ includes' # << >>
        /\ DOMAIN includes' = {1} /\ includes'[1] = Field(t, regex)
    BY <2>1, <2>2
  <2>4. Literally(Current) => includes'[1].text \in Range(Current.value.texts)
    BY <1>2, <1>3, <2>1, <2>3
  <2>5. ASSUME LiteralRequest
        PROVE  /\ ~includes'[1].isRegex
               /\ \A tt \in Range(Current.value.texts) : includes'[1] = Field(tt, FALSE)
    <3>1. ~regex /\ Range(Current.value.texts) = {t}
      BY <1>3, <1>6, <2>5
    <3>2. regex = FALSE
      BY <1>4, <3>1
    <3> QED
      BY <2>1, <2>3, <3>1, <3>2
  <2>6. IncludesHeld' /\ ListHeld'
    BY <1>1, <1>2, <1>10, <2>3, <2>4, <2>5, ListNext
  <2> QED
    BY <1>1, <1>2, <1>10, <2>3, <2>6, IncludeStep
<1>11. CASE /\ picked # {} /\ Continue /\ excludes' = excludes
            /\ \E order \in Orders(picked) :
                 includes' = [n \in DOMAIN order |-> Narrowed(includes[order[n]], t, regex)]
  <2>1. PICK order \in Orders(picked) :
          includes' = [n \in DOMAIN order |-> Narrowed(includes[order[n]], t, regex)]
    BY <1>11
  <2>2. \A i \in DOMAIN includes : g[i] = Narrowed(includes[i], t, regex)
    OBVIOUS
  <2>3. \A i \in DOMAIN includes : g[i] \in Fields /\ g[i].text = includes[i].text
    <3> SUFFICES ASSUME NEW i \in DOMAIN includes
                 PROVE  g[i] \in Fields /\ g[i].text = includes[i].text
      OBVIOUS
    <3>1. (includes[i].isRegex /\ regex) \in BOOLEAN
      OBVIOUS
    <3>2. Field(t, includes[i].isRegex /\ regex) \in Fields
      BY <1>3, <3>1, FieldType
    <3>3. Field(t, includes[i].isRegex /\ regex).text = t
      BY DEF Field
    <3> QED
      BY <1>5, <2>2, <3>2, <3>3 DEF Narrowed
  <2>4. picked \subseteq DOMAIN includes /\ picked # {}
    BY <1>11
  <2>5. \A n \in DOMAIN order : order[n] \in picked
    BY <1>5, <2>4, OrderFacts
  <2>6. includes' = Picked(g, order)
    BY <2>1, <2>2, <2>4, <2>5 DEF Picked
  <2>7. \A i \in DOMAIN includes : i \in picked <=> Survives(includes[i], t, regex)
    OBVIOUS
  <2> HIDE DEF picked, g
  <2>8. /\ includes' \in Seq(Fields) /\ includes' # << >>
        /\ DOMAIN includes' = DOMAIN order
        /\ \A n \in DOMAIN includes' : order[n] \in picked /\ includes'[n] = g[order[n]]
        /\ \A i \in picked : \E n \in DOMAIN includes' : includes'[n] = g[i]
        /\ \A m, n \in DOMAIN includes' : order[m] = order[n] => m = n
    <3>1. \A i \in picked : g[i] \in Fields
      BY <2>3, <2>4
    <3>2. includes \in Seq(Fields) /\ picked \in SUBSET (DOMAIN includes)
      BY <1>5, <2>4
    <3> QED
      BY <2>4, <2>6, <3>1, <3>2, NarrowedList
  <2>9. ASSUME Current.op = "_eq", NEW i \in picked PROVE includes[i].text = t
    <3>1. ~regex
      BY <1>3, <2>9
    <3> QED
      BY <2>4, <2>7, <2>9, <3>1 DEF Survives
  <2>10. \A n \in DOMAIN includes' :
           /\ includes # << >> => \E i \in DOMAIN includes : includes'[n].text = includes[i].text
           /\ Literally(Current) => includes'[n].text \in Range(Current.value.texts)
    <3> SUFFICES ASSUME NEW n \in DOMAIN includes'
                 PROVE  /\ \E i \in DOMAIN includes : includes'[n].text = includes[i].text
                        /\ Literally(Current) => includes'[n].text \in Range(Current.value.texts)
      OBVIOUS
    <3>1. order[n] \in picked /\ order[n] \in DOMAIN includes /\ includes'[n].text = includes[order[n]].text
      BY <2>3, <2>4, <2>8
    <3> QED
      BY <1>2, <1>3, <2>9, <3>1
  <2>11. ASSUME LiteralRequest
         PROVE  /\ \A n \in DOMAIN includes' : ~includes'[n].isRegex
                /\ \A m, n \in DOMAIN includes' : includes'[m] = includes'[n] => m = n
                /\ \A tt \in Range(Current.value.texts) :
                     includes = << >> \/ Field(tt, FALSE) \in Range(includes) =>
                       \E n \in DOMAIN includes' : includes'[n] = Field(tt, FALSE)
    <3>1. Current.op = "_eq" /\ Range(Current.value.texts) = {t}
      BY <1>3, <1>6, <2>11
    <3>2. /\ \A n \in DOMAIN includes : ~includes[n].isRegex
          /\ \A m, n \in DOMAIN includes : includes[m] = includes[n] => m = n
      BY <1>1, <2>11 DEF IInv, ListHeld
    <3>3. ASSUME NEW i \in picked PROVE g[i] = includes[i] /\ ~includes[i].isRegex
      <4>1. includes[i] \in Fields /\ includes[i].text = t /\ ~includes[i].isRegex /\ i \in DOMAIN includes
        BY <1>5, <2>4, <2>9, <3>1, <3>2
      <4>2. includes[i] = Field(t, FALSE)
        BY <4>1, PlainField
      <4>3. g[i] = Field(t, includes[i].isRegex /\ regex)
        BY <2>2, <4>1 DEF Narrowed
      <4>4. (includes[i].isRegex /\ regex) = FALSE
        BY <4>1
      <4> QED
        BY <4>1, <4>2, <4>3, <4>4
    <3>4. \A n \in DOMAIN includes' : includes'[n] = includes[order[n]] /\ order[n] \in DOMAIN includes
      BY <2>4, <2>8, <3>3
    <3>5. \A m, n \in DOMAIN includes' : includes'[m] = includes'[n] => m = n
      BY <2>8, <3>2, <3>4
    <3>6. ASSUME includes = << >> \/ Field(t, FALSE) \in Range(includes)
          PROVE  \E n \in DOMAIN includes' : includes'[n] = Field(t, FALSE)
      <4>1. includes # << >>
        BY <2>4
      <4>2. PICK i \in DOMAIN includes : includes[i] = Field(t, FALSE)
        BY <3>6, <4>1 DEF Range
      <4>3. i \in picked
        BY <2>7, <4>2 DEF Survives, Field
      <4>4. g[i] = Field(t, FALSE)
        BY <3>3, <4>2, <4>3
      <4>5. PICK n \in DOMAIN includes' : includes'[n] = g[i]
        BY <2>8, <4>3
      <4> QED
        BY <4>4, <4>5
    <3> QED
      BY <3>1, <3>2, <3>4, <3>5, <3>6
  <2>12. IncludesHeld' /\ ListHeld'
    BY <1>1, <1>2, <1>11, <2>8, <2>10, <2>11, ListNext
  <2> QED
    BY <1>1, <1>2, <1>11, <2>8, <2>12, IncludeStep
<1> QED
  BY <1>7, <1>8, <1>9, <1>10, <1>11
-----------------------------------------------------------------------------
LEMMA ListedFacts ==
  ASSUME Current \in Comparisons
  PROVE  /\ Listed \in Seq(Fields) /\ DOMAIN Listed = DOMAIN Current.value.texts
         /\ \A n \in DOMAIN Listed : Listed[n] = Field(Current.value.texts[n], FALSE)
         /\ Range(Listed) = {Field(t, FALSE) : t \in Range(Current.value.texts)}
<1>1. Current.value.texts \in Seq(Texts)
  BY ComparisonType
<1>2. PICK k \in Nat : DOMAIN Current.value.texts = 1 .. k
  BY <1>1, SeqDomain
<1>3. \A n \in 1 .. k : Field(Current.value.texts[n], FALSE) \in Fields
  BY <1>1, <1>2, ElementType, FieldType
<1>4. /\ DOMAIN Listed = 1 .. k
      /\ \A n \in 1 .. k : Listed[n] = Field(Current.value.texts[n], FALSE)
  BY <1>2 DEF Listed
<1>5. Listed \in Seq(Fields)
  <2>1. Listed \in [1 .. k -> Fields]
    BY <1>2, <1>3 DEF Listed
  <2> QED
    BY <2>1
<1>6. Range(Listed) = {Field(t, FALSE) : t \in Range(Current.value.texts)}
  BY <1>2, <1>4 DEF Range
<1> QED
  BY <1>2, <1>4, <1>5, <1>6

LEMMA IncludeInIInv == ASSUME IInv, IncludeIn PROVE IInv'
<1> DEFINE both == {i \in DOMAIN includes : includes[i] \in Range(Listed)}
           texts == Range(Current.value.texts)
<1>1. /\ status = "compare" /\ at \in DOMAIN exprs /\ Current.value.kind = "given"
      /\ Current.op = "_in" /\ TypeOK /\ Current \in Comparisons /\ Going
  BY Looking DEF IncludeIn
<1>2. Includes(Current) /\ Literally(Current)
  BY <1>1 DEF Includes, IncludeOps, Literally
<1>3. /\ Listed \in Seq(Fields) /\ DOMAIN Listed = DOMAIN Current.value.texts
      /\ \A n \in DOMAIN Listed : Listed[n] = Field(Current.value.texts[n], FALSE)
      /\ Range(Listed) = {Field(t, FALSE) : t \in texts}
  BY <1>1, ListedFacts
<1>4. includes \in Seq(Fields)
  BY <1>1 DEF TypeOK
<1>5. \/ (Listed = << >> \/ (includes # << >> /\ both = {})) /\ Stop("empty")
      \/ /\ Listed # << >> /\ includes = << >> /\ includes' = Listed
         /\ Continue /\ excludes' = excludes
      \/ /\ includes # << >> /\ both # {} /\ Continue /\ excludes' = excludes
         /\ \E order \in Orders(both) :
              includes' = [n \in DOMAIN order |-> includes[order[n]]]
  BY DEF IncludeIn
<1>6. CASE (Listed = << >> \/ (includes # << >> /\ both = {})) /\ Stop("empty")
  <2>1. ASSUME LiteralRequest, NEW v \in Meant PROVE FALSE
    <3>1. v \in texts
      <4>1. v \in Means(Current)
        BY <1>1 DEF Meant, Current
      <4> QED
        BY <1>1, <1>2, <4>1, LiteralMeans
    <3>2. Field(v, FALSE) \in Range(Listed)
      BY <1>3, <3>1
    <3>3. Listed # << >>
      <4>1. DOMAIN Listed # {}
        BY <3>2 DEF Range
      <4>2. Listed = << >> => DOMAIN Listed = {}
        OBVIOUS
      <4> QED
        BY <4>1, <4>2
    <3>4. Field(v, FALSE) \in Range(includes)
      BY <1>1, <1>6, <2>1, <3>3, MeantIncluded DEF IInv
    <3> QED
      BY <1>6, <3>2, <3>3, <3>4 DEF Range
  <2> QED
    BY <1>1, <1>2, <1>6, <2>1, EmptyIInv
<1>7. CASE /\ Listed # << >> /\ includes = << >> /\ includes' = Listed
           /\ Continue /\ excludes' = excludes
  <2>1. \A n \in DOMAIN includes' : includes'[n].text \in texts /\ ~includes'[n].isRegex
    BY <1>3, <1>7 DEF Range, Field
  <2>2. ASSUME LiteralRequest
        PROVE  /\ \A n \in DOMAIN includes' : ~includes'[n].isRegex
               /\ \A m, n \in DOMAIN includes' : includes'[m] = includes'[n] => m = n
               /\ \A t \in texts :
                    includes = << >> \/ Field(t, FALSE) \in Range(includes) =>
                      \E n \in DOMAIN includes' : includes'[n] = Field(t, FALSE)
    <3>1. Distinct(Current)
      BY <1>1, <2>2 DEF LiteralRequest, Current
    <3>2. ASSUME NEW m \in DOMAIN includes', NEW n \in DOMAIN includes', includes'[m] = includes'[n]
          PROVE  m = n
      <4>1. includes' = Listed
        BY <1>7
      <4>2. m \in DOMAIN Listed /\ n \in DOMAIN Listed /\ Listed[m] = Listed[n]
        BY <3>2, <4>1
      <4>3. m \in DOMAIN Current.value.texts /\ n \in DOMAIN Current.value.texts
        BY <1>3, <4>2
      <4>4. Field(Current.value.texts[m], FALSE) = Field(Current.value.texts[n], FALSE)
        BY <1>3, <4>2
      <4>5. Current.value.texts[m] = Current.value.texts[n]
        BY <4>4 DEF Field
      <4> QED
        BY <3>1, <4>3, <4>5 DEF Distinct
    <3>3. \A t \in texts : \E n \in DOMAIN includes' : includes'[n] = Field(t, FALSE)
      BY <1>3, <1>7 DEF Range
    <3> QED
      BY <2>1, <3>2, <3>3
  <2>3. IncludesHeld' /\ ListHeld'
    BY <1>1, <1>2, <1>7, <2>1, <2>2, ListNext
  <2> QED
    BY <1>1, <1>2, <1>3, <1>7, <2>3, IncludeStep
<1>8. CASE /\ includes # << >> /\ both # {} /\ Continue /\ excludes' = excludes
           /\ \E order \in Orders(both) :
                includes' = [n \in DOMAIN order |-> includes[order[n]]]
  <2>1. PICK order \in Orders(both) : includes' = Picked(includes, order)
    BY <1>8 DEF Picked
  <2>2. /\ both \in SUBSET (DOMAIN includes) /\ both # {}
        /\ \A i \in DOMAIN includes : i \in both <=> includes[i] \in Range(Listed)
    BY <1>8
  <2> HIDE DEF both
  <2>3. \A i \in both : includes[i] \in Fields
    BY <1>4, <2>2, ElementType
  <2>4. /\ includes' \in Seq(Fields) /\ includes' # << >>
        /\ \A n \in DOMAIN includes' : order[n] \in both /\ includes'[n] = includes[order[n]]
        /\ \A i \in both : \E n \in DOMAIN includes' : includes'[n] = includes[i]
        /\ \A m, n \in DOMAIN includes' : order[m] = order[n] => m = n
    BY <1>4, <2>1, <2>2, <2>3, NarrowedList
  <2>5. \A n \in DOMAIN includes' :
          /\ includes # << >> => \E i \in DOMAIN includes : includes'[n].text = includes[i].text
          /\ Literally(Current) => includes'[n].text \in texts
    <3> SUFFICES ASSUME NEW n \in DOMAIN includes'
                 PROVE  /\ \E i \in DOMAIN includes : includes'[n].text = includes[i].text
                        /\ includes'[n].text \in texts
      OBVIOUS
    <3>1. order[n] \in DOMAIN includes /\ includes'[n] = includes[order[n]]
      BY <2>2, <2>4
    <3>2. includes[order[n]] \in Range(Listed)
      BY <2>2, <2>4
    <3>3. PICK t \in texts : includes[order[n]] = Field(t, FALSE)
      BY <1>3, <3>2
    <3>4. includes'[n].text = t
      BY <3>1, <3>3 DEF Field
    <3> QED
      BY <3>1, <3>4
  <2>6. ASSUME LiteralRequest
        PROVE  /\ \A n \in DOMAIN includes' : ~includes'[n].isRegex
               /\ \A m, n \in DOMAIN includes' : includes'[m] = includes'[n] => m = n
               /\ \A t \in texts :
                    includes = << >> \/ Field(t, FALSE) \in Range(includes) =>
                      \E n \in DOMAIN includes' : includes'[n] = Field(t, FALSE)
    <3>1. /\ \A n \in DOMAIN includes : ~includes[n].isRegex
          /\ \A m, n \in DOMAIN includes : includes[m] = includes[n] => m = n
      BY <1>1, <2>6 DEF IInv, ListHeld
    <3>2. \A n \in DOMAIN includes' : includes'[n] = includes[order[n]] /\ order[n] \in DOMAIN includes
      BY <2>2, <2>4
    <3>3. \A m, n \in DOMAIN includes' : includes'[m] = includes'[n] => m = n
      BY <2>4, <3>1, <3>2
    <3>4. ASSUME NEW t \in texts, includes = << >> \/ Field(t, FALSE) \in Range(includes)
          PROVE  \E n \in DOMAIN includes' : includes'[n] = Field(t, FALSE)
      <4>1. PICK i \in DOMAIN includes : includes[i] = Field(t, FALSE)
        BY <1>8, <3>4 DEF Range
      <4>2. Field(t, FALSE) \in Range(Listed)
        BY <1>3
      <4>3. i \in both
        BY <2>2, <4>1, <4>2
      <4>4. PICK n \in DOMAIN includes' : includes'[n] = includes[i]
        BY <2>4, <4>3
      <4> QED
        BY <4>1, <4>4
    <3> QED
      BY <3>1, <3>2, <3>3, <3>4
  <2>7. IncludesHeld' /\ ListHeld'
    BY <1>1, <1>2, <1>8, <2>4, <2>5, <2>6, ListNext
  <2> QED
    BY <1>1, <1>2, <1>8, <2>4, <2>7, IncludeStep
<1> QED
  BY <1>5, <1>6, <1>7, <1>8
-----------------------------------------------------------------------------
(* From the last comparison on, the list of values does not change.        *)
LEMMA WalkSteady ==
  ASSUME IInv, status \in {"compare", "combine"}, status = "compare" => at > Len(exprs),
         status' \in {"combine", "matcher"} \/ (status' = "empty" /\ rest'),
         UNCHANGED <<exprs, includes>>
  PROVE  IncludesHeld' /\ ListHeld' /\ AllExcluded' = AllExcluded /\ Passed' = DOMAIN exprs
<1>1. Going /\ Going' /\ TypeOK
  BY DEF IInv, Going
<1>2. Passed' = DOMAIN exprs
  BY DEF Passed
<1>3. Passed = DOMAIN exprs
  <2>1. CASE status = "combine"
    BY <2>1 DEF Passed
  <2>2. CASE status = "compare"
    <3>1. DOMAIN exprs = 1 .. Len(exprs) /\ Len(exprs) \in Nat
      BY <1>1, ExpressionType
    <3>2. at \in Nat \ {0}
      BY <1>1 DEF TypeOK
    <3>3. at > Len(exprs)
      BY <2>2
    <3>4. \A i \in DOMAIN exprs : i < at
      BY <3>1, <3>2, <3>3
    <3> QED
      BY <3>4 DEF Passed
  <2> QED
    BY <2>1, <2>2
<1>4. IncludesHeld'
  BY <1>1, <1>2, <1>3 DEF IInv, IncludesHeld
<1>5. ListHeld'
  BY <1>1, <1>2, <1>3, RequestSteady DEF IInv, ListHeld
<1>6. AllExcluded' = AllExcluded
  BY <1>2, <1>3 DEF AllExcluded
<1> QED
  BY <1>2, <1>4, <1>5, <1>6

LEMMA ComparisonsDoneIInv == ASSUME IInv, ComparisonsDone PROVE IInv'
<1>1. /\ status = "compare" /\ at > Len(exprs) /\ status' = "combine" /\ at' = 1
      /\ UNCHANGED <<exprs, includes, excludes, kept, rest>>
      /\ TypeOK /\ ~rest /\ Going
  BY DEF ComparisonsDone, IInv, KeptHeld, Going
<1>2. IncludesHeld' /\ ListHeld' /\ AllExcluded' = AllExcluded
  BY <1>1, WalkSteady
<1>3. kept = << >> /\ excludes = AllExcluded
  BY <1>1 DEF IInv, KeptHeld, ExcludesHeld
<1>4. TypeOK'
  <2>1. 1 \in Nat \ {0}
    OBVIOUS
  <2>2. at' \in Nat \ {0}
    BY <1>1, <2>1
  <2> QED
    BY <1>1, <2>2 DEF TypeOK
<1>5. includes \in Seq(Fields) /\ Len(includes) \in Nat /\ DOMAIN includes \subseteq Nat
      /\ DOMAIN includes = 1 .. Len(includes)
  <2>1. includes \in Seq(Fields)
    BY <1>1 DEF TypeOK
  <2> QED
    BY <2>1, SeqDomain
<1>6. at' <= Len(includes') + 1
  BY <1>1, <1>5
<1>7. Looked' = {}
  <2>1. \A n \in DOMAIN includes : ~ (n < 1)
    BY <1>5
  <2> QED
    BY <1>1, <2>1 DEF Looked
<1>8. Range(kept)' = {}
  BY <1>1, <1>3 DEF Range
<1>9. ExcludesHeld' /\ WalkHeld'
  BY <1>1, <1>2, <1>3, <1>7, <1>8 DEF ExcludesHeld, WalkHeld
<1>10. KeptHeld' /\ EmptyHeld'
  BY <1>1, <1>8 DEF KeptHeld, EmptyHeld
<1>11. status' = "all" <=> exprs' = << >>
  BY <1>1 DEF IInv
<1> QED
  BY <1>1, <1>2, <1>4, <1>6, <1>9, <1>10, <1>11 DEF IInv

(* The excluded values of a literal request are no patterns. *)
LEMMA ExcludedType ==
  ASSUME TypeOK
  PROVE  /\ AllExcluded \subseteq Fields
         /\ LiteralRequest => \A f \in AllExcluded : ~f.isRegex
<1> SUFFICES ASSUME NEW i \in Passed, NEW f \in Excluded(exprs[i])
             PROVE  f \in Fields /\ (LiteralRequest => ~f.isRegex)
  BY DEF AllExcluded
<1> DEFINE c == exprs[i]
<1>1. c \in Comparisons /\ i \in DOMAIN exprs /\ c.value.kind = "given"
  BY ExpressionType DEF Passed, Excluded
<1>2. CASE c.op = "_nregex"
  <2>1. f = Field(Pattern(c), TRUE) /\ ~LiteralRequest
    BY <1>1, <1>2 DEF Excluded, LiteralRequest
  <2>2. Pattern(c) \in Texts
    BY <1>1, <1>2, ScalarType DEF ScalarOps
  <2> QED
    BY <2>1, <2>2, FieldType
<1>3. CASE c.op # "_nregex"
  <2>1. PICK t \in Range(c.value.texts) : f = Field(t, FALSE)
    BY <1>1, <1>3 DEF Excluded
  <2>2. t \in Texts
    BY <1>1, ComparisonType
  <2> QED
    BY <2>1, <2>2, FieldType
<1> QED
  BY <1>2, <1>3

(* One included value more has been looked at. *)
LEMMA LookedNext ==
  ASSUME IInv, status = "combine", status' = "combine", at <= Len(includes),
         includes' = includes, at' = at + 1
  PROVE  /\ at \in DOMAIN includes /\ includes[at] \in Fields
         /\ Looked' = Looked \cup {at}
         /\ \A n \in Looked : n \in DOMAIN includes /\ n # at
         /\ at' \in Nat \ {0} /\ at' <= Len(includes') + 1
<1>1. includes \in Seq(Fields) /\ at \in Nat \ {0}
  BY DEF IInv, TypeOK
<1>2. DOMAIN includes = 1 .. Len(includes) /\ Len(includes) \in Nat
  BY <1>1, SeqDomain
<1>3. at \in DOMAIN includes /\ DOMAIN includes \subseteq Nat
  BY <1>1, <1>2
<1>4. Looked = {n \in DOMAIN includes : n < at} /\ Looked' = {n \in DOMAIN includes : n < at + 1}
  BY DEF Looked
<1>5. Looked' = Looked \cup {at} /\ \A n \in Looked : n \in DOMAIN includes /\ n # at
  BY <1>1, <1>3, <1>4
<1>6. at' \in Nat \ {0} /\ at' <= Len(includes') + 1
  BY <1>1, <1>2
<1> QED
  BY <1>1, <1>3, <1>5, <1>6, ElementType

LEMMA ExcludeIInv == ASSUME IInv, Exclude PROVE IInv'
<1>1. /\ status = "combine" /\ at <= Len(includes) /\ status' = "combine" /\ at' = at + 1
      /\ UNCHANGED <<exprs, includes, kept, rest>> /\ TypeOK /\ ~rest /\ Going
  BY DEF Exclude, IInv, KeptHeld, Going
<1>2. PICK exc \in excludes : Hits(exc, includes[at]) /\ excludes' = excludes \ {exc}
  BY DEF Exclude
<1>3. IncludesHeld' /\ ListHeld' /\ AllExcluded' = AllExcluded
  BY <1>1, WalkSteady
<1>4. /\ at \in DOMAIN includes /\ includes[at] \in Fields
      /\ Looked' = Looked \cup {at}
      /\ \A n \in Looked : n \in DOMAIN includes /\ n # at
      /\ at' \in Nat \ {0} /\ at' <= Len(includes') + 1
  BY <1>1, LookedNext
<1>5. TypeOK'
  BY <1>1, <1>2, <1>4 DEF TypeOK
<1>6. includes # << >>
  BY <1>4
<1>7. WalkHeld'
  <2> SUFFICES ASSUME LiteralRequest PROVE WalkHeld'
    BY <1>1, RequestSteady DEF WalkHeld
  <2>1. /\ excludes = AllExcluded \ {includes[n] : n \in Looked}
        /\ Range(kept) = {includes[n] : n \in Looked} \ AllExcluded
    BY <1>1 DEF IInv, WalkHeld
  <2>2. exc \in AllExcluded /\ ~exc.isRegex /\ exc \in Fields
    BY <1>1, <2>1, ExcludedType
  <2>3. ~includes[at].isRegex
    BY <1>1, <1>4 DEF IInv, ListHeld
  <2>4. includes[at].text = exc.text
    BY <1>2, <2>2 DEF Hits
  <2>5. includes[at] = exc
    BY <1>4, <2>2, <2>3, <2>4, PlainField
  <2>6. {includes[n] : n \in Looked'} = {includes[n] : n \in Looked} \cup {exc}
    BY <1>4, <2>5
  <2>7. excludes' = AllExcluded \ {includes[n] : n \in Looked'}
    BY <1>2, <2>1, <2>6
  <2>8. Range(kept) = {includes[n] : n \in Looked'} \ AllExcluded
    BY <2>1, <2>2, <2>6
  <2> QED
    BY <1>1, <1>3, <2>7, <2>8 DEF WalkHeld, Range
<1>8. ExcludesHeld' /\ EmptyHeld'
  BY <1>1, <1>6 DEF ExcludesHeld, EmptyHeld
<1>9. KeptHeld'
  BY <1>1 DEF IInv, KeptHeld, Range
<1>10. status' = "all" <=> exprs' = << >>
  BY <1>1 DEF IInv
<1> QED
  BY <1>1, <1>3, <1>4, <1>5, <1>7, <1>8, <1>9, <1>10 DEF IInv

LEMMA KeepIInv == ASSUME IInv, Keep PROVE IInv'
<1>1. /\ status = "combine" /\ at <= Len(includes) /\ status' = "combine" /\ at' = at + 1
      /\ \A exc \in excludes : ~Hits(exc, includes[at])
      /\ kept' = Append(kept, includes[at])
      /\ UNCHANGED <<exprs, includes, excludes, rest>> /\ TypeOK /\ ~rest /\ Going
  BY DEF Keep, IInv, KeptHeld, Going
<1>2. IncludesHeld' /\ ListHeld' /\ AllExcluded' = AllExcluded
  BY <1>1, WalkSteady
<1>3. /\ at \in DOMAIN includes /\ includes[at] \in Fields
      /\ Looked' = Looked \cup {at}
      /\ \A n \in Looked : n \in DOMAIN includes /\ n # at
      /\ at' \in Nat \ {0} /\ at' <= Len(includes') + 1
  BY <1>1, LookedNext
<1>4. kept \in Seq(Fields)
  BY <1>1 DEF TypeOK
<1>5. kept' \in Seq(Fields) /\ Range(kept)' = Range(kept) \cup {includes[at]}
  <2>1. /\ Append(kept, includes[at]) \in Seq(Fields)
        /\ DOMAIN Append(kept, includes[at]) = DOMAIN kept \cup {Len(kept) + 1}
        /\ \A n \in DOMAIN kept : Append(kept, includes[at])[n] = kept[n]
        /\ Append(kept, includes[at])[Len(kept) + 1] = includes[at]
    BY <1>3, <1>4
  <2> QED
    BY <1>1, <2>1 DEF Range
<1>6. TypeOK'
  BY <1>1, <1>3, <1>5 DEF TypeOK
<1>7. includes # << >>
  BY <1>3
<1>8. WalkHeld'
  <2> SUFFICES ASSUME LiteralRequest PROVE WalkHeld'
    BY <1>1, RequestSteady DEF WalkHeld
  <2>1. /\ excludes = AllExcluded \ {includes[n] : n \in Looked}
        /\ Range(kept) = {includes[n] : n \in Looked} \ AllExcluded
    BY <1>1 DEF IInv, WalkHeld
  <2>2. /\ \A n \in DOMAIN includes : ~includes[n].isRegex
        /\ \A m, n \in DOMAIN includes : includes[m] = includes[n] => m = n
    BY <1>1 DEF IInv, ListHeld
  <2>3. includes[at] \notin AllExcluded
    <3>1. SUFFICES ASSUME includes[at] \in AllExcluded PROVE FALSE
      OBVIOUS
    <3>2. \A n \in Looked : includes[n] # includes[at]
      BY <1>3, <2>2
    <3>3. includes[at] \in excludes
      BY <2>1, <3>1, <3>2
    <3>4. Hits(includes[at], includes[at])
      BY <1>3, <2>2 DEF Hits
    <3> QED
      BY <1>1, <3>3, <3>4
  <2>4. {includes[n] : n \in Looked'} = {includes[n] : n \in Looked} \cup {includes[at]}
    BY <1>3
  <2>5. excludes = AllExcluded \ {includes[n] : n \in Looked'}
    BY <2>1, <2>3, <2>4
  <2>6. Range(kept)' = {includes[n] : n \in Looked'} \ AllExcluded
    BY <1>5, <2>1, <2>3, <2>4
  <2> QED
    BY <1>1, <1>2, <2>5, <2>6 DEF WalkHeld
<1>9. ExcludesHeld' /\ EmptyHeld'
  BY <1>1, <1>7 DEF ExcludesHeld, EmptyHeld
<1>10. KeptHeld'
  <2>1. Range(kept) \subseteq Range(includes) /\ includes[at] \in Range(includes)
    BY <1>3 DEF IInv, KeptHeld, Range
  <2>2. Range(includes)' = Range(includes)
    BY <1>1 DEF Range
  <2> QED
    BY <1>1, <1>5, <2>1, <2>2 DEF KeptHeld
<1>11. status' = "all" <=> exprs' = << >>
  BY <1>1 DEF IInv
<1> QED
  BY <1>1, <1>2, <1>3, <1>6, <1>8, <1>9, <1>10, <1>11 DEF IInv

LEMMA FinishIInv == ASSUME IInv, Finish PROVE IInv'
<1> DEFINE nothing == kept = << >> /\ (includes # << >> \/ excludes = {})
<1>1. /\ status = "combine" /\ at > Len(includes)
      /\ status' = (IF nothing THEN "empty" ELSE "matcher") /\ rest' = nothing
      /\ UNCHANGED <<exprs, at, includes, excludes, kept>> /\ TypeOK /\ Going
  BY DEF Finish, IInv, Going
<1>2. status' \in {"empty", "matcher"} /\ (status' = "empty" <=> rest') /\ rest' \in BOOLEAN
  BY <1>1
<1>3. IncludesHeld' /\ ListHeld' /\ AllExcluded' = AllExcluded
  BY <1>1, <1>2, WalkSteady
<1>4. TypeOK'
  BY <1>1, <1>2 DEF TypeOK
<1>5. Looked = DOMAIN includes /\ Looked' = DOMAIN includes
  <2>1. includes \in Seq(Fields) /\ at \in Nat \ {0}
    BY <1>1 DEF TypeOK
  <2>2. DOMAIN includes = 1 .. Len(includes) /\ Len(includes) \in Nat
    BY <2>1, SeqDomain
  <2>3. \A n \in DOMAIN includes : n < at
    BY <1>1, <2>1, <2>2
  <2> QED
    BY <1>1, <1>2, <2>3 DEF Looked
<1>6. WalkHeld'
  <2> SUFFICES ASSUME LiteralRequest PROVE WalkHeld'
    BY <1>1, RequestSteady DEF WalkHeld
  <2>1. /\ excludes = AllExcluded \ {includes[n] : n \in Looked}
        /\ Range(kept) = {includes[n] : n \in Looked} \ AllExcluded
    BY <1>1 DEF IInv, WalkHeld
  <2> QED
    BY <1>1, <1>3, <1>5, <2>1 DEF WalkHeld, Range
<1>7. ExcludesHeld'
  <2>1. includes = << >> => excludes = AllExcluded
    BY <1>1 DEF IInv, ExcludesHeld
  <2> QED
    BY <1>1, <1>2, <1>3, <2>1 DEF ExcludesHeld
<1>8. KeptHeld'
  <2>1. Range(kept)' \subseteq Range(includes)'
    BY <1>1 DEF IInv, KeptHeld, Range
  <2>2. includes = << >> => kept = << >>
    <3>1. includes = << >> => Range(includes) = {}
      BY DEF Range
    <3>2. kept \in Seq(Fields) /\ Range(kept) \subseteq Range(includes)
      BY <1>1 DEF TypeOK, IInv, KeptHeld
    <3>3. Range(kept) = {} => DOMAIN kept = {}
      BY DEF Range
    <3> QED
      BY <3>1, <3>2, <3>3
  <2> QED
    BY <1>1, <1>2, <2>1, <2>2 DEF KeptHeld
<1>9. EmptyHeld'
  BY <1>2 DEF EmptyHeld
<1>10. status' = "all" <=> exprs' = << >>
  BY <1>1, <1>2 DEF IInv
<1> QED
  BY <1>1, <1>2, <1>3, <1>4, <1>6, <1>7, <1>8, <1>9, <1>10 DEF IInv

LEMMA StutterIInv == ASSUME IInv, UNCHANGED vars PROVE IInv'
<1>1. UNCHANGED <<exprs, at, includes, excludes, kept, status, rest>>
  BY DEF vars
<1>2. TypeOK'
  BY <1>1 DEF IInv, TypeOK
<1>3. /\ Going' <=> Going
      /\ Passed' = Passed /\ Looked' = Looked
      /\ Range(includes)' = Range(includes) /\ Range(kept)' = Range(kept)
      /\ LiteralRequest' <=> LiteralRequest
      /\ Meant' = Meant
  BY <1>1, RequestSteady DEF Going, Passed, Looked, Range
<1>4. AllExcluded' = AllExcluded
  BY <1>1, <1>3 DEF AllExcluded
<1>5. IncludesHeld' /\ ExcludesHeld' /\ KeptHeld'
  BY <1>1, <1>3, <1>4 DEF IInv, IncludesHeld, ExcludesHeld, KeptHeld
<1>6. ListHeld' /\ WalkHeld' /\ EmptyHeld'
  BY <1>1, <1>3, <1>4 DEF IInv, ListHeld, WalkHeld, EmptyHeld
<1> QED
  BY <1>1, <1>2, <1>5, <1>6 DEF IInv

LEMMA NextIInv == ASSUME IInv, Next PROVE IInv'
<1>1. CASE BadValue
  BY <1>1, BadValueIInv
<1>2. CASE NullValue
  BY <1>2, NullValueIInv
<1>3. CASE IncludeOne
  BY <1>3, IncludeOneIInv
<1>4. CASE IncludeIn
  BY <1>4, IncludeInIInv
<1>5. CASE ExcludeOne
  BY <1>5, ExcludeOneIInv
<1>6. CASE ExcludeIn
  BY <1>6, ExcludeInIInv
<1>7. CASE ComparisonsDone
  BY <1>7, ComparisonsDoneIInv
<1>8. CASE Exclude
  BY <1>8, ExcludeIInv
<1>9. CASE Keep
  BY <1>9, KeepIInv
<1>10. CASE Finish
  BY <1>10, FinishIInv
<1>11. CASE Done
  BY <1>11, StutterIInv DEF Done
<1> QED
  BY <1>1, <1>2, <1>3, <1>4, <1>5, <1>6, <1>7, <1>8, <1>9, <1>10, <1>11 DEF Next

(* The lists hold, at every step, what the comparisons looked at so far    *)
(* leave, and the walk over them has removed exactly what is excluded.     *)
THEOREM InductiveInvariant == Spec => []IInv
<1>1. IInv /\ [Next]_vars => IInv'
  BY NextIInv, StutterIInv
<1> QED
  BY InitIInv, <1>1, PTL DEF Spec

(* Every state is well formed. *)
THEOREM TypeCorrect == Spec => []TypeOK
<1>1. IInv => TypeOK
  BY DEF IInv
<1> QED
  BY InductiveInvariant, <1>1, PTL
-----------------------------------------------------------------------------
LEMMA PlainTexts ==
  ASSUME NEW c, Plain(c), NEW t \in Range(c.value.texts)
  PROVE  Full[t] = {t}
<1>1. PICK i \in DOMAIN c.value.texts : t = c.value.texts[i]
  BY DEF Range
<1> QED
  BY <1>1 DEF Plain

LEMMA NotEmpty == ASSUME NEW S, NEW q \in Seq(S), q # << >> PROVE DOMAIN q # {}
<1>1. DOMAIN q = 1 .. Len(q) /\ Len(q) \in Nat
  BY SeqDomain
<1>2. Len(q) # 0
  OBVIOUS
<1>3. 1 \in DOMAIN q
  BY <1>1, <1>2
<1> QED
  BY <1>3

LEMMA FullType == ASSUME NEW f \in Fields PROVE Full[f.text] \subseteq LabelValues
<1>1. Full \in [Texts -> SUBSET LabelValues] /\ f.text \in Texts
  BY LabelAssumption DEF Fields
<1> QED
  BY <1>1

LEMMA MatchedType ==
  ASSUME NEW fields \in SUBSET Fields
  PROVE  MatchedBy(fields) \subseteq LabelValues
BY FullType DEF MatchedBy

(* Values that select themselves match exactly themselves, however many    *)
(* there are of them.                                                      *)
LEMMA MatchedExactly ==
  ASSUME NEW fields \in SUBSET Fields,
         \A f \in fields : ~f.isRegex => Full[f.text] = {f.text}
  PROVE  MatchedBy(fields) = UNION {Full[f.text] : f \in fields}
<1>1. CASE \E f \in fields : fields = {f} /\ ~f.isRegex
  <2>1. PICK f \in fields : fields = {f} /\ ~f.isRegex
    BY <1>1
  <2>2. Full[f.text] = {f.text} /\ Full[f.text] \subseteq LabelValues
    BY <2>1, FullType
  <2>3. {h.text : h \in fields} = {f.text}
    BY <2>1
  <2>4. UNION {Full[h.text] : h \in fields} = Full[f.text]
    BY <2>1
  <2> QED
    BY <1>1, <2>2, <2>3, <2>4 DEF MatchedBy
<1>2. CASE ~ (\E f \in fields : fields = {f} /\ ~f.isRegex)
  BY <1>2 DEF MatchedBy
<1> QED
  BY <1>1, <1>2

(* What is selected when values are left. *)
LEMMA KeptSelected ==
  ASSUME status = "matcher", kept \in Seq(Fields), kept # << >>,
         \A f \in Range(kept) : ~f.isRegex => Full[f.text] = {f.text}
  PROVE  Selected = UNION {Full[f.text] : f \in Range(kept)}
<1>1. CASE Len(kept) = 1
  <2>1. DOMAIN kept = {1} /\ kept[1] \in Fields
    BY <1>1
  <2>2. Range(kept) = {kept[1]}
    BY <2>1 DEF Range
  <2>3. Selected = MatchedBy({kept[1]})
    BY <1>1 DEF Selected
  <2> QED
    BY <2>1, <2>2, <2>3, MatchedExactly
<1>2. CASE Len(kept) # 1
  BY <1>2 DEF Selected
<1> QED
  BY <1>1, <1>2

LEMMA RangeOfFields == ASSUME NEW q \in Seq(Fields) PROVE Range(q) \subseteq Fields
BY ElementType DEF Range

LEMMA SelectedType == ASSUME TypeOK, Finished PROVE Selected \subseteq LabelValues
<1>1. kept \in Seq(Fields) /\ excludes \in SUBSET Fields
  BY DEF TypeOK
<1>2. CASE status = "all" \/ status = "empty"
  BY <1>2 DEF Selected
<1>3. CASE status = "matcher" /\ kept = << >>
  BY <1>3 DEF Selected
<1>4. CASE status = "matcher" /\ kept # << >> /\ Len(kept) = 1
  <2>1. {kept[1]} \in SUBSET Fields
    BY <1>1, <1>4
  <2> QED
    BY <1>4, <2>1, MatchedType DEF Selected
<1>5. CASE status = "matcher" /\ kept # << >> /\ Len(kept) # 1
  <2>1. Range(kept) \subseteq Fields
    BY <1>1, RangeOfFields
  <2> QED
    BY <1>5, <2>1, FullType DEF Selected
<1> QED
  BY <1>2, <1>3, <1>4, <1>5 DEF Finished

LEMMA EqualityHeld == IInv => EqualityBinds
<1> SUFFICES ASSUME IInv, Finished, NEW i \in DOMAIN exprs,
                    exprs[i].op \in {"_eq", "_in"}, Plain(exprs[i])
             PROVE  Selected \subseteq Means(exprs[i])
  BY DEF EqualityBinds
<1> DEFINE c == exprs[i]
<1>1. TypeOK /\ c \in Comparisons
  BY ExpressionType DEF IInv
<1>2. CASE c.value.kind # "given"
  BY <1>1, <1>2, SelectedType DEF Means
<1>3. CASE c.value.kind = "given" /\ status = "empty"
  BY <1>3 DEF Selected
<1>4. CASE status = "all"
  <2>1. exprs = << >>
    BY <1>4 DEF IInv
  <2>2. DOMAIN exprs = {}
    BY <2>1
  <2> QED
    BY <2>2
<1>5. CASE c.value.kind = "given" /\ status = "matcher"
  <2>1. Going /\ Passed = DOMAIN exprs
    BY <1>5 DEF Going, Passed
  <2>2. Literally(c) /\ Includes(c)
    BY <1>5 DEF Literally, Includes, IncludeOps
  <2>3. /\ includes # << >>
        /\ \A n \in DOMAIN includes : includes[n].text \in Range(c.value.texts)
    BY <2>1, <2>2 DEF IInv, IncludesHeld
  <2>4. kept # << >> /\ Range(kept) \subseteq Range(includes) /\ kept \in Seq(Fields)
    BY <1>5, <2>3 DEF IInv, KeptHeld, TypeOK
  <2>5. \A f \in Range(kept) : f.text \in Range(c.value.texts)
    BY <2>3, <2>4 DEF Range
  <2>6. \A f \in Range(kept) : Full[f.text] = {f.text}
    BY <2>5, PlainTexts
  <2>7. Selected = UNION {Full[f.text] : f \in Range(kept)}
    BY <1>5, <2>4, <2>6, KeptSelected
  <2>8. Means(c) = Range(c.value.texts) \cap LabelValues
    BY <1>1, <2>2, LiteralMeans
  <2>9. Selected \subseteq LabelValues
    BY <1>1, SelectedType
  <2> QED
    BY <2>5, <2>6, <2>7, <2>8, <2>9
<1> QED
  BY <1>2, <1>3, <1>4, <1>5 DEF Finished

(* An equality or a list of plain values binds wherever it stands. *)
THEOREM EqualityAlwaysBinds == Spec => []EqualityBinds
BY InductiveInvariant, EqualityHeld, PTL
-----------------------------------------------------------------------------
(* A comparison that excludes leaves out what its excluded values match. *)
LEMMA ExcludingMeans ==
  ASSUME NEW c \in Comparisons, c.op \in {"_neq", "_nin", "_nregex"} \/ c.value.kind # "given",
         c.op # "_nregex" => Plain(c)
  PROVE  /\ Means(c) = LabelValues \ UNION {Full[f.text] : f \in Excluded(c)}
         /\ \A f \in Excluded(c) : ~f.isRegex => Full[f.text] = {f.text}
         /\ Excluded(c) \subseteq Fields
<1>1. CASE c.value.kind # "given"
  BY <1>1 DEF Means, Excluded
<1>2. CASE c.value.kind = "given" /\ c.op = "_nregex"
  <2>1. Excluded(c) = {Field(Pattern(c), TRUE)}
    BY <1>2 DEF Excluded
  <2>2. Means(c) = LabelValues \ Full[Pattern(c)]
    BY <1>2 DEF Means
  <2>3. Pattern(c) \in Texts
    BY <1>2, ScalarType DEF ScalarOps
  <2>4. /\ Field(Pattern(c), TRUE).text = Pattern(c) /\ Field(Pattern(c), TRUE).isRegex = TRUE
        /\ Field(Pattern(c), TRUE) \in Fields
    BY <2>3, FieldType
  <2> QED
    BY <2>1, <2>2, <2>4
<1>3. CASE c.value.kind = "given" /\ c.op \in {"_neq", "_nin"}
  <2>1. Excluded(c) = {Field(t, FALSE) : t \in Range(c.value.texts)}
    BY <1>3 DEF Excluded
  <2>2. Means(c) = LabelValues \ Range(c.value.texts)
    BY <1>3 DEF Means
  <2>3. \A t \in Range(c.value.texts) : Full[t] = {t} /\ t \in Texts
    BY <1>3, ComparisonType, PlainTexts
  <2>4. \A t \in Range(c.value.texts) :
          /\ Field(t, FALSE) \in Fields /\ Field(t, FALSE).text = t
          /\ ~Field(t, FALSE).isRegex
    BY <2>3, FieldType
  <2>5. \A f \in Excluded(c) :
          f \in Fields /\ ~f.isRegex /\ f.text \in Range(c.value.texts) /\ Full[f.text] = {f.text}
    <3> SUFFICES ASSUME NEW f \in Excluded(c)
                 PROVE  /\ f \in Fields /\ ~f.isRegex /\ f.text \in Range(c.value.texts)
                        /\ Full[f.text] = {f.text}
      OBVIOUS
    <3>1. PICK t \in Range(c.value.texts) : f = Field(t, FALSE)
      BY <2>1
    <3>2. f \in Fields /\ ~f.isRegex /\ f.text = t
      BY <2>4, <3>1
    <3> QED
      BY <2>3, <3>2
  <2>6. \A t \in Range(c.value.texts) : \E f \in Excluded(c) : f.text = t
    BY <2>1, <2>4
  <2> DEFINE U == UNION {Full[f.text] : f \in Excluded(c)}
  <2>7. U = Range(c.value.texts)
    <3>1. ASSUME NEW v \in U PROVE v \in Range(c.value.texts)
      <4>1. PICK f \in Excluded(c) : v \in Full[f.text]
        OBVIOUS
      <4>2. Full[f.text] = {f.text} /\ f.text \in Range(c.value.texts)
        BY <2>5
      <4> QED
        BY <4>1, <4>2
    <3>2. ASSUME NEW v \in Range(c.value.texts) PROVE v \in U
      <4>1. PICK f \in Excluded(c) : f.text = v
        BY <2>6
      <4>2. v \in Full[f.text]
        BY <2>5, <4>1
      <4> QED
        BY <4>2
    <3> QED
      BY <3>1, <3>2
  <2>8. Excluded(c) \subseteq Fields
    BY <2>5
  <2> QED
    BY <2>2, <2>5, <2>7, <2>8
<1> QED
  BY <1>1, <1>2, <1>3

(* A request that excludes only selects exactly what it leaves. *)
LEMMA ExcludedExact ==
  ASSUME IInv, status = "matcher", kept = << >>, includes = << >>,
         \A i \in DOMAIN exprs :
           /\ exprs[i].op \in {"_neq", "_nin", "_nregex"} \/ exprs[i].value.kind # "given"
           /\ exprs[i].op # "_nregex" => Plain(exprs[i])
  PROVE  Selected = Meant
<1>1. TypeOK /\ Going /\ Passed = DOMAIN exprs
  BY DEF IInv, Going, Passed
<1>2. excludes = AllExcluded
  BY <1>1 DEF IInv, ExcludesHeld
<1>3. \A i \in DOMAIN exprs :
        /\ Means(exprs[i]) = LabelValues \ UNION {Full[f.text] : f \in Excluded(exprs[i])}
        /\ \A f \in Excluded(exprs[i]) : ~f.isRegex => Full[f.text] = {f.text}
        /\ Excluded(exprs[i]) \subseteq Fields
  BY <1>1, ExpressionType, ExcludingMeans
<1>4. \A f : f \in AllExcluded <=> \E i \in DOMAIN exprs : f \in Excluded(exprs[i])
  BY <1>1 DEF AllExcluded
<1>5. MatchedBy(AllExcluded) = UNION {Full[f.text] : f \in AllExcluded}
  BY <1>3, <1>4, MatchedExactly
<1>6. Selected = LabelValues \ UNION {Full[f.text] : f \in AllExcluded}
  BY <1>2, <1>5 DEF Selected
<1>7. ASSUME NEW v \in LabelValues
      PROVE  v \in Meant <=> ~ \E f \in AllExcluded : v \in Full[f.text]
  BY <1>3, <1>4 DEF Meant
<1>8. Meant \subseteq LabelValues
  BY DEF Meant
<1> QED
  BY <1>6, <1>7, <1>8

LEMMA AllMeant == ASSUME IInv, status = "all" PROVE Selected = Meant
<1>1. exprs = << >>
  BY DEF IInv
<1>2. DOMAIN exprs = {}
  BY <1>1
<1> QED
  BY <1>2 DEF Selected, Meant

(* A comparison that constrains adds to what is included or excluded. *)
LEMMA Constraining ==
  ASSUME NEW c \in Comparisons, Constrains(c)
  PROVE  Includes(c) \/ Excluded(c) # {}
<1>1. c.value.kind = "given" /\ c.value.texts # << >> /\ c.value.texts \in Seq(Texts)
  BY ComparisonType DEF Constrains
<1>2. Range(c.value.texts) # {}
  <2>1. DOMAIN c.value.texts # {}
    BY <1>1, NotEmpty
  <2> QED
    BY <2>1 DEF Range
<1>3. CASE c.op \in IncludeOps
  BY <1>1, <1>3 DEF Includes
<1>4. CASE c.op = "_nregex"
  BY <1>1, <1>4 DEF Excluded
<1>5. CASE c.op \in {"_neq", "_nin"}
  BY <1>1, <1>2, <1>5 DEF Excluded
<1>6. c.op \in IncludeOps \cup {"_nregex", "_neq", "_nin"}
  BY ComparisonType DEF ListOps, ScalarOps, IncludeOps
<1> QED
  BY <1>3, <1>4, <1>5, <1>6

LEMMA ExclusionsHeld == IInv => ExclusionsExact
<1> SUFFICES ASSUME IInv, Finished,
                    \A i \in DOMAIN exprs : /\ exprs[i].op \in {"_neq", "_nin", "_nregex"}
                                            /\ exprs[i].op # "_nregex" => Plain(exprs[i]),
                    exprs # << >> => \E i \in DOMAIN exprs : Constrains(exprs[i])
             PROVE  Selected = Meant
  BY DEF ExclusionsExact
<1>1. TypeOK
  BY DEF IInv
<1>2. \A i \in DOMAIN exprs : ~Includes(exprs[i])
  BY OpsApart DEF Includes, IncludeOps
<1>3. CASE status = "matcher"
  <2>1. includes = << >>
    BY <1>2, <1>3 DEF IInv, IncludesHeld, Going, Passed
  <2>2. kept = << >>
    <3>1. Range(includes) = {} /\ Range(kept) \subseteq Range(includes) /\ kept \in Seq(Fields)
      BY <1>1, <2>1 DEF IInv, KeptHeld, Range, TypeOK
    <3>2. DOMAIN kept = {}
      BY <3>1 DEF Range
    <3> QED
      BY <3>1, <3>2
  <2> QED
    BY <1>3, <2>1, <2>2, ExcludedExact
<1>4. CASE status = "empty"
  <2>1. rest
    BY <1>2, <1>4 DEF IInv, EmptyHeld
  <2>2. Going /\ Passed = DOMAIN exprs
    BY <1>4, <2>1 DEF Going, Passed
  <2>3. includes = << >>
    BY <1>2, <2>2 DEF IInv, IncludesHeld
  <2>4. AllExcluded = {}
    <3>1. excludes = {}
      BY <2>1, <2>3 DEF IInv, KeptHeld
    <3> QED
      BY <2>2, <2>3, <3>1 DEF IInv, ExcludesHeld
  <2>5. exprs # << >>
    BY <1>4 DEF IInv
  <2>6. PICK i \in DOMAIN exprs : Constrains(exprs[i])
    BY <2>5
  <2>7. Excluded(exprs[i]) # {}
    BY <1>1, <1>2, <2>6, ExpressionType, Constraining
  <2>8. Excluded(exprs[i]) \subseteq AllExcluded
    BY <2>2 DEF AllExcluded
  <2> QED
    BY <2>4, <2>7, <2>8
<1> QED
  BY <1>3, <1>4, AllMeant DEF Finished

(* Exclusions alone, patterns among them, select exactly what they leave. *)
THEOREM ExclusionsAreExact == Spec => []ExclusionsExact
BY InductiveInvariant, ExclusionsHeld, PTL
-----------------------------------------------------------------------------
(* In a literal request, a value that all the comparisons mean is one of   *)
(* the included ones that no exclusion names, and nothing else is.         *)
LEMMA MeantIsIncluded ==
  ASSUME IInv, LiteralRequest, Going, Passed = DOMAIN exprs, includes # << >>,
         NEW v \in LabelValues
  PROVE  v \in Meant <=> Field(v, FALSE) \in Range(includes) \ AllExcluded
<1>1. TypeOK /\ v \in Texts
  BY LabelAssumption DEF IInv
<1>2. ASSUME v \in Meant, Field(v, FALSE) \in AllExcluded PROVE FALSE
  <2>1. PICK i \in DOMAIN exprs : Field(v, FALSE) \in Excluded(exprs[i])
    BY <1>2 DEF AllExcluded
  <2> DEFINE c == exprs[i]
  <2>2. c.op \in {"_eq", "_in", "_neq", "_nin"} /\ v \in Means(c) /\ c.value.kind = "given"
    BY <1>2, <2>1 DEF LiteralRequest, Meant, Excluded
  <2>3. c.op \in {"_neq", "_nin"} /\ Excluded(c) = {Field(t, FALSE) : t \in Range(c.value.texts)}
    BY <2>1, <2>2 DEF Excluded
  <2>4. v \in Range(c.value.texts)
    BY <2>1, <2>3 DEF Field
  <2>5. v \notin Range(c.value.texts)
    BY <2>2, <2>3 DEF Means
  <2> QED
    BY <2>4, <2>5
<1>3. ASSUME v \in Meant PROVE Field(v, FALSE) \in Range(includes)
  BY <1>1, <1>3, MeantIncluded DEF IInv
<1>4. ASSUME Field(v, FALSE) \in Range(includes), Field(v, FALSE) \notin AllExcluded
      PROVE  v \in Meant
  <2> SUFFICES ASSUME NEW i \in DOMAIN exprs PROVE v \in Means(exprs[i])
    BY DEF Meant
  <2> DEFINE c == exprs[i]
  <2>1. c \in Comparisons /\ c.op \in {"_eq", "_in", "_neq", "_nin"}
    BY <1>1, ExpressionType DEF LiteralRequest
  <2>2. CASE c.value.kind # "given"
    BY <2>2 DEF Means
  <2>3. CASE c.value.kind = "given" /\ c.op \in {"_eq", "_in"}
    <3>1. Literally(c)
      BY <2>3 DEF Literally
    <3>2. PICK n \in DOMAIN includes : includes[n] = Field(v, FALSE)
      BY <1>4 DEF Range
    <3>3. includes[n].text \in Range(c.value.texts)
      BY <3>1 DEF IInv, IncludesHeld
    <3>4. v \in Range(c.value.texts)
      BY <3>2, <3>3 DEF Field
    <3> QED
      BY <2>1, <3>1, <3>4, LiteralMeans
  <2>4. CASE c.value.kind = "given" /\ c.op \in {"_neq", "_nin"}
    <3>1. Excluded(c) = {Field(t, FALSE) : t \in Range(c.value.texts)}
      BY <2>4 DEF Excluded
    <3>2. Field(v, FALSE) \notin Excluded(c)
      BY <1>4 DEF AllExcluded
    <3>3. v \notin Range(c.value.texts)
      BY <3>1, <3>2
    <3> QED
      BY <2>4, <3>3 DEF Means
  <2> QED
    BY <2>1, <2>2, <2>3, <2>4
<1> QED
  BY <1>2, <1>3, <1>4

(* The included values of a literal request are plain. *)
LEMMA IncludedPlain ==
  ASSUME IInv, LiteralRequest, Going, Passed = DOMAIN exprs, NEW f \in Range(includes)
  PROVE  f = Field(f.text, FALSE) /\ Full[f.text] = {f.text}
<1>1. includes \in Seq(Fields)
  BY DEF IInv, TypeOK
<1>2. PICK n \in DOMAIN includes : f = includes[n]
  BY DEF Range
<1>3. f \in Fields /\ ~f.isRegex
  BY <1>1, <1>2, ElementType DEF IInv, ListHeld
<1>4. f = Field(f.text, FALSE)
  BY <1>3, PlainField
<1>5. includes # << >>
  <2>1. DOMAIN includes # {}
    BY <1>2
  <2>2. includes = << >> => DOMAIN includes = {}
    OBVIOUS
  <2> QED
    BY <2>1, <2>2
<1>6. PICK i \in DOMAIN exprs : Includes(exprs[i])
  BY <1>5 DEF IInv, IncludesHeld
<1>7. Literally(exprs[i]) /\ Plain(exprs[i])
  BY <1>6, OpsApart DEF LiteralRequest, Includes, IncludeOps, Literally
<1>8. f.text \in Range(exprs[i].value.texts)
  BY <1>2, <1>7 DEF IInv, IncludesHeld
<1> QED
  BY <1>4, <1>7, <1>8 DEF Plain, Range

LEMMA LiteralHeld == IInv => LiteralExact
<1> SUFFICES ASSUME IInv, Finished, LiteralRequest,
                    exprs # << >> => \E i \in DOMAIN exprs : Constrains(exprs[i])
             PROVE  Selected = Meant
  BY DEF LiteralExact, LiteralRequest
<1>1. TypeOK
  BY DEF IInv
<1>2. ASSUME Going, status \in {"matcher", "empty"}
      PROVE  /\ Passed = DOMAIN exprs /\ Looked = DOMAIN includes
             /\ Range(kept) = Range(includes) \ AllExcluded
  <2>1. Passed = DOMAIN exprs /\ Looked = DOMAIN includes
    BY <1>2 DEF Passed, Looked
  <2>2. Range(kept) = {includes[n] : n \in DOMAIN includes} \ AllExcluded
    BY <1>2, <2>1 DEF IInv, WalkHeld
  <2> QED
    BY <2>1, <2>2 DEF Range
<1>3. CASE status = "matcher"
  <2>1. Going /\ Passed = DOMAIN exprs /\ Range(kept) = Range(includes) \ AllExcluded
    BY <1>2, <1>3 DEF Going
  <2>2. CASE includes = << >>
    <3>1. \A i \in DOMAIN exprs : ~Includes(exprs[i])
      BY <2>1, <2>2 DEF IInv, IncludesHeld
    <3>2. \A i \in DOMAIN exprs :
            /\ exprs[i].op \in {"_neq", "_nin", "_nregex"} \/ exprs[i].value.kind # "given"
            /\ exprs[i].op # "_nregex" => Plain(exprs[i])
      BY <3>1 DEF LiteralRequest, Includes, IncludeOps
    <3>3. kept = << >>
      <4>1. Range(includes) = {} /\ kept \in Seq(Fields)
        BY <1>1, <2>2 DEF Range, TypeOK
      <4>2. DOMAIN kept = {}
        BY <2>1, <4>1 DEF Range
      <4> QED
        BY <4>1, <4>2
    <3> QED
      BY <1>3, <2>2, <3>2, <3>3, ExcludedExact
  <2>3. CASE includes # << >>
    <3>1. kept # << >> /\ kept \in Seq(Fields)
      BY <1>1, <1>3, <2>3 DEF IInv, KeptHeld, TypeOK
    <3>2. \A f \in Range(kept) : f = Field(f.text, FALSE) /\ Full[f.text] = {f.text}
      BY <2>1, IncludedPlain
    <3>3. Selected = UNION {Full[f.text] : f \in Range(kept)}
      BY <1>3, <3>1, <3>2, KeptSelected
    <3>4. Selected \subseteq LabelValues /\ Meant \subseteq LabelValues
      BY <1>1, SelectedType DEF Meant
    <3>5. ASSUME NEW v \in Selected PROVE v \in Meant
      <4>1. PICK f \in Range(kept) : v \in Full[f.text]
        BY <3>3
      <4>2. f = Field(v, FALSE)
        BY <3>2, <4>1
      <4> QED
        BY <2>1, <2>3, <3>4, <4>2, MeantIsIncluded
    <3>6. ASSUME NEW v \in Meant PROVE v \in Selected
      <4>1. Field(v, FALSE) \in Range(kept)
        BY <2>1, <2>3, <3>4, MeantIsIncluded
      <4>2. Field(v, FALSE).text = v
        BY DEF Field
      <4>3. v \in Full[Field(v, FALSE).text]
        BY <3>2, <4>1, <4>2
      <4> QED
        BY <3>3, <4>1, <4>3
    <3> QED
      BY <3>5, <3>6
  <2> QED
    BY <2>2, <2>3
<1>4. CASE status = "empty" /\ ~rest
  BY <1>4 DEF IInv, EmptyHeld, Selected
<1>5. CASE status = "empty" /\ rest
  <2>1. Going /\ Passed = DOMAIN exprs /\ Range(kept) = Range(includes) \ AllExcluded
    BY <1>2, <1>5 DEF Going
  <2>2. kept = << >> /\ (includes # << >> \/ excludes = {})
    BY <1>5 DEF IInv, KeptHeld
  <2>3. includes # << >>
    <3> SUFFICES ASSUME includes = << >> PROVE FALSE
      OBVIOUS
    <3>1. AllExcluded = {}
      BY <2>1, <2>2 DEF IInv, ExcludesHeld
    <3>2. \A i \in DOMAIN exprs : ~Includes(exprs[i])
      BY <2>1 DEF IInv, IncludesHeld
    <3>3. exprs # << >>
      BY <1>5 DEF IInv
    <3>4. PICK i \in DOMAIN exprs : Constrains(exprs[i])
      BY <3>3
    <3>5. Excluded(exprs[i]) # {}
      BY <1>1, <3>2, <3>4, ExpressionType, Constraining
    <3>6. Excluded(exprs[i]) \subseteq AllExcluded
      BY <2>1 DEF AllExcluded
    <3> QED
      BY <3>1, <3>5, <3>6
  <2>4. Range(kept) = {}
    BY <2>2 DEF Range
  <2>5. Meant = {}
    <3>1. \A v \in LabelValues : v \notin Meant
      BY <2>1, <2>3, <2>4, MeantIsIncluded
    <3> QED
      BY <3>1 DEF Meant
  <2> QED
    BY <1>5, <2>5 DEF Selected
<1> QED
  BY <1>3, <1>4, <1>5, AllMeant DEF Finished

(* Equalities, inequalities and lists of plain, distinct values select     *)
(* exactly the values that satisfy all of them, for any number of them and *)
(* any walk of the excluded ones.                                          *)
THEOREM LiteralsAreExact == Spec => []LiteralExact
BY InductiveInvariant, LiteralHeld, PTL
=============================================================================
