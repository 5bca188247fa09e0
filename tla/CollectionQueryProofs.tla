----------------------- MODULE CollectionQueryProofs -----------------------
(***************************************************************************)
(* Proofs about CollectionQuery for every set of requests: predicates,     *)
(* functions, labels, aggregates and groups in any number and order.       *)
(***************************************************************************)
EXTENDS CollectionQuery, FiniteSetTheorems, TLAPS

LEMMA ElementType == ASSUME NEW S, NEW q \in Seq(S), NEW i \in DOMAIN q PROVE q[i] \in S
OBVIOUS

LEMMA PrefixedType ==
  ASSUME NEW S, NEW x \in S, NEW q \in Seq(S)
  PROVE  <<x>> \in Seq(S) /\ <<x>> \o q \in Seq(S)
<1>1. <<x>> \in Seq(S)
  OBVIOUS
<1> QED
  BY <1>1

(* A pointer is nil or holds one value. *)
LEMMA PointerType ==
  ASSUME NEW S, NEW p \in Pointers(S)
  PROVE  p = << >> \/ (p = <<p[1]>> /\ p[1] \in S /\ DOMAIN p = {1} /\ p # << >>)
<1>1. p \in Seq(S) /\ Len(p) \in Nat /\ Len(p) <= 1 /\ DOMAIN p = 1 .. Len(p)
  BY DEF Pointers
<1>2. CASE Len(p) = 0
  BY <1>1, <1>2
<1>3. CASE Len(p) = 1
  <2>1. DOMAIN p = {1} /\ p[1] \in S /\ p # << >>
    BY <1>1, <1>3
  <2>2. <<p[1]>> \in Seq(S) /\ Len(<<p[1]>>) = 1 /\ <<p[1]>>[1] = p[1]
    BY <2>1
  <2>3. p = <<p[1]>>
    BY <1>1, <1>3, <2>1, <2>2
  <2> QED
    BY <2>1, <2>3
<1> QED
  BY <1>1, <1>2, <1>3

LEMMA NilPointer == ASSUME NEW S PROVE << >> \in Pointers(S)
BY DEF Pointers

LEMMA PointerTo == ASSUME NEW S, NEW x \in S PROVE <<x>> \in Pointers(S)
BY DEF Pointers

(* What the last layer of an expression is, and what the others are. *)
LEMMA AppendLayer ==
  ASSUME NEW q \in Seq(Layers), NEW l \in Layers
  PROVE  /\ Append(q, l) \in Seq(Layers)
         /\ Len(Append(q, l)) = Len(q) + 1 /\ Len(q) \in Nat
         /\ DOMAIN Append(q, l) = DOMAIN q \cup {Len(q) + 1}
         /\ DOMAIN q = 1 .. Len(q)
         /\ Len(q) + 1 \notin DOMAIN q
         /\ \A n \in DOMAIN q : Append(q, l)[n] = q[n]
         /\ Append(q, l)[Len(q) + 1] = l
OBVIOUS

LEMMA LayerType ==
  ASSUME NEW part \in Parts, NEW bracket \in {"none", "range", "subquery"}, NEW offset \in Nat
  PROVE  /\ Layer(part, bracket, offset) \in Layers
         /\ Layer(part, bracket, offset).part = part
         /\ Layer(part, bracket, offset).bracket = bracket
         /\ Layer(part, bracket, offset).offset = offset
BY DEF Layer, Layers

LEMMA RequestType ==
  ASSUME TypeOK
  PROVE  /\ request.kind \in Kinds /\ request.limited \in BOOLEAN
         /\ request.terms \in Seq(Terms) /\ request.offset \in Nat
         /\ request.quantile \in BOOLEAN /\ request.fns \in Seq(FunctionItems)
         /\ request.aggregates \subseteq AggregateKinds
         /\ AggregateKindsOf \subseteq AggregateKinds
         /\ GroupKinds \subseteq AggregateKinds
<1>1. request \in Request
  BY DEF TypeOK
<1>2. request.groups \in Pointers(SUBSET AggregateKinds)
  BY <1>1 DEF Request
<1>3. request.groups = << >> \/ request.groups[1] \in SUBSET AggregateKinds
  BY <1>2, PointerType
<1>4. GroupKinds \subseteq AggregateKinds
  BY <1>3 DEF GroupKinds, Grouped
<1> QED
  BY <1>1, <1>4 DEF Request, AggregateKindsOf

LEMMA TermType ==
  ASSUME TypeOK, NEW i \in DOMAIN request.terms
  PROVE  /\ request.terms[i] \in Terms
         /\ request.terms[i].column \in {"timestamp", "value", "aggregate", "other"}
         /\ request.terms[i].value \in Pointers(Nat)
         /\ request.terms[i].ok \in BOOLEAN
<1>1. request.terms[i] \in Terms
  BY RequestType, ElementType
<1> QED
  BY <1>1 DEF Terms

(* What depends on the request alone does not change with it. *)
LEMMA RequestSteady ==
  ASSUME request' = request
  PROVE  /\ \A ops : TermsOn(ops)' = TermsOn(ops)
         /\ ValueTerms' = ValueTerms
         /\ RequestFunctions' = RequestFunctions
         /\ LabelStops' = LabelStops
         /\ AggregateKindsOf' = AggregateKindsOf
         /\ GroupKinds' = GroupKinds
         /\ Expected' = Expected
         /\ BoundlessGroups' <=> BoundlessGroups
<1>1. /\ \A ops : TermsOn(ops)' = TermsOn(ops)
      /\ ValueTerms' = ValueTerms
      /\ RequestFunctions' = RequestFunctions
      /\ LabelStops' = LabelStops
      /\ AggregateKindsOf' = AggregateKindsOf
      /\ GroupKinds' = GroupKinds
  BY DEF TermsOn, ValueTerms, RequestFunctions, LabelStops, AggregateKindsOf,
         GroupKinds, Grouped
<1>2. PredicateRefused' <=> PredicateRefused
  BY <1>1 DEF PredicateRefused
<1>3. CompilationRefused' <=> CompilationRefused
  BY <1>1 DEF CompilationRefused
<1>4. \A ops : Meant(ops)' = Meant(ops)
  BY <1>1 DEF Meant
<1>5. (Lower \cup Upper)' = Lower \cup Upper
  BY <1>4 DEF Lower, Upper
<1>6. Expected' = Expected
  BY <1>1, <1>2, <1>3 DEF Expected
<1>7. BoundlessGroups' <=> BoundlessGroups
  BY <1>1, <1>5 DEF BoundlessGroups
<1> QED
  BY <1>1, <1>6, <1>7

(* Nor does what depends on the functions. *)
LEMMA FunctionsSteady ==
  ASSUME functions' = functions, request' = request
  PROVE  /\ HasRangeVectorFunction' <=> HasRangeVectorFunction
         /\ Selector' = Selector
         /\ FunctionsFit' <=> FunctionsFit
         /\ InputsFit' <=> InputsFit
<1>1. HasRangeVectorFunction' <=> HasRangeVectorFunction
  BY DEF HasRangeVectorFunction
<1>2. Selector' = Selector
  BY <1>1 DEF Selector
<1>3. FunctionsFit' <=> FunctionsFit
  BY <1>1 DEF FunctionsFit
<1>4. InputsFit' <=> InputsFit
  BY <1>1 DEF InputsFit
<1> QED
  BY <1>1, <1>2, <1>3, <1>4
-----------------------------------------------------------------------------
LEMMA InitIInv == Init => IInv
<1> SUFFICES ASSUME Init PROVE IInv
  OBVIOUS
<1>1. request \in Request
  BY CollectionAssumption DEF Init
<1>2. TypeOK
  <2>1. time \in [{"timestamp", "start", "end"} -> Pointers(Nat)]
    <3>1. << >> \in Pointers(Nat)
      BY NilPointer
    <3> QED
      BY <3>1 DEF Init
  <2>2. << >> \in Pointers(Terms) /\ << >> \in Pointers([start : Nat, end : Nat])
    BY NilPointer
  <2>3. value \in Pointers(Terms) /\ range \in Pointers([start : Nat, end : Nat])
    BY <2>2 DEF Init
  <2>4. << >> \in Seq(FunctionItems) /\ << >> \in Seq(Layers)
    OBVIOUS
  <2>5. functions \in Seq(FunctionItems) /\ query \in Seq(Layers)
    BY <2>4 DEF Init
  <2>6. calls = {} /\ pos = 1 /\ offsetUsed = FALSE
    BY DEF Init
  <2>7. pos \in Nat \ {0} /\ calls \subseteq Calls
    BY <2>6
  <2>8. offsetUsed \in BOOLEAN /\ stage = "limit" /\ outcome = ""
    BY <2>6 DEF Init
  <2> QED
    BY <1>1, <2>1, <2>3, <2>5, <2>7, <2>8 DEF TypeOK
<1>3. stage = "limit" /\ outcome = ""
  BY DEF Init
<1>4. /\ PredicateHeld /\ ArgumentsHeld /\ LabelsHeld /\ ValueChecked /\ FunctionsHeld
      /\ QueryBuilt /\ RowsHeld /\ Ended
  BY <1>3 DEF Active, Past, Sending, Compiling, Building, PredicateHeld, ArgumentsHeld,
              LabelsHeld, ValueChecked, FunctionsHeld, QueryBuilt, RowsHeld, Ended
<1>5. CallsSent
  BY <1>3 DEF Init, CallsSent, Past, Sending
<1> QED
  BY <1>2, <1>4, <1>5 DEF Init, IInv

(* A request that ends before anything is sent, as it should. *)
LEMMA EndIInv ==
  ASSUME IInv, stage # "done", NEW how \in {"refused", "empty"}, End(how), Expected = how,
         calls = {}, calls' = calls,
         UNCHANGED <<request, pos, time, value, range, functions, offsetUsed, query>>
  PROVE  IInv'
<1>1. stage' = "done" /\ outcome' = how
  BY DEF End
<1>2. TypeOK'
  BY <1>1 DEF IInv, TypeOK
<1>3. /\ PredicateHeld' /\ ArgumentsHeld' /\ LabelsHeld' /\ ValueChecked' /\ FunctionsHeld'
      /\ QueryBuilt' /\ RowsHeld'
  BY <1>1 DEF Active, Past, Sending, Compiling, Building, PredicateHeld, ArgumentsHeld,
              LabelsHeld, ValueChecked, FunctionsHeld, QueryBuilt, RowsHeld
<1>4. Ended'
  BY <1>1, RequestSteady DEF Ended
<1>5. CallsSent'
  BY <1>1 DEF CallsSent, Past, Sending
<1> QED
  BY <1>1, <1>2, <1>3, <1>4, <1>5 DEF IInv

LEMMA RefuseIInv ==
  ASSUME IInv, Refuse, stage # "done", Expected = "refused", calls = {}
  PROVE  IInv'
BY EndIInv DEF Refuse, compiled

LEMMA NothingSent ==
  ASSUME IInv, stage \notin Sending, stage # "done"
  PROVE  calls = {} /\ outcome = ""
BY DEF IInv, TypeOK, CallsSent, Past

LEMMA DispatchIInv == ASSUME IInv, Dispatch PROVE IInv'
<1>1. stage = "limit" /\ calls = {} /\ outcome = ""
  BY NothingSent DEF Dispatch, Sending
<1>2. CASE request.limited
  <2>1. End("empty") /\ Expected = "empty"
    BY <1>2 DEF Dispatch, Expected
  <2> QED
    BY <1>1, <2>1, EndIInv DEF Dispatch, compiled
<1>3. CASE ~request.limited /\ request.kind = "unknown"
  <2>1. End("refused") /\ Expected = "refused"
    BY <1>3 DEF Dispatch, Expected, PredicateRefused
  <2> QED
    BY <1>1, <2>1, EndIInv DEF Dispatch, compiled
<1>4. CASE ~request.limited /\ request.kind # "unknown"
  <2>1. stage' = "predicate" /\ outcome' = ""
    BY <1>1, <1>4 DEF Dispatch, Goto
  <2>2. UNCHANGED <<request, pos, time, value, range, functions, offsetUsed, query, calls>>
    BY DEF Dispatch, compiled
  <2>3. /\ pos = 1 /\ ~offsetUsed /\ value = << >>
        /\ \A f \in {"timestamp", "start", "end"} : time[f] = << >>
    BY <1>1 DEF IInv
  <2>4. TypeOK'
    BY <2>1, <2>2 DEF IInv, TypeOK
  <2>5. Read' = {}
    <3>1. \A i \in DOMAIN request.terms : ~ (i < 1)
      BY RequestType DEF IInv
    <3> QED
      BY <3>1, <2>1, <2>2, <2>3 DEF Read
  <2>6. PredicateHeld'
    <3>1. TermsFit' /\ ValueHeld'
      BY <2>2, <2>3, <2>5 DEF TermsFit, ValueHeld
    <3>2. ASSUME NEW f \in {"timestamp", "start", "end"}, NEW ops PROVE FieldHeld(f, ops)'
      BY <2>2, <2>3, <2>5 DEF FieldHeld
    <3> QED
      BY <3>1, <3>2, <1>4, <2>2 DEF PredicateHeld
  <2>7. /\ ArgumentsHeld' /\ LabelsHeld' /\ ValueChecked' /\ FunctionsHeld'
        /\ QueryBuilt' /\ RowsHeld' /\ Ended'
    BY <2>1, <2>2, <2>3 DEF Past, Sending, Compiling, Building, ArgumentsHeld,
                LabelsHeld, ValueChecked, FunctionsHeld, QueryBuilt, RowsHeld, Ended
  <2>8. CallsSent'
    BY <1>1, <2>1, <2>2 DEF CallsSent, Past, Sending
  <2> QED
    BY <2>1, <2>4, <2>6, <2>7, <2>8 DEF IInv
<1> QED
  BY <1>2, <1>3, <1>4
-----------------------------------------------------------------------------
(* The predicate. *)
LEMMA TwoValues ==
  ASSUME TypeOK, NEW i \in ValueTerms, NEW j \in ValueTerms, i # j
  PROVE  Cardinality(ValueTerms) > 1
<1>1. IsFiniteSet(ValueTerms)
  <2>1. DOMAIN request.terms = 1 .. Len(request.terms) /\ Len(request.terms) \in Nat
    BY RequestType
  <2>2. IsFiniteSet(1 .. Len(request.terms))
    BY <2>1, FS_Interval
  <2>3. ValueTerms \subseteq 1 .. Len(request.terms)
    BY <2>1 DEF ValueTerms
  <2> QED
    BY <2>2, <2>3, FS_Subset
<1>2. IsFiniteSet({i}) /\ Cardinality({i}) = 1
  BY FS_Singleton
<1>3. Cardinality({i} \cup {j}) = 2
  <2>1. j \notin {i}
    OBVIOUS
  <2> QED
    BY <1>2, <2>1, FS_AddElement
<1>4. Cardinality({i} \cup {j}) <= Cardinality(ValueTerms)
  <2>1. {i} \cup {j} \subseteq ValueTerms
    OBVIOUS
  <2> QED
    BY <1>1, <2>1, FS_Subset
<1>5. Cardinality(ValueTerms) \in Nat
  BY <1>1, FS_CardinalityType
<1> QED
  BY <1>3, <1>4, <1>5

(* One term more has been read. *)
LEMMA ReadNext ==
  ASSUME TypeOK, stage = "predicate", stage' = "predicate", pos \in DOMAIN request.terms,
         request' = request, pos' = pos + 1
  PROVE  /\ Read' = Read \cup {pos}
         /\ \A i \in Read : i < pos /\ i \in Nat
         /\ pos \in Nat /\ pos \notin Read
<1>1. DOMAIN request.terms \subseteq Nat
  BY RequestType
<1>2. Read = {i \in DOMAIN request.terms : i < pos}
  BY DEF Read
<1>3. Read' = {i \in DOMAIN request.terms : i < pos + 1}
  BY DEF Read
<1> QED
  BY <1>1, <1>2, <1>3

(* A field is set by a term of its operators, and by no other one. *)
LEMMA FieldStep ==
  ASSUME TypeOK, stage = "predicate", stage' = "predicate", pos \in DOMAIN request.terms,
         request' = request, pos' = pos + 1,
         NEW field, NEW ops, FieldHeld(field, ops),
         pos \in TermsOn(ops) => time[field] = << >> /\ time'[field] = Term.value,
         pos \notin TermsOn(ops) => time'[field] = time[field]
  PROVE  FieldHeld(field, ops)'
<1> DEFINE on == TermsOn(ops) \cap Read
<1>1. /\ Read' = Read \cup {pos} /\ pos \in Nat /\ pos \notin Read
      /\ \A i \in Read : i < pos /\ i \in Nat
  BY ReadNext
<1>2. TermsOn(ops)' = TermsOn(ops)
  BY RequestSteady
<1>3. FieldHeld(field, ops)' <=>
        /\ \A i, j \in TermsOn(ops) \cap Read' : i < j => request.terms[i].value = << >>
        /\ IF time'[field] = << >>
           THEN \A i \in TermsOn(ops) \cap Read' : request.terms[i].value = << >>
           ELSE \E i \in TermsOn(ops) \cap Read' : request.terms[i].value = time'[field]
  BY <1>2 DEF FieldHeld
<1>4. FieldHeld(field, ops) <=>
        /\ \A i, j \in on : i < j => request.terms[i].value = << >>
        /\ IF time[field] = << >> THEN \A i \in on : request.terms[i].value = << >>
           ELSE \E i \in on : request.terms[i].value = time[field]
  BY DEF FieldHeld
<1>5. CASE pos \in TermsOn(ops)
  <2>1. TermsOn(ops) \cap Read' = on \cup {pos}
    BY <1>1, <1>5
  <2>2. time[field] = << >> /\ time'[field] = request.terms[pos].value
    BY <1>5 DEF Term
  <2>3. \A i \in on : request.terms[i].value = << >>
    BY <1>4, <2>2
  <2>4. \A i, j \in on \cup {pos} : i < j => i \in on
    BY <1>1
  <2> QED
    BY <1>3, <2>1, <2>2, <2>3, <2>4
<1>6. CASE pos \notin TermsOn(ops)
  <2>1. TermsOn(ops) \cap Read' = on
    BY <1>1, <1>6
  <2> QED
    BY <1>3, <1>4, <1>6, <2>1
<1> QED
  BY <1>5, <1>6

(* A term that is not refused: what the other stages rely on does not      *)
(* matter yet.                                                             *)
LEMMA TermStep ==
  ASSUME IInv, stage = "predicate", pos \in DOMAIN request.terms, pos' = pos + 1,
         UNCHANGED <<request, stage, outcome, range, functions, offsetUsed, query, calls>>,
         PredicateHeld', value' \in Pointers(Terms),
         time' \in [{"timestamp", "start", "end"} -> Pointers(Nat)]
  PROVE  IInv'
<1>1. stage' = "predicate" /\ outcome = "" /\ outcome' = ""
  BY DEF IInv, TypeOK
<1>2. TypeOK'
  <2>1. pos' \in Nat \ {0}
    <3>1. pos \in Nat \ {0}
      BY DEF IInv, TypeOK
    <3> QED
      BY <3>1
  <2>2. /\ request' \in Request /\ range' \in Pointers([start : Nat, end : Nat])
        /\ functions' \in Seq(FunctionItems) /\ query' \in Seq(Layers)
        /\ offsetUsed' \in BOOLEAN /\ calls' \subseteq Calls
    BY DEF IInv, TypeOK
  <2> QED
    BY <1>1, <2>1, <2>2 DEF TypeOK
<1>3. /\ ArgumentsHeld' /\ LabelsHeld' /\ ValueChecked' /\ FunctionsHeld' /\ RowsHeld' /\ Ended'
  BY <1>1 DEF Past, Sending, Compiling, Building, ArgumentsHeld,
              LabelsHeld, ValueChecked, FunctionsHeld, RowsHeld, Ended
<1>4. QueryBuilt' /\ CallsSent'
  BY <1>1 DEF IInv, QueryBuilt, CallsSent, Past, Active, Building, Compiling, Sending
<1> QED
  BY <1>1, <1>2, <1>3, <1>4 DEF IInv

LEMMA RefusedPredicate ==
  ASSUME ~request.limited, PredicateRefused PROVE Expected = "refused"
BY DEF Expected

LEMMA EvalTimestampIInv == ASSUME IInv, EvalTimestamp PROVE IInv'
<1> DEFINE f == FieldOf(Term.op)
<1>1. /\ stage = "predicate" /\ pos \in DOMAIN request.terms /\ Term.column = "timestamp"
      /\ calls = {} /\ outcome = "" /\ Active /\ ~request.limited
  BY NothingSent DEF EvalTimestamp, AtTerm, Sending, Active, IInv, PredicateHeld
<1>2. Term.value \in Pointers(Nat)
  BY <1>1, TermType DEF IInv, Term
<1>3. f \in {"timestamp", "start", "end"}
  BY DEF FieldOf
<1>4. CASE Term.op \in TimeOps /\ time[f] = << >> /\ Term.ok
  <2>1. /\ time' = [time EXCEPT ![f] = Term.value] /\ pos' = pos + 1
        /\ UNCHANGED <<request, stage, outcome, value, range, functions, offsetUsed, query, calls>>
    BY <1>4 DEF EvalTimestamp, compiled
  <2>2. time \in [{"timestamp", "start", "end"} -> Pointers(Nat)] /\ value \in Pointers(Terms)
    BY DEF IInv, TypeOK
  <2>3. /\ time' \in [{"timestamp", "start", "end"} -> Pointers(Nat)]
        /\ time'[f] = Term.value
        /\ \A g \in {"timestamp", "start", "end"} : g # f => time'[g] = time[g]
    BY <1>2, <1>3, <2>1, <2>2
  <2>4. TypeOK /\ stage' = "predicate" /\ PredicateHeld
    BY <1>1, <2>1 DEF IInv
  <2>5. /\ TermsFit /\ ValueHeld /\ FieldHeld("timestamp", {"_eq"})
        /\ FieldHeld("end", {"_lt", "_lte"}) /\ FieldHeld("start", {"_gt", "_gte"})
    BY <1>1, <2>4 DEF PredicateHeld
  <2>6. /\ pos \in TermsOn({"_eq"}) <=> f = "timestamp"
        /\ pos \in TermsOn({"_lt", "_lte"}) <=> f = "end"
        /\ pos \in TermsOn({"_gt", "_gte"}) <=> f = "start"
    BY <1>1, <1>4 DEF TermsOn, FieldOf, Term, TimeOps
  <2>7. FieldHeld("timestamp", {"_eq"})'
    BY <1>1, <1>4, <2>1, <2>3, <2>4, <2>5, <2>6, FieldStep
  <2>8. FieldHeld("end", {"_lt", "_lte"})'
    BY <1>1, <1>4, <2>1, <2>3, <2>4, <2>5, <2>6, FieldStep
  <2>9. FieldHeld("start", {"_gt", "_gte"})'
    BY <1>1, <1>4, <2>1, <2>3, <2>4, <2>5, <2>6, FieldStep
  <2>10. Read' = Read \cup {pos} /\ pos \notin Read
    BY <1>1, <2>1, <2>4, ReadNext
  <2>11. TermsFit'
    BY <1>1, <1>4, <2>1, <2>5, <2>10 DEF TermsFit, Term
  <2>12. ValueHeld'
    <3>1. pos \notin ValueTerms
      BY <1>1 DEF ValueTerms, Term
    <3>2. ValueTerms' = ValueTerms /\ ValueTerms \cap Read' = ValueTerms \cap Read
      BY <2>1, <2>10, <3>1, RequestSteady
    <3> QED
      BY <2>1, <2>5, <2>10, <3>2 DEF ValueHeld
  <2>13. PredicateHeld'
    BY <1>1, <2>1, <2>4, <2>7, <2>8, <2>9, <2>11, <2>12 DEF PredicateHeld
  <2> QED
    BY <1>1, <2>1, <2>2, <2>3, <2>13, TermStep
<1>5. CASE ~ (Term.op \in TimeOps /\ time[f] = << >> /\ Term.ok)
  <2>1. Refuse
    BY <1>5 DEF EvalTimestamp
  <2>2. CASE Term.op \notin TimeOps \/ ~Term.ok
    <3>1. PredicateRefused
      BY <1>1, <2>2 DEF PredicateRefused, Term
    <3> QED
      BY <1>1, <2>1, <3>1, RefusedPredicate, RefuseIInv
  <2>3. CASE Term.op \in TimeOps /\ time[f] # << >>
    <3>1. PICK ops \in {{"_eq"}, {"_lt", "_lte"}, {"_gt", "_gte"}} :
            FieldHeld(f, ops) /\ Term.op \in ops
      BY <1>1, <2>3 DEF FieldOf, TimeOps, IInv, PredicateHeld
    <3>2. PICK i \in TermsOn(ops) \cap Read : request.terms[i].value = time[f]
      BY <2>3, <3>1 DEF FieldHeld
    <3>3. i < pos
      BY <1>1 DEF Read
    <3>4. pos \in TermsOn(ops)
      BY <1>1, <3>1 DEF TermsOn, Term
    <3>5. PredicateRefused
      BY <2>3, <3>1, <3>2, <3>3, <3>4 DEF PredicateRefused
    <3> QED
      BY <1>1, <2>1, <3>5, RefusedPredicate, RefuseIInv
  <2> QED
    BY <1>5, <2>2, <2>3
<1> QED
  BY <1>4, <1>5

LEMMA EvalValueIInv == ASSUME IInv, EvalValue PROVE IInv'
<1>1. /\ stage = "predicate" /\ pos \in DOMAIN request.terms /\ Term.column = "value"
      /\ calls = {} /\ outcome = "" /\ Active /\ ~request.limited
  BY NothingSent DEF EvalValue, AtTerm, Sending, Active, IInv, PredicateHeld
<1>2. TypeOK /\ PredicateHeld
  BY DEF IInv
<1>3. pos \in ValueTerms
  BY <1>1 DEF ValueTerms, Term
<1>4. CASE value = << >>
  <2>1. /\ value' = <<Term>> /\ pos' = pos + 1
        /\ UNCHANGED <<request, stage, outcome, time, range, functions, offsetUsed, query, calls>>
    BY <1>4 DEF EvalValue, compiled
  <2>2. time \in [{"timestamp", "start", "end"} -> Pointers(Nat)]
    BY DEF IInv, TypeOK
  <2>3. <<Term>> \in Pointers(Terms)
    <3>1. Term \in Terms
      BY <1>1, <1>2, TermType DEF Term
    <3> QED
      BY <3>1, PointerTo
  <2>4. stage' = "predicate"
    BY <1>1, <2>1
  <2>5. /\ TermsFit /\ ValueHeld /\ FieldHeld("timestamp", {"_eq"})
        /\ FieldHeld("end", {"_lt", "_lte"}) /\ FieldHeld("start", {"_gt", "_gte"})
    BY <1>1, <1>2 DEF PredicateHeld
  <2>6. \A ops : pos \notin TermsOn(ops)
    BY <1>1 DEF TermsOn, Term
  <2>7. /\ FieldHeld("timestamp", {"_eq"})' /\ FieldHeld("end", {"_lt", "_lte"})'
        /\ FieldHeld("start", {"_gt", "_gte"})'
    BY <1>1, <1>2, <2>1, <2>4, <2>5, <2>6, FieldStep
  <2>8. Read' = Read \cup {pos} /\ pos \notin Read
    BY <1>1, <1>2, <2>1, <2>4, ReadNext
  <2>9. TermsFit'
    BY <1>1, <2>1, <2>5, <2>8 DEF TermsFit, Term
  <2>10. ValueHeld'
    <3>1. ValueTerms \cap Read = {}
      BY <1>4, <2>5 DEF ValueHeld
    <3>2. ValueTerms' = ValueTerms /\ ValueTerms \cap Read' = {pos}
      BY <1>3, <2>1, <2>8, <3>1, RequestSteady
    <3>3. value' = <<request'.terms[pos]>> /\ value' # << >>
      BY <2>1 DEF Term
    <3> QED
      BY <2>8, <3>2, <3>3 DEF ValueHeld
  <2>11. PredicateHeld'
    BY <1>1, <1>2, <2>1, <2>7, <2>9, <2>10 DEF PredicateHeld
  <2> QED
    BY <1>1, <2>1, <2>2, <2>3, <2>11, TermStep
<1>5. CASE value # << >>
  <2>1. Refuse
    BY <1>5 DEF EvalValue
  <2>2. PICK i \in Read : ValueTerms \cap Read = {i}
    BY <1>1, <1>2, <1>5 DEF PredicateHeld, ValueHeld
  <2>3. i # pos
    <3>1. i < pos
      BY <1>1 DEF Read
    <3>2. pos \in Nat
      BY <1>2 DEF TypeOK
    <3> QED
      BY <3>1, <3>2
  <2>4. Cardinality(ValueTerms) > 1
    BY <1>2, <1>3, <2>2, <2>3, TwoValues
  <2>5. PredicateRefused
    BY <2>4 DEF PredicateRefused
  <2> QED
    BY <1>1, <2>1, <2>5, RefusedPredicate, RefuseIInv
<1> QED
  BY <1>4, <1>5

LEMMA EvalAggregateIInv == ASSUME IInv, EvalAggregate PROVE IInv'
<1>1. /\ stage = "predicate" /\ pos \in DOMAIN request.terms /\ Term.column = "aggregate"
      /\ outcome = "" /\ Active
  BY NothingSent DEF EvalAggregate, AtTerm, Sending, Active
<1>2. TypeOK /\ PredicateHeld
  BY DEF IInv
<1>3. /\ pos' = pos + 1
      /\ UNCHANGED <<request, stage, outcome, time, value, range, functions, offsetUsed,
                     query, calls>>
  BY DEF EvalAggregate, compiled
<1>4. /\ time \in [{"timestamp", "start", "end"} -> Pointers(Nat)]
      /\ value \in Pointers(Terms)
  BY <1>2 DEF TypeOK
<1>5. stage' = "predicate"
  BY <1>1, <1>3
<1>6. /\ TermsFit /\ ValueHeld /\ FieldHeld("timestamp", {"_eq"})
      /\ FieldHeld("end", {"_lt", "_lte"}) /\ FieldHeld("start", {"_gt", "_gte"})
  BY <1>1, <1>2 DEF PredicateHeld
<1>7. \A ops : pos \notin TermsOn(ops)
  BY <1>1 DEF TermsOn, Term
<1>8. /\ FieldHeld("timestamp", {"_eq"})' /\ FieldHeld("end", {"_lt", "_lte"})'
      /\ FieldHeld("start", {"_gt", "_gte"})'
  BY <1>1, <1>2, <1>3, <1>5, <1>6, <1>7, FieldStep
<1>9. Read' = Read \cup {pos} /\ pos \notin Read
  BY <1>1, <1>2, <1>3, <1>5, ReadNext
<1>10. TermsFit'
  BY <1>1, <1>3, <1>6, <1>9 DEF TermsFit, Term
<1>11. ValueHeld'
  <2>1. pos \notin ValueTerms
    BY <1>1 DEF ValueTerms, Term
  <2>2. ValueTerms' = ValueTerms /\ ValueTerms \cap Read' = ValueTerms \cap Read
    BY <1>3, <1>9, <2>1, RequestSteady
  <2> QED
    BY <1>3, <1>6, <1>9, <2>2 DEF ValueHeld
<1>12. PredicateHeld'
  BY <1>1, <1>2, <1>3, <1>8, <1>10, <1>11 DEF PredicateHeld
<1> QED
  BY <1>1, <1>3, <1>4, <1>12, TermStep

LEMMA EvalOtherIInv == ASSUME IInv, EvalOther PROVE IInv'
<1>1. /\ stage = "predicate" /\ pos \in DOMAIN request.terms /\ Term.column = "other"
      /\ calls = {} /\ ~request.limited
  BY NothingSent DEF EvalOther, AtTerm, Sending, Active, IInv, PredicateHeld
<1>2. PredicateRefused
  BY <1>1 DEF PredicateRefused, Term
<1> QED
  BY <1>1, <1>2, RefusedPredicate, RefuseIInv DEF EvalOther

LEMMA EvalArgumentsIInv == ASSUME IInv, EvalArguments PROVE IInv'
<1>1. /\ stage = "predicate" /\ pos \notin DOMAIN request.terms
      /\ calls = {} /\ outcome = "" /\ Active /\ ~request.limited /\ request.kind # "unknown"
  BY NothingSent DEF EvalArguments, Sending, Active, IInv, PredicateHeld
<1>2. TypeOK /\ PredicateHeld
  BY DEF IInv
<1> DEFINE bad == "argument" \in request.flaws \/ (request.kind = "quantile" /\ ~request.quantile)
<1>3. CASE bad
  <2>1. PredicateRefused
    BY <1>3 DEF PredicateRefused
  <2>2. Refuse
    BY <1>3 DEF EvalArguments
  <2> QED
    BY <1>1, <2>1, <2>2, RefusedPredicate, RefuseIInv
<1>4. CASE ~bad
  <2>1. /\ stage' = "labels" /\ outcome' = "" /\ range' = RangeOfTime
        /\ functions' = RequestFunctions
        /\ UNCHANGED <<request, pos, time, value, offsetUsed, query, calls>>
    BY <1>1, <1>4 DEF EvalArguments, Goto
  <2>2. RangeOfTime \in Pointers([start : Nat, end : Nat])
    <3>1. time["start"] \in Pointers(Nat) /\ time["end"] \in Pointers(Nat)
      BY <1>2 DEF TypeOK
    <3>2. NewRange(time["start"], time["end"]) \in [start : Nat, end : Nat]
      <4>1. time["start"] # << >> => time["start"][1] \in Nat
        BY <3>1, PointerType
      <4>2. time["end"] # << >> => time["end"][1] \in Nat
        BY <3>1, PointerType
      <4> QED
        BY <4>1, <4>2, CollectionAssumption DEF NewRange, Zero
    <3>3. <<NewRange(time["start"], time["end"])>> \in Pointers([start : Nat, end : Nat])
      BY <3>2, PointerTo
    <3>4. << >> \in Pointers([start : Nat, end : Nat])
      BY NilPointer
    <3> QED
      BY <3>3, <3>4 DEF RangeOfTime
  <2>3. RequestFunctions \in Seq(FunctionItems)
    <3>1. StepFunction \in FunctionItems
      BY DEF StepFunction, FunctionItems
    <3>2. request.fns \in Seq(FunctionItems)
      BY <1>2, RequestType
    <3>3. /\ <<StepFunction>> \in Seq(FunctionItems)
          /\ <<StepFunction>> \o request.fns \in Seq(FunctionItems)
      BY <3>1, <3>2, PrefixedType
    <3> QED
      BY <3>2, <3>3 DEF RequestFunctions
  <2>4. TypeOK'
    BY <1>1, <1>2, <2>1, <2>2, <2>3 DEF TypeOK
  <2>5. Read' = Read
    <3>1. pos \in Nat \ {0}
      BY <1>2 DEF TypeOK
    <3>2. DOMAIN request.terms = 1 .. Len(request.terms) /\ Len(request.terms) \in Nat
      <4>1. request.terms \in Seq(Terms)
        BY <1>2, RequestType
      <4> QED
        BY <4>1
    <3>3. ASSUME NEW i \in DOMAIN request.terms PROVE i < pos
      <4>1. pos \notin DOMAIN request.terms
        BY <1>1
      <4> QED
        BY <3>1, <3>2, <4>1
    <3> QED
      BY <2>1, <3>3 DEF Read
  <2>6. PredicateHeld'
    <3>1. \A ops : TermsOn(ops)' = TermsOn(ops)
      BY <2>1, RequestSteady
    <3>2. ASSUME NEW f, NEW ops, FieldHeld(f, ops) PROVE FieldHeld(f, ops)'
      BY <2>1, <2>5, <3>1, <3>2 DEF FieldHeld
    <3>3. TermsFit /\ ValueHeld => TermsFit' /\ ValueHeld'
      BY <2>1, <2>5, RequestSteady DEF TermsFit, ValueHeld
    <3> QED
      BY <1>1, <1>2, <2>1, <3>2, <3>3 DEF PredicateHeld
  <2>7. ArgumentsHeld'
    <3>1. RangeOfTime' = RangeOfTime /\ RequestFunctions' = RequestFunctions
      BY <2>1, RequestSteady DEF RangeOfTime
    <3> QED
      BY <1>4, <2>1, <3>1 DEF ArgumentsHeld
  <2>8. /\ LabelsHeld' /\ ValueChecked' /\ FunctionsHeld' /\ RowsHeld' /\ Ended'
    BY <2>1 DEF Past, Sending, Compiling, Building, LabelsHeld, ValueChecked,
                FunctionsHeld, RowsHeld, Ended
  <2>9. QueryBuilt' /\ CallsSent'
    BY <1>1, <2>1 DEF IInv, QueryBuilt, CallsSent, Past, Building, Compiling, Sending
  <2> QED
    BY <2>1, <2>4, <2>6, <2>7, <2>8, <2>9 DEF IInv
<1> QED
  BY <1>3, <1>4
-----------------------------------------------------------------------------
(* After the predicate, what it was read into does not change. *)
LEMMA LaterSteady ==
  ASSUME IInv, stage \in {"labels"} \cup Building, stage' \notin {"predicate", "limit"},
         UNCHANGED <<request, time, value, range, functions>>
  PROVE  /\ PredicateHeld' /\ ArgumentsHeld'
         /\ stage \in Building => LabelsHeld'
         /\ stage \in Compiling => ValueChecked'
         /\ stage \in Sending => RowsHeld'
<1>1. outcome = "" /\ Active /\ stage # "predicate"
  BY DEF IInv, TypeOK, Active, Building, Compiling, Sending
<1>2. PredicateHeld'
  <2>1. Read' = Read
    BY <1>1 DEF Read
  <2>2. \A ops : TermsOn(ops)' = TermsOn(ops)
    BY RequestSteady
  <2>3. ASSUME NEW f, NEW ops, FieldHeld(f, ops) PROVE FieldHeld(f, ops)'
    BY <2>1, <2>2, <2>3 DEF FieldHeld
  <2>4. TermsFit /\ ValueHeld => TermsFit' /\ ValueHeld'
    BY <2>1, RequestSteady DEF TermsFit, ValueHeld
  <2>5. PredicateHeld
    BY DEF IInv
  <2> QED
    BY <1>1, <2>3, <2>4, <2>5 DEF PredicateHeld
<1>3. ArgumentsHeld'
  <2>1. RangeOfTime' = RangeOfTime /\ RequestFunctions' = RequestFunctions
    BY RequestSteady DEF RangeOfTime
  <2>2. ArgumentsHeld /\ Past({"labels"} \cup Building)
    BY DEF IInv, Past
  <2> QED
    BY <2>1, <2>2 DEF ArgumentsHeld
<1>4. ASSUME stage \in Building PROVE LabelsHeld'
  <2>1. LabelStops' = LabelStops
    BY RequestSteady
  <2> QED
    BY <1>4, <2>1 DEF IInv, LabelsHeld, Past
<1>5. ASSUME stage \in Compiling PROVE ValueChecked'
  BY <1>5 DEF IInv, ValueChecked, Past, HasCondition
<1>6. ASSUME stage \in Sending PROVE RowsHeld'
  <2>1. AggregateKindsOf' = AggregateKindsOf /\ GroupKinds' = GroupKinds
    BY RequestSteady
  <2> QED
    BY <1>6, <2>1 DEF IInv, RowsHeld, Past
<1> QED
  BY <1>2, <1>3, <1>4, <1>5, <1>6

(* The predicate is not refused when it has been read. *)
LEMMA NotRefused ==
  ASSUME IInv, stage \in {"labels"} \cup Building
  PROVE  /\ ~request.limited /\ ~PredicateRefused
         /\ outcome = "" /\ Active /\ Read = DOMAIN request.terms
         /\ calls = {} \/ stage \in Sending
<1>1. outcome = "" /\ Active /\ stage # "predicate" /\ stage # "done"
  BY DEF IInv, TypeOK, Active, Building, Compiling, Sending
<1>2. Read = DOMAIN request.terms
  BY <1>1 DEF Read
<1>3. PredicateHeld /\ ArgumentsHeld /\ Past({"labels"} \cup Building) /\ TypeOK
  BY DEF IInv, Past
<1>4. request.kind # "unknown" /\ ~request.limited
  BY <1>1, <1>3 DEF PredicateHeld
<1>5. \A i \in DOMAIN request.terms :
        /\ request.terms[i].column # "other"
        /\ request.terms[i].column = "timestamp" =>
             request.terms[i].op \in TimeOps /\ request.terms[i].ok
  BY <1>1, <1>2, <1>3 DEF PredicateHeld, TermsFit
<1>6. ASSUME NEW ops \in {{"_eq"}, {"_lt", "_lte"}, {"_gt", "_gte"}},
             NEW i \in TermsOn(ops), NEW j \in TermsOn(ops), i < j
      PROVE  request.terms[i].value = << >>
  <2>1. PICK field : FieldHeld(field, ops)
    BY <1>1, <1>3 DEF PredicateHeld
  <2>2. TermsOn(ops) \cap Read = TermsOn(ops)
    BY <1>2 DEF TermsOn
  <2> QED
    BY <1>6, <2>1, <2>2 DEF FieldHeld
<1>7. ~ (Cardinality(ValueTerms) > 1)
  <2>1. ValueTerms = {} \/ \E i \in Read : ValueTerms = {i}
    <3>1. ValueTerms \cap Read = ValueTerms
      BY <1>2 DEF ValueTerms
    <3> QED
      BY <1>1, <1>3, <3>1 DEF PredicateHeld, ValueHeld
  <2>2. Cardinality(ValueTerms) = 0 \/ Cardinality(ValueTerms) = 1
    BY <2>1, FS_EmptySet, FS_Singleton
  <2> QED
    BY <2>2
<1>8. "argument" \notin request.flaws /\ (request.kind = "quantile" => request.quantile)
  BY <1>3 DEF ArgumentsHeld
<1>9. ~PredicateRefused
  BY <1>4, <1>5, <1>6, <1>7, <1>8 DEF PredicateRefused
<1>10. calls = {} \/ stage \in Sending
  BY <1>1, NothingSent
<1> QED
  BY <1>1, <1>2, <1>4, <1>9, <1>10

LEMMA SelectorType ==
  ASSUME TypeOK
  PROVE  /\ Selector \in Layers
         /\ Selector.part = "select" /\ Selector.bracket = "none"
         /\ Selector.offset = IF HasRangeVectorFunction THEN 0 ELSE request.offset
<1>1. "select" \in Parts /\ request.offset \in Nat
  BY RequestType DEF Parts
<1>2. (IF HasRangeVectorFunction THEN 0 ELSE request.offset) \in Nat
  BY <1>1
<1> QED
  BY <1>1, <1>2, LayerType DEF Selector

LEMMA BuildPredicateIInv == ASSUME IInv, BuildPredicate PROVE IInv'
<1>1. /\ stage = "labels" /\ outcome = "" /\ calls = {} /\ TypeOK
      /\ ~request.limited /\ ~PredicateRefused
  BY NotRefused DEF BuildPredicate, IInv, Sending
<1>2. CASE LabelStops # {}
  <2> DEFINE how == IF request.labels[Min(LabelStops)] = "empty" THEN "empty" ELSE "refused"
  <2>1. Expected = how
    BY <1>1, <1>2 DEF Expected
  <2>2. End(how) /\ UNCHANGED <<request, pos, time, value, range, functions, offsetUsed, query, calls>>
    BY <1>2 DEF BuildPredicate, LabelStops
  <2> QED
    BY <1>1, <2>1, <2>2, EndIInv
<1>3. CASE LabelStops = {}
  <2>1. /\ stage' = "value" /\ outcome' = "" /\ query' = <<Selector>>
        /\ UNCHANGED <<request, pos, time, value, range, functions, offsetUsed, calls>>
    BY <1>1, <1>3 DEF BuildPredicate, LabelStops, Goto
  <2>2. <<Selector>> \in Seq(Layers)
    <3>1. Selector \in Layers
      BY <1>1, SelectorType
    <3> QED
      BY <3>1
  <2>3. TypeOK'
    BY <1>1, <2>1, <2>2 DEF TypeOK
  <2>4. PredicateHeld' /\ ArgumentsHeld'
    BY <1>1, <2>1, LaterSteady
  <2>5. LabelsHeld'
    <3>1. LabelStops' = LabelStops
      BY <2>1, RequestSteady
    <3> QED
      BY <1>3, <3>1 DEF LabelsHeld
  <2>6. ValueChecked' /\ FunctionsHeld' /\ RowsHeld' /\ Ended'
    BY <2>1 DEF Past, Sending, Compiling, ValueChecked, FunctionsHeld, RowsHeld, Ended
  <2>7. CallsSent'
    BY <1>1, <2>1 DEF CallsSent, Past, Sending
  <2>8. QueryBuilt'
    <3>1. Past(Building)' /\ (HasRangeVectorFunction' <=> HasRangeVectorFunction)
      BY <2>1 DEF Past, Building, HasRangeVectorFunction
    <3>2. DOMAIN query' = {1} /\ query'[1] = Selector /\ query' # << >> /\ Len(query') = 1
      <4>1. query' = <<Selector>>
        BY <2>1
      <4> QED
        BY <4>1
    <3>3. Selector' = Selector
      BY <2>1, <3>1 DEF Selector
    <3>4. offsetUsed' = FALSE
      BY <1>1, <2>1 DEF IInv, TypeOK, QueryBuilt, Past, Building, Compiling, Sending, Active
    <3>5. Compiled' = {}
      BY <2>1 DEF Compiled
    <3>6. OffsetPlaced'
      <4>1. request'.offset \in Nat /\ request' = request
        BY <1>1, <2>1, RequestType
      <4>2. Offsets(query') = IF Selector.offset > 0 THEN {1} ELSE {}
        BY <3>2 DEF Offsets
      <4>3. Offsets(query)' = Offsets(query')
        BY DEF Offsets
      <4>4. /\ Selector.offset = IF HasRangeVectorFunction THEN 0 ELSE request.offset
            /\ query'[1].part = "select"
        BY <1>1, <3>2, SelectorType
      <4>5. Offsets(query)' = {1} => query'[1].offset = Selector.offset
        BY <3>2
      <4> QED
        BY <3>1, <3>2, <3>4, <3>5, <4>1, <4>2, <4>3, <4>4, <4>5 DEF OffsetPlaced
    <3>7. RangesPlaced'
      <4>1. query'[1].bracket = "none"
        BY <1>1, <3>2, SelectorType
      <4> QED
        BY <3>2, <3>5, <4>1 DEF RangesPlaced
    <3>8. ValuePlaced'
      BY <1>1, <2>1, <3>2, SelectorType DEF ValuePlaced
    <3> QED
      BY <3>1, <3>2, <3>3, <3>6, <3>7, <3>8 DEF QueryBuilt
  <2> QED
    BY <2>1, <2>3, <2>4, <2>5, <2>6, <2>7, <2>8 DEF IInv
<1> QED
  BY <1>2, <1>3

LEMMA CheckValueIInv == ASSUME IInv, CheckValue PROVE IInv'
<1>1. /\ stage = "value" /\ outcome = "" /\ calls = {} /\ TypeOK /\ Active
      /\ ~request.limited /\ ~PredicateRefused /\ Read = DOMAIN request.terms
  BY NotRefused DEF CheckValue, IInv, Sending, Building
<1>2. LabelStops = {}
  BY <1>1 DEF IInv, LabelsHeld, Past, Building
<1> DEFINE bad == (value # << >> /\ ~value[1].ok) \/ (HasCondition /\ value[1].op \notin ValueOps)
<1>3. CASE bad
  <2>1. Refuse
    BY <1>3 DEF CheckValue
  <2>2. PICK i \in Read : value = <<request.terms[i]>> /\ ValueTerms \cap Read = {i}
    BY <1>1, <1>3 DEF IInv, PredicateHeld, ValueHeld, HasCondition
  <2>3. i \in ValueTerms /\ value[1] = request.terms[i]
    BY <2>2
  <2>4. CompilationRefused
    BY <1>3, <2>3 DEF CompilationRefused, HasCondition
  <2>5. Expected = "refused"
    BY <1>1, <1>2, <2>4 DEF Expected
  <2> QED
    BY <1>1, <2>1, <2>5, RefuseIInv
<1>4. CASE ~bad
  <2>1. /\ stage' = "functions" /\ outcome' = "" /\ pos' = 1
        /\ UNCHANGED <<request, time, value, range, functions, offsetUsed, query, calls>>
    BY <1>1, <1>4 DEF CheckValue, Goto, compiled
  <2>2. TypeOK'
    <3>1. 1 \in Nat \ {0}
      OBVIOUS
    <3>2. pos' \in Nat \ {0} /\ stage' = "functions" /\ outcome' = ""
      BY <2>1, <3>1
    <3>3. UNCHANGED <<request, time, value, range, functions, offsetUsed, query, calls>>
      BY <2>1
    <3> QED
      BY <1>1, <3>2, <3>3 DEF TypeOK
  <2>3. PredicateHeld' /\ ArgumentsHeld' /\ LabelsHeld'
    BY <1>1, <2>1, LaterSteady DEF Building
  <2>4. ValueChecked'
    BY <1>4, <2>1 DEF ValueChecked, HasCondition
  <2>5. RowsHeld' /\ Ended' /\ CallsSent'
    BY <1>1, <2>1 DEF Past, Sending, RowsHeld, Ended, CallsSent
  <2>6. Compiled' = {} /\ Compiled = {}
    <3>1. functions \in Seq(FunctionItems)
      BY <1>1 DEF TypeOK
    <3>2. \A i \in DOMAIN functions : ~ (i < 1)
      BY <3>1
    <3> QED
      BY <1>1, <2>1, <3>2 DEF Compiled
  <2>7. FunctionsHeld'
    BY <2>6 DEF FunctionsHeld
  <2>8. QueryBuilt'
    <3>1. Past(Building) /\ Past(Building)'
      BY <1>1, <2>1 DEF Past, Building, Compiling
    <3>2. query # << >> /\ query[1] = Selector /\ OffsetPlaced /\ RangesPlaced /\ ValuePlaced
      BY <3>1 DEF IInv, QueryBuilt
    <3>3. HasRangeVectorFunction' <=> HasRangeVectorFunction
      BY <2>1 DEF HasRangeVectorFunction
    <3>4. Selector' = Selector
      BY <2>1, <3>3 DEF Selector
    <3>5. OffsetPlaced'
      BY <2>1, <2>6, <3>2, <3>3 DEF OffsetPlaced, Offsets
    <3>6. (FunctionsFit' <=> FunctionsFit) /\ (InputsFit' <=> InputsFit)
      BY <2>1, FunctionsSteady
    <3>7. RangesPlaced'
      BY <1>1, <2>1, <2>6, <3>2, <3>3, <3>6 DEF RangesPlaced
    <3>8. ValuePlaced'
      BY <1>1, <2>1, <3>2 DEF ValuePlaced
    <3> QED
      BY <2>1, <3>1, <3>2, <3>4, <3>5, <3>7, <3>8 DEF QueryBuilt
  <2> QED
    BY <2>1, <2>2, <2>3, <2>4, <2>5, <2>7, <2>8 DEF IInv
<1> QED
  BY <1>3, <1>4
-----------------------------------------------------------------------------
(* The functions. *)
LEMMA FnType ==
  ASSUME TypeOK, pos \in DOMAIN functions
  PROVE  /\ Fn \in FunctionItems
         /\ Fn.fn \in {"range", "input"} => Fn.arg \in {"null", "bad", "range", "resolution"}
         /\ pos \in Nat /\ DOMAIN functions \subseteq Nat
<1>1. functions \in Seq(FunctionItems)
  BY DEF TypeOK
<1>2. Fn \in FunctionItems
  BY <1>1, ElementType DEF Fn
<1>3. pos \in Nat /\ DOMAIN functions \subseteq Nat
  BY <1>1
<1> QED
  BY <1>2, <1>3 DEF FunctionItems

LEMMA CompiledNext ==
  ASSUME TypeOK, stage = "functions", stage' = "functions", pos \in DOMAIN functions,
         pos' = pos + 1, functions' = functions
  PROVE  Compiled' = Compiled \cup {pos} /\ \A i \in 1 .. pos - 1 : i \in Compiled
<1>1. pos \in Nat /\ DOMAIN functions \subseteq Nat
  BY FnType
<1>2. Compiled = {i \in DOMAIN functions : i < pos}
  BY DEF Compiled
<1>3. Compiled' = {i \in DOMAIN functions : i < pos + 1}
  BY DEF Compiled
<1>4. functions \in Seq(FunctionItems)
  BY DEF TypeOK
<1>5. \A i \in 1 .. pos - 1 : i \in DOMAIN functions
  BY <1>1, <1>4
<1> QED
  BY <1>1, <1>2, <1>3, <1>5

(* One function more has been compiled: what is left to be shown is what   *)
(* it made of the expression.                                              *)
LEMMA CompileStep ==
  ASSUME IInv, stage = "functions", pos \in DOMAIN functions, pos' = pos + 1,
         Fn.fn # "unknown", Fn.arg # "bad",
         UNCHANGED <<request, stage, outcome, time, value, range, functions, calls>>,
         query' \in Seq(Layers), offsetUsed' \in BOOLEAN, query'[1] = query[1], query' # << >>,
         OffsetPlaced', RangesPlaced', ValuePlaced'
  PROVE  IInv'
<1>1. stage' = "functions" /\ outcome = "" /\ outcome' = ""
  BY DEF IInv, TypeOK
<1>2. TypeOK'
  <2>1. pos' \in Nat \ {0}
    <3>1. pos \in Nat \ {0}
      BY DEF IInv, TypeOK
    <3> QED
      BY <3>1
  <2>2. /\ request' \in Request /\ range' \in Pointers([start : Nat, end : Nat])
        /\ functions' \in Seq(FunctionItems) /\ calls' \subseteq Calls
        /\ time' \in [{"timestamp", "start", "end"} -> Pointers(Nat)]
        /\ value' \in Pointers(Terms)
    BY DEF IInv, TypeOK
  <2> QED
    BY <1>1, <2>1, <2>2 DEF TypeOK
<1>3. PredicateHeld' /\ ArgumentsHeld' /\ LabelsHeld' /\ ValueChecked'
  BY <1>1, LaterSteady DEF Building, Compiling
<1>4. RowsHeld' /\ Ended' /\ CallsSent'
  BY <1>1 DEF IInv, Past, Sending, RowsHeld, Ended, CallsSent
<1>5. FunctionsHeld'
  <2>1. TypeOK
    BY DEF IInv
  <2>2. Compiled' = Compiled \cup {pos}
    BY <1>1, <2>1, CompiledNext
  <2>3. \A i \in Compiled : functions[i].fn # "unknown" /\ functions[i].arg # "bad"
    BY DEF IInv, FunctionsHeld, Past, Compiling
  <2> QED
    BY <2>2, <2>3 DEF FunctionsHeld, Fn
<1>6. QueryBuilt'
  <2>1. Past(Building) /\ Past(Building)'
    BY <1>1 DEF Past, Building, Compiling
  <2>2. query[1] = Selector
    BY <2>1 DEF IInv, QueryBuilt
  <2>3. Selector' = Selector
    BY DEF Selector, HasRangeVectorFunction
  <2> QED
    BY <2>1, <2>2, <2>3 DEF QueryBuilt
<1> QED
  BY <1>1, <1>2, <1>3, <1>4, <1>5, <1>6 DEF IInv

(* A null argument leaves the expression as it is. *)
LEMMA NullIInv ==
  ASSUME IInv, stage = "functions", pos \in DOMAIN functions, pos' = pos + 1,
         Fn.fn # "unknown", Fn.arg = "null",
         UNCHANGED <<request, stage, outcome, time, value, range, functions, calls,
                     offsetUsed, query>>
  PROVE  IInv'
<1>1. TypeOK /\ stage' = "functions" /\ Past(Building)
  BY DEF IInv, Past, Building, Compiling
<1>2. query # << >> /\ OffsetPlaced /\ RangesPlaced /\ ValuePlaced
  BY <1>1 DEF IInv, QueryBuilt
<1>3. Compiled' = Compiled \cup {pos}
  BY <1>1, CompiledNext
<1>4. HasRangeVectorFunction' <=> HasRangeVectorFunction
  BY DEF HasRangeVectorFunction
<1>5. \A i : Takes(i)' <=> Takes(i)
  BY DEF Takes
<1>6. ~Takes(pos)
  BY DEF Takes, Fn
<1>7. OffsetPlaced'
  BY <1>2, <1>3, <1>4, <1>5, <1>6 DEF OffsetPlaced, Offsets
<1>8. (FunctionsFit' <=> FunctionsFit) /\ (InputsFit' <=> InputsFit)
  BY FunctionsSteady
<1>9. RangesPlaced'
  <2>1. (\A i \in Compiled' : functions'[i].arg = "null")
          <=> (\A i \in Compiled : functions[i].arg = "null")
    BY <1>3 DEF Fn
  <2> QED
    BY <1>1, <1>2, <1>4, <1>8, <2>1 DEF RangesPlaced
<1>10. ValuePlaced'
  BY <1>1, <1>2 DEF ValuePlaced
<1>11. query' \in Seq(Layers) /\ offsetUsed' \in BOOLEAN
  BY <1>1 DEF TypeOK
<1> QED
  BY <1>2, <1>7, <1>9, <1>10, <1>11, CompileStep

(* A call around the expression has no range of its own, unless all before *)
(* it were null and the selector has no offset.                            *)
LEMMA CallIInv ==
  ASSUME IInv, stage = "functions", pos \in DOMAIN functions, pos' = pos + 1,
         Fn.fn # "unknown", Fn.arg \notin {"bad", "null"},
         UNCHANGED <<request, stage, outcome, time, value, range, functions, calls>>,
         NEW l \in Layers, query' = Append(query, l), l.part = "call",
         l.bracket = "range" => Fn.fn \in {"range", "input"} /\ Fn.arg = "range",
         offsetUsed' \in BOOLEAN, OffsetPlaced'
  PROVE  IInv'
<1>1. TypeOK /\ stage' = "functions" /\ Past(Building)
  BY DEF IInv, Past, Building, Compiling
<1>2. query # << >> /\ query[1] = Selector /\ RangesPlaced /\ ValuePlaced
  BY <1>1 DEF IInv, QueryBuilt
<1>3. query \in Seq(Layers)
  BY <1>1 DEF TypeOK
<1>4. /\ query' \in Seq(Layers) /\ Len(query') = Len(query) + 1 /\ Len(query) \in Nat
      /\ DOMAIN query' = DOMAIN query \cup {Len(query) + 1}
      /\ \A n \in DOMAIN query : query'[n] = query[n]
      /\ query'[Len(query) + 1] = l
      /\ DOMAIN query = 1 .. Len(query)
  BY <1>3, AppendLayer
<1>5. 1 \in DOMAIN query /\ query' # << >>
  BY <1>2, <1>3, <1>4
<1>6. Compiled' = Compiled \cup {pos} /\ \A i \in 1 .. pos - 1 : i \in Compiled
  BY <1>1, CompiledNext
<1>7. /\ HasRangeVectorFunction' <=> HasRangeVectorFunction
      /\ FunctionsFit' <=> FunctionsFit
      /\ InputsFit' <=> InputsFit
  BY FunctionsSteady
<1>8. RangesPlaced'
  <2>1. ~ (\A i \in Compiled' : functions'[i].arg = "null")
    BY <1>6 DEF Fn
  <2>2. ASSUME FunctionsFit, l.bracket = "range"
        PROVE  Len(query) + 1 = 2 /\ query'[1].offset = 0
    <3>1. \A j \in 1 .. pos - 1 : functions[j].arg = "null"
      BY <2>2 DEF FunctionsFit, Fn
    <3>2. \A j \in Compiled : functions[j].arg = "null"
      <4>1. pos \in Nat /\ functions \in Seq(FunctionItems)
        BY <1>1, FnType DEF TypeOK
      <4>2. \A j \in Compiled : j \in 1 .. pos - 1
        BY <4>1 DEF Compiled
      <4> QED
        BY <3>1, <4>2
    <3>3. Len(query) = 1
      BY <1>2, <3>2 DEF RangesPlaced
    <3>4. Selector.offset = 0
      <4>1. CASE Fn.fn = "range"
        <5>1. HasRangeVectorFunction
          BY <4>1 DEF HasRangeVectorFunction, Fn
        <5> QED
          BY <1>1, <5>1, SelectorType
      <4>2. CASE Fn.fn = "input"
        <5>1. request.offset = 0 \/ HasRangeVectorFunction
          BY <2>2, <4>2 DEF FunctionsFit, Fn
        <5> QED
          BY <1>1, <5>1, SelectorType
      <4> QED
        BY <2>2, <4>1, <4>2
    <3> QED
      BY <1>2, <1>4, <1>5, <3>3, <3>4
  <2>3. FunctionsFit =>
          \A n \in DOMAIN query : query[n].bracket = "range" => n = 2 /\ query[1].offset = 0
    BY <1>2 DEF RangesPlaced
  <2>4. ASSUME FunctionsFit, NEW n \in DOMAIN query', query'[n].bracket = "range"
        PROVE  n = 2 /\ query'[1].offset = 0
    <3>1. CASE n \in DOMAIN query
      BY <1>4, <1>5, <2>3, <2>4, <3>1
    <3>2. CASE n = Len(query) + 1
      BY <1>4, <2>2, <2>4, <3>2
    <3> QED
      BY <1>4, <3>1, <3>2
  <2>5. Len(query') # 1
    BY <1>3, <1>4, <1>5
  <2>6. ASSUME ~HasRangeVectorFunction, InputsFit
        PROVE  query'[2].bracket # "range"
    <3>1. CASE Len(query) = 1
      <4>1. query'[2] = l
        BY <1>4, <3>1
      <4>2. \A j \in 1 .. pos - 1 : functions[j].arg = "null"
        BY <1>1, <1>2, <1>6, <3>1 DEF RangesPlaced
      <4>3. ~ (Fn.fn = "input" /\ Fn.arg = "range")
        BY <2>6, <4>2 DEF InputsFit, Fn
      <4>4. Fn.fn # "range"
        BY <2>6 DEF HasRangeVectorFunction, Fn
      <4> QED
        BY <4>1, <4>3, <4>4
    <3>2. CASE Len(query) > 1
      <4>1. 2 \in DOMAIN query /\ query[2].bracket # "range"
        BY <1>2, <1>4, <2>6, <3>2 DEF RangesPlaced
      <4> QED
        BY <1>4, <4>1
    <3> QED
      BY <1>4, <1>5, <3>1, <3>2
  <2> QED
    BY <1>7, <2>1, <2>4, <2>5, <2>6 DEF RangesPlaced
<1>9. ValuePlaced'
  BY <1>1, <1>2, <1>4 DEF ValuePlaced
<1> QED
  BY <1>4, <1>5, <1>8, <1>9, CompileStep

(* A layer without an offset leaves the offsets where they are. *)
LEMMA OffsetsKept ==
  ASSUME NEW q \in Seq(Layers), NEW l \in Layers, l.offset = 0
  PROVE  /\ Offsets(Append(q, l)) = Offsets(q)
         /\ \A n \in Offsets(q) : n \in DOMAIN q /\ Append(q, l)[n] = q[n]
<1> DEFINE new == Append(q, l)
<1>1. /\ DOMAIN new = DOMAIN q \cup {Len(q) + 1}
      /\ \A n \in DOMAIN q : new[n] = q[n]
      /\ new[Len(q) + 1] = l
  BY AppendLayer
<1> HIDE DEF new
<1>2. Offsets(new) = Offsets(q)
  BY <1>1 DEF Offsets
<1> QED
  BY <1>1, <1>2 DEF new, Offsets

LEMMA NoOffsetAdded ==
  ASSUME TypeOK, OffsetPlaced, stage = "functions", stage' = "functions",
         pos \in DOMAIN functions, pos' = pos + 1,
         UNCHANGED <<request, functions, offsetUsed>>,
         NEW l \in Layers, query' = Append(query, l), l.offset = 0,
         request.offset > 0 /\ ~offsetUsed => ~Takes(pos)
  PROVE  OffsetPlaced'
<1>1. query \in Seq(Layers)
  BY DEF TypeOK
<1>2. /\ Offsets(query') = Offsets(query)
      /\ \A n \in Offsets(query) : n \in DOMAIN query /\ query'[n] = query[n]
  BY <1>1, OffsetsKept
<1>3. DOMAIN query \subseteq DOMAIN query'
  BY <1>1, AppendLayer
<1>4. Compiled' = Compiled \cup {pos}
  BY CompiledNext
<1>5. /\ HasRangeVectorFunction' <=> HasRangeVectorFunction
      /\ \A i : Takes(i)' <=> Takes(i)
      /\ Offsets(query)' = Offsets(query')
  BY DEF HasRangeVectorFunction, Takes, Offsets
<1>6. CASE HasRangeVectorFunction /\ ~offsetUsed
  BY <1>2, <1>4, <1>5, <1>6 DEF OffsetPlaced
<1>7. CASE ~ (HasRangeVectorFunction /\ ~offsetUsed)
  <2>1. CASE request.offset = 0
    BY <1>2, <1>5, <1>7, <2>1 DEF OffsetPlaced
  <2>2. CASE request.offset # 0
    <3>1. PICK n \in DOMAIN query :
            /\ Offsets(query) = {n} /\ query[n].offset = request.offset
            /\ IF query[n].part = "select" THEN n = 1 ELSE query[n].bracket # "none"
      BY <1>7, <2>2 DEF OffsetPlaced
    <3>2. /\ n \in DOMAIN query' /\ Offsets(query') = {n} /\ query'[n].offset = request.offset
          /\ IF query'[n].part = "select" THEN n = 1 ELSE query'[n].bracket # "none"
      BY <1>2, <1>3, <3>1
    <3> QED
      BY <1>5, <1>7, <2>2, <3>2 DEF OffsetPlaced
  <2> QED
    BY <2>1, <2>2
<1> QED
  BY <1>6, <1>7

LEMMA CompileInstantIInv == ASSUME IInv, CompileInstant PROVE IInv'
<1>1. /\ stage = "functions" /\ pos \in DOMAIN functions /\ Fn.fn = "instant" /\ Fn.arg # "bad"
      /\ pos' = pos + 1 /\ TypeOK
      /\ UNCHANGED <<request, stage, outcome, time, value, range, functions, calls, offsetUsed>>
  BY DEF CompileInstant, AtFunction, IInv
<1>2. CASE Fn.arg = "null"
  <2>1. query' = query
    BY <1>2 DEF CompileInstant
  <2> QED
    BY <1>1, <1>2, <2>1, NullIInv
<1>3. CASE Fn.arg # "null"
  <2> DEFINE l == Layer("call", "none", 0)
  <2>1. query' = Append(query, l)
    BY <1>3 DEF CompileInstant
  <2>2. /\ l \in Layers /\ l.part = "call" /\ l.offset = 0
        /\ l.bracket = "none"
    <3>1. "call" \in Parts /\ 0 \in Nat /\ "none" \in {"none", "range", "subquery"}
      BY DEF Parts, Bracket
    <3> QED
      BY <3>1, LayerType
  <2> HIDE DEF l
  <2>3. l.bracket = "range" => Fn.fn \in {"range", "input"} /\ Fn.arg = "range"
    BY <1>1, <1>3, <2>2, FnType DEF Bracket
  <2>4. OffsetPlaced /\ ~Takes(pos) /\ offsetUsed' \in BOOLEAN
    BY <1>1 DEF IInv, QueryBuilt, Past, Building, Compiling, Takes, Fn, TypeOK
  <2>5. OffsetPlaced'
    BY <1>1, <2>1, <2>2, <2>4, NoOffsetAdded
  <2> QED
    BY <1>1, <1>3, <2>1, <2>2, <2>3, <2>4, <2>5, CallIInv
<1> QED
  BY <1>2, <1>3

LEMMA CompileInputIInv == ASSUME IInv, CompileInput PROVE IInv'
<1>1. /\ stage = "functions" /\ pos \in DOMAIN functions /\ Fn.fn = "input" /\ Fn.arg # "bad"
      /\ pos' = pos + 1 /\ TypeOK
      /\ UNCHANGED <<request, stage, outcome, time, value, range, functions, calls, offsetUsed>>
  BY DEF CompileInput, AtFunction, IInv
<1>2. CASE Fn.arg = "null"
  <2>1. query' = query
    BY <1>2 DEF CompileInput
  <2> QED
    BY <1>1, <1>2, <2>1, NullIInv
<1>3. CASE Fn.arg # "null"
  <2> DEFINE l == Layer("call", Bracket, 0)
  <2>1. query' = Append(query, l)
    BY <1>3 DEF CompileInput
  <2>2. /\ l \in Layers /\ l.part = "call" /\ l.offset = 0
        /\ l.bracket = Bracket
    <3>1. "call" \in Parts /\ 0 \in Nat /\ Bracket \in {"none", "range", "subquery"}
      BY DEF Parts, Bracket
    <3> QED
      BY <3>1, LayerType
  <2> HIDE DEF l
  <2>3. l.bracket = "range" => Fn.fn \in {"range", "input"} /\ Fn.arg = "range"
    BY <1>1, <1>3, <2>2, FnType DEF Bracket
  <2>4. OffsetPlaced /\ ~Takes(pos) /\ offsetUsed' \in BOOLEAN
    BY <1>1 DEF IInv, QueryBuilt, Past, Building, Compiling, Takes, Fn, TypeOK
  <2>5. OffsetPlaced'
    BY <1>1, <2>1, <2>2, <2>4, NoOffsetAdded
  <2> QED
    BY <1>1, <1>3, <2>1, <2>2, <2>3, <2>4, <2>5, CallIInv
<1> QED
  BY <1>2, <1>3

LEMMA CompileRangeIInv == ASSUME IInv, CompileRange PROVE IInv'
<1> DEFINE offset == IF offsetUsed THEN 0 ELSE request.offset
<1>1. /\ stage = "functions" /\ pos \in DOMAIN functions /\ Fn.fn = "range" /\ Fn.arg # "bad"
      /\ pos' = pos + 1 /\ TypeOK
      /\ UNCHANGED <<request, stage, outcome, time, value, range, functions, calls>>
  BY DEF CompileRange, AtFunction, IInv
<1>2. CASE Fn.arg = "null"
  <2>1. query' = query /\ offsetUsed' = offsetUsed
    BY <1>2 DEF CompileRange
  <2> QED
    BY <1>1, <1>2, <2>1, NullIInv
<1>3. CASE Fn.arg # "null"
  <2> DEFINE l == Layer("call", Bracket, offset)
  <2>1. query' = Append(query, l) /\ offsetUsed' = (offsetUsed \/ offset > 0)
    BY <1>3 DEF CompileRange
  <2>2. request.offset \in Nat /\ offsetUsed \in BOOLEAN
    BY <1>1, RequestType DEF TypeOK
  <2>3. /\ l \in Layers /\ l.part = "call" /\ l.bracket = Bracket /\ l.offset = offset
    <3>1. "call" \in Parts /\ Bracket \in {"none", "range", "subquery"}
      BY DEF Parts, Bracket
    <3>2. offset \in Nat
      BY <2>2
    <3> HIDE DEF offset
    <3> QED
      BY <3>1, <3>2, LayerType
  <2> HIDE DEF l
  <2>4. l.bracket = "range" => Fn.fn \in {"range", "input"} /\ Fn.arg = "range"
    BY <1>1, <1>3, <2>3, FnType DEF Bracket
  <2>5. OffsetPlaced /\ HasRangeVectorFunction
    BY <1>1 DEF IInv, QueryBuilt, Past, Building, Compiling, HasRangeVectorFunction, Fn
  <2>6. offsetUsed' \in BOOLEAN
    BY <2>1
  <2>7. OffsetPlaced'
    <3>1. CASE offset = 0
      <4>1. offsetUsed' = offsetUsed
        BY <2>1, <2>2, <3>1
      <4>2. ~ (request.offset > 0 /\ ~offsetUsed)
        BY <2>2, <3>1
      <4> QED
        BY <1>1, <2>1, <2>3, <2>5, <3>1, <4>1, <4>2, NoOffsetAdded
    <3>2. CASE offset # 0
      <4>1. ~offsetUsed /\ offset = request.offset /\ request.offset > 0 /\ offsetUsed'
        <5>1. ~offsetUsed /\ offset = request.offset
          BY <3>2
        <5>2. request.offset > 0 /\ offset > 0
          BY <2>2, <3>2, <5>1
        <5> HIDE DEF offset
        <5>3. offsetUsed'
          BY <2>1, <5>2
        <5> QED
          BY <5>1, <5>2, <5>3
      <4>2. Offsets(query) = {}
        BY <2>5, <4>1 DEF OffsetPlaced
      <4>3. /\ DOMAIN query' = DOMAIN query \cup {Len(query) + 1}
            /\ \A n \in DOMAIN query : query'[n] = query[n]
            /\ query'[Len(query) + 1] = l
        <5>1. query \in Seq(Layers)
          BY <1>1 DEF TypeOK
        <5>2. query' = Append(query, l)
          BY <2>1
        <5> QED
          BY <2>3, <5>1, <5>2, AppendLayer
      <4>4. Offsets(query') = {Len(query) + 1}
        BY <2>3, <4>1, <4>2, <4>3 DEF Offsets
      <4>5. Offsets(query)' = Offsets(query')
        BY DEF Offsets
      <4>6. l.bracket # "none"
        BY <2>3 DEF Bracket
      <4> QED
        BY <1>1, <2>2, <2>3, <4>1, <4>3, <4>4, <4>5, <4>6 DEF OffsetPlaced
    <3> QED
      BY <3>1, <3>2
  <2> QED
    BY <1>1, <1>3, <2>1, <2>3, <2>4, <2>6, <2>7, CallIInv
<1> QED
  BY <1>2, <1>3

(* A refusal of the compilation, or of the sections that follow it. *)
LEMMA RefusedCompilation ==
  ASSUME IInv, stage \in {"functions", "rows"}, CompilationRefused
  PROVE  Expected = "refused" /\ calls = {} /\ functions = RequestFunctions
<1>1. ~request.limited /\ ~PredicateRefused /\ calls = {}
  BY NotRefused DEF Building, Compiling, Sending
<1>2. LabelStops = {} /\ functions = RequestFunctions
  BY DEF IInv, LabelsHeld, ArgumentsHeld, Past, Building, Compiling
<1> QED
  BY <1>1, <1>2 DEF Expected

LEMMA CompileFailsIInv == ASSUME IInv, CompileFails PROVE IInv'
<1>1. /\ stage = "functions" /\ pos \in DOMAIN functions /\ Refuse
      /\ Fn.fn = "unknown" \/ Fn.arg = "bad"
  BY DEF CompileFails, AtFunction
<1>2. functions = RequestFunctions
  BY <1>1 DEF IInv, ArgumentsHeld, Past, Building, Compiling
<1>3. CompilationRefused
  BY <1>1, <1>2 DEF CompilationRefused, Fn
<1> QED
  BY <1>1, <1>3, RefusedCompilation, RefuseIInv
-----------------------------------------------------------------------------
(* The condition on the value closes the expression. *)
LEMMA CompileValueIInv == ASSUME IInv, CompileValue PROVE IInv'
<1>1. /\ stage = "functions" /\ pos \notin DOMAIN functions /\ outcome = "" /\ calls = {}
      /\ stage' = "rows" /\ outcome' = "" /\ TypeOK
      /\ UNCHANGED <<request, pos, time, value, range, functions, offsetUsed, calls>>
  BY NothingSent DEF CompileValue, Goto, IInv, Sending
<1>2. /\ query # << >> /\ query[1] = Selector /\ OffsetPlaced /\ RangesPlaced
      /\ \A n \in DOMAIN query : query[n].part \in {"select", "call"}
  BY <1>1 DEF IInv, QueryBuilt, Past, Building, Compiling, ValuePlaced
<1>3. query \in Seq(Layers)
  BY <1>1 DEF TypeOK
<1>4. Compiled = DOMAIN functions /\ Compiled' = DOMAIN functions
  <2>1. functions \in Seq(FunctionItems)
    BY <1>1 DEF TypeOK
  <2>2. pos \in Nat \ {0}
    BY <1>1 DEF TypeOK
  <2>3. DOMAIN functions = 1 .. Len(functions) /\ Len(functions) \in Nat
    BY <2>1
  <2>4. ASSUME NEW i \in DOMAIN functions PROVE i < pos
    <3>1. pos \notin DOMAIN functions
      BY <1>1
    <3> QED
      BY <2>2, <2>3, <3>1
  <2> QED
    BY <1>1, <2>4 DEF Compiled
<1> DEFINE l == Layer("compare", "none", 0)
<1>5. l \in Layers /\ l.part = "compare" /\ l.bracket = "none" /\ l.offset = 0
  <2>1. "compare" \in Parts /\ 0 \in Nat
    BY DEF Parts
  <2> QED
    BY <2>1, LayerType
<1>6. query' = IF HasCondition THEN Append(query, l) ELSE query
  BY DEF CompileValue
<1> HIDE DEF l
<1>7. /\ HasRangeVectorFunction' <=> HasRangeVectorFunction
      /\ HasCondition' <=> HasCondition
      /\ FunctionsFit' <=> FunctionsFit
      /\ InputsFit' <=> InputsFit
      /\ \A i : Takes(i)' <=> Takes(i)
      /\ Offsets(query)' = Offsets(query')
  BY <1>1, FunctionsSteady DEF HasCondition, Takes, Offsets
<1>8. /\ Append(query, l) \in Seq(Layers) /\ Len(Append(query, l)) = Len(query) + 1
      /\ Len(query) \in Nat
      /\ DOMAIN Append(query, l) = DOMAIN query \cup {Len(query) + 1}
      /\ DOMAIN query = 1 .. Len(query) /\ Len(query) + 1 \notin DOMAIN query
      /\ \A n \in DOMAIN query : Append(query, l)[n] = query[n]
      /\ Append(query, l)[Len(query) + 1] = l
  BY <1>3, <1>5, AppendLayer
<1>9. 1 \in DOMAIN query
  BY <1>2, <1>3
<1>10. query' \in Seq(Layers) /\ query' # << >> /\ query'[1] = query[1]
  BY <1>2, <1>3, <1>6, <1>8, <1>9
<1>11. /\ Offsets(query') = Offsets(query)
       /\ \A n \in Offsets(query) : n \in DOMAIN query' /\ query'[n] = query[n]
  <2>1. Offsets(Append(query, l)) = Offsets(query)
    BY <1>3, <1>5, OffsetsKept
  <2>2. \A n \in Offsets(query) : n \in DOMAIN query
    BY DEF Offsets
  <2> QED
    BY <1>6, <1>8, <2>1, <2>2
<1>12. OffsetPlaced'
  <2>1. CASE HasRangeVectorFunction /\ ~offsetUsed
    BY <1>1, <1>2, <1>4, <1>7, <1>11, <2>1 DEF OffsetPlaced
  <2>2. CASE ~ (HasRangeVectorFunction /\ ~offsetUsed) /\ request.offset = 0
    BY <1>1, <1>2, <1>7, <1>11, <2>2 DEF OffsetPlaced
  <2>3. CASE ~ (HasRangeVectorFunction /\ ~offsetUsed) /\ request.offset # 0
    <3>1. PICK n \in DOMAIN query :
            /\ Offsets(query) = {n} /\ query[n].offset = request.offset
            /\ IF query[n].part = "select" THEN n = 1 ELSE query[n].bracket # "none"
      BY <1>2, <2>3 DEF OffsetPlaced
    <3>2. /\ n \in DOMAIN query' /\ Offsets(query') = {n} /\ query'[n].offset = request.offset
          /\ IF query'[n].part = "select" THEN n = 1 ELSE query'[n].bracket # "none"
      BY <1>11, <3>1
    <3> QED
      BY <1>1, <1>7, <2>3, <3>2 DEF OffsetPlaced
  <2> QED
    BY <2>1, <2>2, <2>3
<1>13. RangesPlaced'
  <2>1. ASSUME FunctionsFit, NEW n \in DOMAIN query', query'[n].bracket = "range"
        PROVE  n = 2 /\ query'[1].offset = 0
    <3>1. n \in DOMAIN query /\ query'[n] = query[n]
      BY <1>5, <1>6, <1>8, <2>1
    <3> QED
      BY <1>2, <1>10, <2>1, <3>1 DEF RangesPlaced
  <2>2. ASSUME ~HasRangeVectorFunction, InputsFit, Len(query') > 1
        PROVE  query'[2].bracket # "range"
    <3>1. CASE Len(query) > 1
      <4>1. 2 \in DOMAIN query /\ query[2].bracket # "range"
        BY <1>2, <1>8, <2>2, <3>1 DEF RangesPlaced
      <4> QED
        BY <1>6, <1>8, <4>1
    <3>2. CASE ~ (Len(query) > 1)
      <4>1. Len(query) = 1
        BY <1>8, <1>9, <3>2
      <4>2. query' # query
        <5>1. query' = query => Len(query') = Len(query)
          OBVIOUS
        <5> QED
          BY <2>2, <3>2, <5>1
      <4>3. query' = Append(query, l)
        BY <1>6, <4>2
      <4> QED
        BY <1>5, <1>8, <4>1, <4>3
    <3> QED
      BY <3>1, <3>2
  <2> QED
    BY <1>1, <1>7, <2>1, <2>2 DEF RangesPlaced
<1>14. ValuePlaced'
  <2>1. CASE HasCondition
    <3>1. query' = Append(query, l)
      BY <1>6, <2>1
    <3>2. ASSUME NEW n \in DOMAIN query'
          PROVE  query'[n].part = "compare" <=> n = Len(query')
      BY <1>2, <1>5, <1>8, <3>1
    <3> QED
      BY <1>1, <1>7, <2>1, <3>2 DEF ValuePlaced
  <2>2. CASE ~HasCondition
    <3>1. query' = query
      BY <1>6, <2>2
    <3> QED
      BY <1>1, <1>2, <1>7, <2>2, <3>1 DEF ValuePlaced
  <2> QED
    BY <2>1, <2>2
<1>15. QueryBuilt'
  <2>1. Selector' = Selector
    BY <1>1, <1>7 DEF Selector
  <2>2. Past(Building)'
    BY <1>1 DEF Past, Building, Compiling
  <2> QED
    BY <1>2, <1>10, <1>12, <1>13, <1>14, <2>1, <2>2 DEF QueryBuilt
<1>16. PredicateHeld' /\ ArgumentsHeld' /\ LabelsHeld' /\ ValueChecked'
  BY <1>1, LaterSteady DEF Building, Compiling
<1>17. FunctionsHeld'
  BY <1>1, <1>4 DEF IInv, FunctionsHeld, Past, Compiling
<1>18. RowsHeld' /\ Ended' /\ CallsSent'
  BY <1>1 DEF Past, Sending, RowsHeld, Ended, CallsSent
<1>19. TypeOK'
  BY <1>1, <1>10 DEF TypeOK
<1> QED
  BY <1>1, <1>15, <1>16, <1>17, <1>18, <1>19 DEF IInv
-----------------------------------------------------------------------------
(* The queries sent. *)
LEMMA CallsType ==
  ASSUME TypeOK
  PROVE  RowsCalls \subseteq Calls /\ AggregateCalls \subseteq Calls /\ GroupCalls \subseteq Calls
<1>1. query \in Seq(Layers)
  BY DEF TypeOK
<1>2. /\ \A t : t \in Pointers(Nat) => \A q \in Seq(Layers) :
           \A section \in {"rows", "aggregates", "groups"} : Instant(q, section, t) \in Calls
      /\ \A q \in Seq(Layers) : \A section \in {"rows", "aggregates", "groups"} :
           OverRange(q, section, range) \in Calls
  <2>1. << >> \in Pointers(Nat) /\ << >> \in Pointers([start : Nat, end : Nat])
    BY NilPointer
  <2>2. range \in Pointers([start : Nat, end : Nat])
    BY DEF TypeOK
  <2> QED
    BY <2>1, <2>2 DEF Instant, OverRange, Calls
<1>3. Quantile \in Layers
  <2>1. "quantile" \in Parts /\ 0 \in Nat
    BY DEF Parts
  <2> QED
    BY <2>1, LayerType DEF Quantile
<1>4. RowsQuery \in Seq(Layers)
  <2>1. Append(query, Quantile) \in Seq(Layers)
    BY <1>1, <1>3, AppendLayer
  <2> QED
    BY <1>1, <2>1 DEF RowsQuery
<1>5. \A kind \in AggregateKinds : Aggregated(kind) \in Seq(Layers) /\ GroupQuery(kind) \in Seq(Layers)
  <2> SUFFICES ASSUME NEW kind \in AggregateKinds
               PROVE  Aggregated(kind) \in Seq(Layers) /\ GroupQuery(kind) \in Seq(Layers)
    OBVIOUS
  <2>1. Layer(kind, "none", 0) \in Layers
    <3>1. kind \in Parts /\ 0 \in Nat
      BY DEF Parts
    <3> QED
      BY <3>1, LayerType
  <2>2. Aggregated(kind) \in Seq(Layers)
    BY <1>1, <2>1, AppendLayer DEF Aggregated
  <2>3. Append(Aggregated(kind), Quantile) \in Seq(Layers)
    BY <1>3, <2>2, AppendLayer
  <2> QED
    BY <2>2, <2>3 DEF GroupQuery
<1>6. time["timestamp"] \in Pointers(Nat) /\ AggregateTime \in Pointers(Nat)
  <2>1. time["timestamp"] \in Pointers(Nat)
    BY DEF TypeOK
  <2>2. range # << >> => range[1].end \in Nat
    <3>1. range \in Pointers([start : Nat, end : Nat])
      BY DEF TypeOK
    <3>2. range # << >> => range[1] \in [start : Nat, end : Nat]
      BY <3>1, PointerType
    <3> QED
      BY <3>2
  <2>3. range # << >> => <<range[1].end>> \in Pointers(Nat)
    BY <2>2, PointerTo
  <2>4. <<Now>> \in Pointers(Nat)
    BY CollectionAssumption, PointerTo
  <2> QED
    BY <2>1, <2>3, <2>4 DEF AggregateTime
<1>7. RowsCalls \subseteq Calls
  BY <1>2, <1>4, <1>6 DEF RowsCalls
<1>8. AggregateKindsOf \subseteq AggregateKinds /\ GroupKinds \subseteq AggregateKinds
  BY RequestType
<1>9. AggregateCalls \subseteq Calls
  BY <1>2, <1>5, <1>6, <1>8 DEF AggregateCalls
<1>10. GroupCalls \subseteq Calls
  BY <1>2, <1>5, <1>8 DEF GroupCalls
<1> QED
  BY <1>7, <1>9, <1>10

LEMMA CallsSteady ==
  ASSUME UNCHANGED <<request, time, range, query>>
  PROVE  RowsCalls' = RowsCalls /\ AggregateCalls' = AggregateCalls /\ GroupCalls' = GroupCalls
<1>1. AggregateKindsOf' = AggregateKindsOf /\ GroupKinds' = GroupKinds
  BY RequestSteady
<1>2. RowsQuery' = RowsQuery /\ AggregateTime' = AggregateTime
  BY DEF RowsQuery, AggregateTime
<1>3. \A kind : Aggregated(kind)' = Aggregated(kind) /\ GroupQuery(kind)' = GroupQuery(kind)
  BY DEF GroupQuery, Aggregated
<1>4. \A q, section : OverRange(q, section, range)' = OverRange(q, section, range)
  BY DEF OverRange
<1>5. RowsCalls' = RowsCalls
  BY <1>1, <1>2 DEF RowsCalls, Grouped
<1>6. AggregateCalls' = AggregateCalls
  BY <1>1, <1>2, <1>3 DEF AggregateCalls
<1>7. GroupCalls' = GroupCalls
  BY <1>1, <1>3 DEF GroupCalls
<1> QED
  BY <1>5, <1>6, <1>7

(* Nothing but the queries sent changes from the rows on. *)
LEMMA SendStep ==
  ASSUME IInv, stage \in {"rows"} \cup Sending, UNCHANGED <<request, pos, time, value, range, compiled>>,
         \/ stage' \in Sending /\ outcome' = ""
         \/ stage' = "done" /\ outcome' \in {"answered", "panic"},
         calls' \subseteq Calls, RowsHeld', CallsSent', Ended'
  PROVE  IInv'
<1>1. /\ outcome = "" /\ TypeOK
      /\ UNCHANGED <<request, pos, time, value, range, functions, offsetUsed, query>>
  BY DEF compiled, IInv, TypeOK, Sending
<1>2. TypeOK'
  BY <1>1 DEF TypeOK, Sending
<1>3. PredicateHeld' /\ ArgumentsHeld' /\ LabelsHeld' /\ ValueChecked'
  BY <1>1, LaterSteady DEF Building, Compiling, Sending
<1>4. Compiled = DOMAIN functions /\ Compiled' = DOMAIN functions
  BY <1>1 DEF Compiled, Sending
<1>5. FunctionsHeld'
  BY <1>1, <1>4 DEF IInv, FunctionsHeld, Past, Compiling
<1>6. QueryBuilt'
  <2>1. /\ query # << >> /\ query[1] = Selector /\ OffsetPlaced /\ RangesPlaced /\ ValuePlaced
    BY DEF IInv, QueryBuilt, Past, Building, Compiling
  <2>2. /\ HasRangeVectorFunction' <=> HasRangeVectorFunction
        /\ HasCondition' <=> HasCondition
        /\ FunctionsFit' <=> FunctionsFit
        /\ InputsFit' <=> InputsFit
        /\ \A i : Takes(i)' <=> Takes(i)
        /\ Offsets(query)' = Offsets(query)
    BY <1>1, FunctionsSteady DEF HasCondition, Takes, Offsets
  <2>3. Selector' = Selector
    BY <1>1, <2>2 DEF Selector
  <2>4. OffsetPlaced'
    BY <1>1, <1>4, <2>1, <2>2 DEF OffsetPlaced
  <2>5. stage \notin {"value", "functions"} /\ stage' \notin {"value", "functions"}
    BY DEF Sending
  <2>6. RangesPlaced' /\ ValuePlaced'
    BY <1>1, <2>1, <2>2, <2>5 DEF RangesPlaced, ValuePlaced
  <2>7. Past(Building)'
    BY DEF Past, Building, Compiling
  <2> QED
    BY <1>1, <2>1, <2>3, <2>4, <2>6, <2>7 DEF QueryBuilt
<1> QED
  BY <1>1, <1>2, <1>3, <1>5, <1>6 DEF IInv, Sending

LEMMA RowsIInv == ASSUME IInv, Rows PROVE IInv'
<1>1. stage = "rows" /\ TypeOK
  BY DEF Rows, IInv
<1> DEFINE bad == "unsupported" \in AggregateKindsOf \cup GroupKinds \/ "flat" \in request.flaws
<1>2. CASE bad
  <2>1. Refuse
    BY <1>2 DEF Rows
  <2>2. CompilationRefused
    BY <1>2 DEF CompilationRefused
  <2> QED
    BY <1>1, <2>1, <2>2, RefusedCompilation, RefuseIInv
<1>3. CASE ~bad
  <2>1. /\ stage' = "aggregates" /\ outcome' = "" /\ calls' = RowsCalls
        /\ UNCHANGED <<request, pos, time, value, range, compiled>>
    BY <1>1, <1>3 DEF Rows, Goto, TypeOK
  <2>2. calls' \subseteq Calls
    BY <1>1, <2>1, CallsType
  <2>3. RowsHeld'
    BY <1>3, <2>1, RequestSteady DEF RowsHeld
  <2>4. CallsSent'
    <3>1. RowsCalls' = RowsCalls
      BY <2>1, CallsSteady DEF compiled
    <3> QED
      BY <2>1, <3>1 DEF CallsSent, Past, Sending
  <2>5. Ended'
    BY <2>1 DEF Ended
  <2> QED
    BY <1>1, <2>1, <2>2, <2>3, <2>4, <2>5, SendStep DEF Sending
<1> QED
  BY <1>2, <1>3

LEMMA AggregatesIInv == ASSUME IInv, Aggregates PROVE IInv'
<1>1. stage = "aggregates" /\ TypeOK /\ outcome = ""
  BY DEF Aggregates, IInv, TypeOK
<1>2. /\ stage' = "groups" /\ outcome' = "" /\ calls' = calls \cup AggregateCalls
      /\ UNCHANGED <<request, pos, time, value, range, compiled>>
  BY <1>1 DEF Aggregates, Goto
<1>3. calls' \subseteq Calls
  BY <1>1, <1>2, CallsType DEF TypeOK
<1>4. RowsHeld'
  BY <1>1, <1>2, RequestSteady DEF RowsHeld, IInv, Past, Sending
<1>5. CallsSent'
  <2>1. RowsCalls' = RowsCalls /\ AggregateCalls' = AggregateCalls
    BY <1>2, CallsSteady DEF compiled
  <2>2. calls = RowsCalls
    BY <1>1 DEF IInv, CallsSent, Past, Sending
  <2> QED
    BY <1>2, <2>1, <2>2 DEF CallsSent, Past, Sending
<1>6. Ended'
  BY <1>2 DEF Ended
<1> QED
  BY <1>1, <1>2, <1>3, <1>4, <1>5, <1>6, SendStep DEF Sending

(* A field holds what the terms on it say. *)
LEMMA FieldMeant ==
  ASSUME NEW field, NEW ops, FieldHeld(field, ops), Read = DOMAIN request.terms,
         DOMAIN request.terms \subseteq Nat
  PROVE  Meant(ops) = Range(time[field])
<1> DEFINE on == TermsOn(ops)
<1>1. TermsOn(ops) \cap Read = on /\ \A i \in on : i \in Nat
  BY DEF TermsOn
<1>2. /\ \A i, j \in on : i < j => request.terms[i].value = << >>
      /\ IF time[field] = << >> THEN \A i \in on : request.terms[i].value = << >>
         ELSE \E i \in on : request.terms[i].value = time[field]
  BY <1>1 DEF FieldHeld
<1>3. Range(<< >>) = {}
  BY DEF Range
<1>4. Meant(ops) = UNION {Range(request.terms[i].value) : i \in on}
  BY DEF Meant
<1> HIDE DEF on
<1>5. CASE time[field] = << >>
  BY <1>2, <1>3, <1>4, <1>5
<1>6. CASE time[field] # << >>
  <2>1. PICK i \in on : request.terms[i].value = time[field]
    BY <1>2, <1>6
  <2>2. ASSUME NEW j \in on, j # i PROVE request.terms[j].value = << >>
    <3>1. i < j \/ j < i
      BY <1>1, <2>2
    <3> QED
      BY <1>2, <1>6, <2>1, <3>1
  <2>3. \A j \in on : Range(request.terms[j].value) \subseteq Range(time[field])
    BY <1>3, <2>1, <2>2
  <2> QED
    BY <1>4, <2>1, <2>3
<1> QED
  BY <1>5, <1>6

(* What the stages from the labels on know of the times. *)
LEMMA TimesMeant ==
  ASSUME IInv, Active, stage # "predicate"
  PROVE  /\ Meant({"_eq"}) = Range(time["timestamp"])
         /\ Upper = Range(time["end"])
         /\ Lower = Range(time["start"])
<1>1. Read = DOMAIN request.terms
  BY DEF Read
<1>2. DOMAIN request.terms \subseteq Nat
  <2>1. request.terms \in Seq(Terms)
    BY RequestType DEF IInv
  <2> QED
    BY <2>1
<1>3. /\ FieldHeld("timestamp", {"_eq"}) /\ FieldHeld("end", {"_lt", "_lte"})
      /\ FieldHeld("start", {"_gt", "_gte"})
  BY DEF IInv, PredicateHeld
<1> QED
  BY <1>1, <1>2, <1>3, FieldMeant DEF Upper, Lower

LEMMA PointerRange ==
  ASSUME NEW S, NEW p \in Pointers(S)
  PROVE  /\ p = << >> <=> Range(p) = {}
         /\ p # << >> => Range(p) = {p[1]} /\ p = <<p[1]>> /\ p[1] \in S
<1>1. p = << >> \/ (p = <<p[1]>> /\ p[1] \in S /\ DOMAIN p = {1} /\ p # << >>)
  BY PointerType
<1>2. CASE p = << >>
  BY <1>2 DEF Range
<1>3. CASE p # << >>
  <2>1. DOMAIN p = {1} /\ p = <<p[1]>> /\ p[1] \in S
    BY <1>1, <1>3
  <2>2. Range(p) = {p[1]}
    BY <2>1 DEF Range
  <2> QED
    BY <1>3, <2>1, <2>2
<1> QED
  BY <1>2, <1>3

(* There is a range if and only if the predicate has a bound. *)
LEMMA RangeMeant ==
  ASSUME IInv, Active, stage # "predicate", range = RangeOfTime
  PROVE  /\ range = << >> <=> Lower \cup Upper = {}
         /\ range # << >> =>
              /\ range = <<range[1]>>
              /\ {range[1].start} = IF Lower = {} THEN {Zero} ELSE Lower
              /\ {range[1].end} = IF Upper = {} THEN {Now} ELSE Upper
<1>1. Upper = Range(time["end"]) /\ Lower = Range(time["start"])
  BY TimesMeant
<1>2. time["end"] \in Pointers(Nat) /\ time["start"] \in Pointers(Nat)
  BY DEF IInv, TypeOK
<1>3. /\ time["end"] = << >> <=> Upper = {}
      /\ time["end"] # << >> => Upper = {time["end"][1]}
  BY <1>1, <1>2, PointerRange
<1>4. /\ time["start"] = << >> <=> Lower = {}
      /\ time["start"] # << >> => Lower = {time["start"][1]}
  BY <1>1, <1>2, PointerRange
<1>5. CASE time["start"] = << >> /\ time["end"] = << >>
  BY <1>3, <1>4, <1>5 DEF RangeOfTime
<1>6. CASE ~ (time["start"] = << >> /\ time["end"] = << >>)
  <2> DEFINE r == NewRange(time["start"], time["end"])
  <2>1. /\ {r.start} = IF Lower = {} THEN {Zero} ELSE Lower
        /\ {r.end} = IF Upper = {} THEN {Now} ELSE Upper
    BY <1>3, <1>4 DEF NewRange
  <2>2. range = <<r>>
    BY <1>6 DEF RangeOfTime
  <2> HIDE DEF r
  <2>3. range # << >> /\ range[1] = r
    BY <2>2
  <2>4. Lower \cup Upper # {}
    BY <1>3, <1>4, <1>6
  <2> QED
    BY <2>1, <2>2, <2>3, <2>4
<1> QED
  BY <1>5, <1>6

LEMMA GroupsIInv == ASSUME IInv, Groups PROVE IInv'
<1>1. /\ stage = "groups" /\ TypeOK /\ outcome = "" /\ Active
      /\ ~request.limited /\ ~PredicateRefused
  BY NotRefused DEF Groups, IInv, Building, Compiling, Sending
<1>2. /\ UNCHANGED <<request, pos, time, value, range, compiled>>
      /\ IF GroupKinds # {} /\ range = << >> THEN End("panic") /\ calls' = calls
         ELSE End("answered") /\ calls' = calls \cup GroupCalls
  BY DEF Groups
<1>3. stage' = "done" /\ outcome' = IF GroupKinds # {} /\ range = << >> THEN "panic" ELSE "answered"
  BY <1>2 DEF End
<1>4. /\ LabelStops = {} /\ range = RangeOfTime /\ functions = RequestFunctions
      /\ "unsupported" \notin AggregateKindsOf \cup GroupKinds /\ "flat" \notin request.flaws
  BY <1>1 DEF IInv, LabelsHeld, ArgumentsHeld, RowsHeld, Past, Building, Compiling, Sending
<1>5. ~CompilationRefused
  <2>1. ASSUME NEW i \in ValueTerms
        PROVE  LET t == request.terms[i] IN t.ok /\ (t.value # << >> => t.op \in ValueOps)
    <3>1. Read = DOMAIN request.terms
      BY <1>1 DEF Read
    <3>2. ValueTerms \cap Read = ValueTerms
      BY <3>1 DEF ValueTerms
    <3>3. ValueHeld
      BY <1>1 DEF IInv, PredicateHeld
    <3>4. value # << >> /\ value[1] = request.terms[i]
      BY <2>1, <3>2, <3>3 DEF ValueHeld
    <3>5. ValueChecked /\ Past(Compiling)
      BY <1>1 DEF IInv, Past, Compiling, Sending
    <3> QED
      BY <3>4, <3>5 DEF ValueChecked, HasCondition
  <2>2. \A i \in DOMAIN functions : functions[i].fn # "unknown" /\ functions[i].arg # "bad"
    BY <1>1 DEF IInv, FunctionsHeld, Past, Compiling, Sending, Compiled
  <2> QED
    BY <1>4, <2>1, <2>2 DEF CompilationRefused
<1>6. Expected = "answered" /\ outcome' = IF BoundlessGroups THEN "panic" ELSE "answered"
  <2>1. range = << >> <=> Lower \cup Upper = {}
    BY <1>1, <1>4, RangeMeant
  <2>2. Expected = "answered"
    BY <1>1, <1>4, <1>5 DEF Expected
  <2> QED
    BY <1>3, <2>1, <2>2 DEF BoundlessGroups
<1>7. Ended'
  <2>1. Expected' = Expected /\ (BoundlessGroups' <=> BoundlessGroups)
    BY <1>2, RequestSteady
  <2> QED
    BY <1>3, <1>6, <2>1 DEF Ended
<1>8. calls' \subseteq Calls
  BY <1>1, <1>2, CallsType DEF TypeOK
<1>9. RowsHeld'
  BY <1>2, <1>4, RequestSteady DEF RowsHeld
<1>10. CallsSent'
  <2>1. RowsCalls' = RowsCalls /\ AggregateCalls' = AggregateCalls /\ GroupCalls' = GroupCalls
    BY <1>2, CallsSteady DEF compiled
  <2>2. calls = RowsCalls \cup AggregateCalls
    BY <1>1 DEF IInv, CallsSent, Past, Sending
  <2>3. calls' = IF outcome' = "answered" THEN RowsCalls \cup AggregateCalls \cup GroupCalls
                 ELSE RowsCalls \cup AggregateCalls
    BY <1>2, <1>3, <2>2
  <2> QED
    BY <1>3, <2>1, <2>3 DEF CallsSent, Past, Sending
<1> QED
  BY <1>1, <1>2, <1>3, <1>7, <1>8, <1>9, <1>10, SendStep DEF Sending

LEMMA StutterIInv == ASSUME IInv, UNCHANGED vars PROVE IInv'
<1>1. UNCHANGED <<request, stage, outcome, pos, time, value, range, functions, offsetUsed, query, calls>>
  BY DEF vars, compiled
<1>2. TypeOK'
  BY <1>1 DEF IInv, TypeOK
<1>3. /\ Read' = Read /\ \A ops : TermsOn(ops)' = TermsOn(ops)
      /\ ValueTerms' = ValueTerms
  BY <1>1, RequestSteady DEF Read
<1>4. PredicateHeld'
  <2>1. ASSUME NEW f, NEW ops, FieldHeld(f, ops) PROVE FieldHeld(f, ops)'
    BY <1>1, <1>3, <2>1 DEF FieldHeld
  <2>2. TermsFit /\ ValueHeld => TermsFit' /\ ValueHeld'
    BY <1>1, <1>3 DEF TermsFit, ValueHeld
  <2>3. PredicateHeld /\ (Active' <=> Active)
    BY <1>1 DEF IInv, Active
  <2> QED
    BY <1>1, <2>1, <2>2, <2>3 DEF PredicateHeld
<1>5. \A stages : Past(stages)' <=> Past(stages)
  BY <1>1 DEF Past
<1>6. /\ ArgumentsHeld' /\ LabelsHeld' /\ ValueChecked' /\ FunctionsHeld' /\ RowsHeld'
  BY <1>1, <1>5, RequestSteady DEF IInv, RangeOfTime, ArgumentsHeld, LabelsHeld, ValueChecked,
     HasCondition, Compiled, FunctionsHeld, RowsHeld, Past
<1>9. Ended'
  <2>1. Expected' = Expected /\ (BoundlessGroups' <=> BoundlessGroups)
    BY <1>1, RequestSteady
  <2> QED
    BY <1>1, <2>1 DEF IInv, Ended
<1>7. CallsSent'
  BY <1>1, <1>5, CallsSteady DEF IInv, CallsSent, Past
<1>8. QueryBuilt'
  <2>1. /\ HasRangeVectorFunction' <=> HasRangeVectorFunction
        /\ HasCondition' <=> HasCondition
        /\ FunctionsFit' <=> FunctionsFit
        /\ InputsFit' <=> InputsFit
        /\ \A i : Takes(i)' <=> Takes(i)
        /\ Offsets(query)' = Offsets(query)
        /\ Compiled' = Compiled
    BY <1>1, FunctionsSteady DEF HasCondition, Takes, Offsets, Compiled
  <2>2. Selector' = Selector
    BY <1>1, <2>1 DEF Selector
  <2>3. OffsetPlaced => OffsetPlaced'
    BY <1>1, <2>1 DEF OffsetPlaced
  <2>4. RangesPlaced /\ ValuePlaced => RangesPlaced' /\ ValuePlaced'
    BY <1>1, <2>1 DEF RangesPlaced, ValuePlaced
  <2>5. (Past(Building)' <=> Past(Building)) /\ (Active' <=> Active)
    BY <1>1 DEF Past, Active
  <2>6. QueryBuilt
    BY DEF IInv
  <2> QED
    BY <1>1, <2>2, <2>3, <2>4, <2>5, <2>6 DEF QueryBuilt
<1> QED
  BY <1>1, <1>2, <1>4, <1>6, <1>7, <1>8, <1>9 DEF IInv
-----------------------------------------------------------------------------
LEMMA NextIInv == ASSUME IInv, [Next]_vars PROVE IInv'
BY DispatchIInv, EvalTimestampIInv, EvalValueIInv, EvalAggregateIInv, EvalOtherIInv, EvalArgumentsIInv,
   BuildPredicateIInv, CheckValueIInv, CompileInstantIInv, CompileInputIInv, CompileRangeIInv,
   CompileFailsIInv, CompileValueIInv, RowsIInv, AggregatesIInv, GroupsIInv, StutterIInv
   DEF Next, Done

(* Of every request, whatever its terms, functions, labels, aggregates and *)
(* groups and in whatever order: each field of the request holds what the  *)
(* terms read so far say, each stage has checked what the next ones rely   *)
(* on, the offset, the ranges and the value are where they belong in the   *)
(* expression, and the queries sent are those of the sections passed.      *)
THEOREM InductiveInvariant == Spec => []IInv
<1>1. Init => IInv
  BY InitIInv
<1>2. IInv /\ [Next]_vars => IInv'
  BY NextIInv
<1> QED
  BY <1>1, <1>2, PTL DEF Spec

(* Every variable of the evaluation has its type. *)
THEOREM TypeCorrect == Spec => []TypeOK
<1>1. IInv => TypeOK
  BY DEF IInv
<1> QED
  BY <1>1, InductiveInvariant, PTL

(* Queries are sent only when everything before has passed. *)
LEMMA SentState ==
  ASSUME IInv, calls # {}
  PROVE  /\ TypeOK /\ Active /\ stage \notin {"predicate", "value", "functions"}
         /\ Past(Sending) /\ Read = DOMAIN request.terms /\ Compiled = DOMAIN functions
         /\ range = RangeOfTime
         /\ query # << >> /\ query[1] = Selector
         /\ OffsetPlaced /\ RangesPlaced /\ ValuePlaced
<1>1. TypeOK /\ Past(Sending)
  BY DEF IInv, CallsSent
<1>2. stage \in Sending \cup {"done"} /\ Active /\ stage \notin {"predicate", "value", "functions"}
  BY <1>1 DEF TypeOK, Past, Sending, Active
<1>3. Read = DOMAIN request.terms /\ Compiled = DOMAIN functions
  BY <1>2 DEF Read, Compiled, Sending
<1>4. Past({"labels"} \cup Building) /\ Past(Building)
  BY <1>1 DEF Past, Building, Compiling
<1>5. range = RangeOfTime
  BY <1>4 DEF IInv, ArgumentsHeld
<1>6. /\ query # << >> /\ query[1] = Selector
      /\ OffsetPlaced /\ RangesPlaced /\ ValuePlaced
  BY <1>4 DEF IInv, QueryBuilt
<1> QED
  BY <1>1, <1>2, <1>3, <1>5, <1>6

(* A query sent is one of the rows, the aggregates or the groups, and one  *)
(* over a range only if there is a range.                                  *)
LEMMA SentCall ==
  ASSUME IInv, NEW c \in calls
  PROVE  \/ c = OverRange(RowsQuery, "rows", range) /\ range # << >>
         \/ c = Instant(RowsQuery, "rows", time["timestamp"]) /\ range = << >>
         \/ \E kind \in AggregateKindsOf :
              c = Instant(Aggregated(kind), "aggregates", AggregateTime)
         \/ \E kind \in GroupKinds :
              c = OverRange(GroupQuery(kind), "groups", range) /\ range # << >>
<1>1. Past(Sending) /\ Active /\ stage # "predicate" /\ range = RangeOfTime /\ TypeOK
  BY SentState
<1>2. \/ c \in RowsCalls \/ c \in AggregateCalls
      \/ stage # "aggregates" /\ outcome = "answered" /\ c \in GroupCalls
  BY <1>1 DEF IInv, CallsSent
<1>3. ASSUME outcome = "answered", GroupKinds # {} PROVE range # << >>
  <2>1. stage = "done" /\ Ended
    BY <1>1, <1>3 DEF IInv, TypeOK
  <2>2. ~ (GroupKinds # {} /\ Lower \cup Upper = {})
    BY <1>3, <2>1 DEF Ended, BoundlessGroups
  <2> QED
    BY <1>1, <1>3, <2>2, RangeMeant
<1> QED
  BY <1>2, <1>3 DEF RowsCalls, AggregateCalls, GroupCalls

(* The time of every query sent is what the comparisons of the timestamp   *)
(* ask for, however many they are and in whatever order.                   *)
THEOREM TimeIsMeant == Spec => []TimeMeant
<1>1. ASSUME IInv PROVE TimeMeant
  <2> SUFFICES ASSUME NEW c \in calls
               PROVE  /\ c.api = "query_range" /\ Lower \cup Upper # {} =>
                           /\ {c.over[1].start} = IF Lower = {} THEN {Zero} ELSE Lower
                           /\ {c.over[1].end} = IF Upper = {} THEN {Now} ELSE Upper
                      /\ c.section = "rows" /\ Lower \cup Upper # {} /\ Meant({"_eq"}) = {} =>
                           c.api = "query_range"
                      /\ c.section = "rows" /\ Lower \cup Upper = {} /\ Meant({"_eq"}) # {} =>
                           c.api = "query" /\ Range(c.at) = Meant({"_eq"})
                      /\ c.section = "aggregates" =>
                           Range(c.at) = IF Meant({"_eq"}) # {} THEN Meant({"_eq"})
                                           ELSE IF Upper # {} THEN Upper ELSE {Now}
    BY DEF TimeMeant
  <2>1. TypeOK /\ Active /\ stage # "predicate" /\ range = RangeOfTime
    BY <1>1, SentState
  <2>2. /\ range = << >> <=> Lower \cup Upper = {}
        /\ range # << >> =>
             /\ range = <<range[1]>>
             /\ {range[1].start} = IF Lower = {} THEN {Zero} ELSE Lower
             /\ {range[1].end} = IF Upper = {} THEN {Now} ELSE Upper
    BY <1>1, <2>1, RangeMeant
  <2>3. Meant({"_eq"}) = Range(time["timestamp"])
    BY <1>1, <2>1, TimesMeant
  <2>4. Range(AggregateTime) = IF Meant({"_eq"}) # {} THEN Meant({"_eq"})
                                 ELSE IF Upper # {} THEN Upper ELSE {Now}
    <3>1. time["timestamp"] \in Pointers(Nat)
      BY <2>1 DEF TypeOK
    <3>2. time["timestamp"] = << >> <=> Meant({"_eq"}) = {}
      BY <2>3, <3>1, PointerRange
    <3>3. \A x : Range(<<x>>) = {x}
      BY DEF Range
    <3>4. CASE time["timestamp"] # << >>
      BY <2>3, <3>2, <3>4 DEF AggregateTime
    <3>5. CASE time["timestamp"] = << >> /\ range # << >>
      <4>1. Range(AggregateTime) = {range[1].end}
        BY <3>3, <3>5 DEF AggregateTime
      <4> QED
        BY <2>2, <3>2, <3>5, <4>1
    <3>6. CASE time["timestamp"] = << >> /\ range = << >>
      <4>1. Range(AggregateTime) = {Now}
        BY <3>3, <3>6 DEF AggregateTime
      <4> QED
        BY <2>2, <3>2, <3>6, <4>1
    <3> QED
      BY <3>4, <3>5, <3>6
  <2>5. /\ \A q, section, t : /\ Instant(q, section, t).api = "query"
                              /\ Instant(q, section, t).section = section
                              /\ Instant(q, section, t).at = t
        /\ \A q, section : /\ OverRange(q, section, range).api = "query_range"
                           /\ OverRange(q, section, range).section = section
                           /\ OverRange(q, section, range).over = range
    BY DEF Instant, OverRange
  <2>6. CASE c = OverRange(RowsQuery, "rows", range) /\ range # << >>
    BY <2>2, <2>5, <2>6
  <2>7. CASE c = Instant(RowsQuery, "rows", time["timestamp"]) /\ range = << >>
    BY <2>2, <2>3, <2>5, <2>7
  <2>8. CASE \E kind \in AggregateKindsOf :
               c = Instant(Aggregated(kind), "aggregates", AggregateTime)
    <3>1. c.api = "query" /\ c.section = "aggregates" /\ c.at = AggregateTime
      BY <2>5, <2>8
    <3> QED
      BY <2>4, <3>1
  <2>9. CASE \E kind \in GroupKinds :
               c = OverRange(GroupQuery(kind), "groups", range) /\ range # << >>
    BY <2>2, <2>5, <2>9
  <2>10. \/ c = OverRange(RowsQuery, "rows", range) /\ range # << >>
         \/ c = Instant(RowsQuery, "rows", time["timestamp"]) /\ range = << >>
         \/ \E kind \in AggregateKindsOf :
              c = Instant(Aggregated(kind), "aggregates", AggregateTime)
         \/ \E kind \in GroupKinds :
              c = OverRange(GroupQuery(kind), "groups", range) /\ range # << >>
    BY <1>1, SentCall
  <2> QED
    BY <2>6, <2>7, <2>8, <2>9, <2>10
<1> QED
  BY <1>1, InductiveInvariant, PTL
-----------------------------------------------------------------------------
(* What is put around the compiled expression when it is sent. *)
Added == AggregateKinds \cup {part \in {"quantile"} : request.kind = "quantile"}

Around(q) ==
  /\ q \in Seq(Layers)
  /\ DOMAIN query \subseteq DOMAIN q
  /\ \A n \in DOMAIN query : q[n] = query[n]
  /\ \A n \in DOMAIN q \ DOMAIN query :
       /\ q[n].offset = 0 /\ q[n].bracket = "none"
       /\ q[n].part \in Added

LEMMA AroundOne ==
  ASSUME TypeOK, NEW q, Around(q), NEW part \in Added
  PROVE  Around(Append(q, Layer(part, "none", 0)))
<1> DEFINE l == Layer(part, "none", 0)
<1>1. l \in Layers /\ l.offset = 0 /\ l.bracket = "none" /\ l.part = part
  <2>1. part \in Parts /\ 0 \in Nat
    BY DEF Parts, Added
  <2> QED
    BY <2>1, LayerType
<1> HIDE DEF l
<1>2. q \in Seq(Layers)
  BY DEF Around
<1>3. /\ Append(q, l) \in Seq(Layers)
      /\ DOMAIN Append(q, l) = DOMAIN q \cup {Len(q) + 1}
      /\ Len(q) + 1 \notin DOMAIN q
      /\ \A n \in DOMAIN q : Append(q, l)[n] = q[n]
      /\ Append(q, l)[Len(q) + 1] = l
  BY <1>1, <1>2, AppendLayer
<1>4. Around(Append(q, l))
  BY <1>1, <1>3 DEF Around
<1> QED
  BY <1>4 DEF l

LEMMA SentAround ==
  ASSUME IInv, NEW c \in calls
  PROVE  Around(c.query)
<1>1. TypeOK
  BY DEF IInv
<1>2. Around(query)
  BY <1>1 DEF Around, TypeOK
<1>3. /\ AggregateKinds \subseteq Added
      /\ request.kind = "quantile" => "quantile" \in Added
  BY DEF Added
<1>4. Around(RowsQuery)
  <2>1. request.kind = "quantile" => Around(Append(query, Quantile))
    BY <1>1, <1>2, <1>3, AroundOne DEF Quantile
  <2> QED
    BY <1>2, <2>1 DEF RowsQuery
<1>5. ASSUME NEW kind \in AggregateKinds PROVE Around(Aggregated(kind)) /\ Around(GroupQuery(kind))
  <2>1. Around(Aggregated(kind))
    BY <1>1, <1>2, <1>3, AroundOne DEF Aggregated
  <2>2. request.kind = "quantile" => Around(Append(Aggregated(kind), Quantile))
    BY <1>1, <1>3, <2>1, AroundOne DEF Quantile
  <2> QED
    BY <2>1, <2>2 DEF GroupQuery
<1>6. AggregateKindsOf \subseteq AggregateKinds /\ GroupKinds \subseteq AggregateKinds
  BY <1>1, RequestType
<1>7. \/ c.query = RowsQuery
      \/ \E kind \in AggregateKinds : c.query = Aggregated(kind) \/ c.query = GroupQuery(kind)
  BY <1>6, SentCall DEF Instant, OverRange
<1> QED
  BY <1>4, <1>5, <1>7

(* Every expression sent has the offset exactly once and where PromQL      *)
(* accepts it, if a range function takes it whenever there is one and no   *)
(* other function reads a range from the selector that has it.             *)
THEOREM OffsetPlacedOnce == Spec => []OffsetOnce
<1>1. ASSUME IInv PROVE OffsetOnce
  <2> SUFFICES ASSUME NEW c \in calls,
                      HasRangeVectorFunction => \E i \in DOMAIN functions : Takes(i),
                      InputsFit
               PROVE  OffsetGiven(c.query)
    BY DEF OffsetOnce
  <2>1. /\ TypeOK /\ OffsetPlaced /\ RangesPlaced /\ Compiled = DOMAIN functions
        /\ query[1] = Selector
    BY <1>1, SentState
  <2>2. Around(c.query)
    BY <1>1, SentAround
  <2>3. Offsets(c.query) = Offsets(query)
    BY <2>2 DEF Offsets, Around
  <2>4. \A n \in Offsets(query) : c.query[n] = query[n]
    BY <2>2 DEF Offsets, Around
  <2>5. request.offset \in Nat
    BY <2>1, RequestType
  <2>6. CASE request.offset = 0
    <3>1. Offsets(query) = {}
      BY <2>1, <2>6 DEF OffsetPlaced
    <3> QED
      BY <2>3, <2>6, <3>1, FS_EmptySet DEF OffsetGiven
  <2>7. CASE request.offset # 0
    <3>1. request.offset > 0
      BY <2>5, <2>7
    <3>2. ~ (HasRangeVectorFunction /\ ~offsetUsed)
      BY <2>1, <3>1 DEF OffsetPlaced
    <3>3. PICK n \in DOMAIN query :
            /\ Offsets(query) = {n} /\ query[n].offset = request.offset
            /\ IF query[n].part = "select" THEN n = 1 ELSE query[n].bracket # "none"
      BY <2>1, <2>7, <3>2 DEF OffsetPlaced
    <3>4. Cardinality({n}) = 1 /\ c.query[n] = query[n]
      BY <2>4, <3>3, FS_Singleton
    <3>5. OffsetAllowed(c.query, n)
      <4>1. CASE query[n].part # "select"
        BY <3>3, <3>4, <4>1 DEF OffsetAllowed
      <4>2. CASE query[n].part = "select"
        <5>1. n = 1 /\ Selector.offset > 0
          BY <2>1, <3>1, <3>3, <4>2
        <5>2. ~HasRangeVectorFunction
          BY <2>1, <5>1, SelectorType
        <5>3. ASSUME 2 \in DOMAIN c.query PROVE c.query[2].bracket # "range"
          <6>1. CASE 2 \in DOMAIN query
            <7>1. query \in Seq(Layers)
              BY <2>1 DEF TypeOK
            <7>2. Len(query) > 1
              BY <6>1, <7>1
            <7> QED
              BY <2>1, <2>2, <5>2, <6>1, <7>2 DEF RangesPlaced, Around
          <6>2. CASE 2 \notin DOMAIN query
            BY <2>2, <5>3, <6>2 DEF Around
          <6> QED
            BY <6>1, <6>2
        <5> QED
          BY <3>4, <4>2, <5>1, <5>3 DEF OffsetAllowed
      <4> QED
        BY <4>1, <4>2
    <3> QED
      BY <2>3, <2>4, <3>1, <3>3, <3>4, <3>5 DEF OffsetGiven
  <2> QED
    BY <2>6, <2>7
<1> QED
  BY <1>1, InductiveInvariant, PTL

(* In every expression sent of functions that fit, a range without a       *)
(* resolution is read from the selector itself, which has no offset.       *)
THEOREM RangesAreOfSelectors == Spec => []RangesOfSelectors
<1>1. ASSUME IInv PROVE RangesOfSelectors
  <2> SUFFICES ASSUME NEW c \in calls, FunctionsFit, NEW n \in DOMAIN c.query,
                      c.query[n].bracket = "range"
               PROVE  n = 2 /\ c.query[1].offset = 0
    BY DEF RangesOfSelectors
  <2>1. TypeOK /\ RangesPlaced /\ query # << >>
    BY <1>1, SentState
  <2>2. Around(c.query)
    BY <1>1, SentAround
  <2>3. n \in DOMAIN query /\ query[n].bracket = "range"
    BY <2>2 DEF Around
  <2>4. n = 2 /\ query[1].offset = 0
    BY <2>1, <2>3 DEF RangesPlaced
  <2>5. 1 \in DOMAIN query
    <3>1. query \in Seq(Layers)
      BY <2>1 DEF TypeOK
    <3> QED
      BY <2>1, <3>1
  <2> QED
    BY <2>2, <2>4, <2>5 DEF Around
<1> QED
  BY <1>1, InductiveInvariant, PTL

(* Every expression sent filters by the value once if the predicate has    *)
(* such a condition, and by nothing otherwise; outside a quantile's        *)
(* collection what it filters is what all the functions make.              *)
THEOREM ValueFiltersLast == Spec => []ValueFilters
<1>1. ASSUME IInv PROVE ValueFilters
  <2> DEFINE Meaning == {i \in ValueTerms : request.terms[i].value # << >>}
             Where(q) == {n \in DOMAIN q : q[n].part = "compare"}
  <2> SUFFICES ASSUME NEW c \in calls
               PROVE  /\ Cardinality(Where(c.query)) = Cardinality(Meaning)
                      /\ request.kind # "quantile" =>
                           \A n \in Where(c.query) : \A m \in n .. Len(c.query) :
                             c.query[m].part \notin {"call", "quantile"}
    BY DEF ValueFilters
  <2>1. /\ TypeOK /\ Active /\ Read = DOMAIN request.terms /\ query # << >>
        /\ stage \notin {"value", "functions"} /\ ValuePlaced
    BY <1>1, SentState
  <2>2. Around(c.query)
    BY <1>1, SentAround
  <2>3. \A n \in DOMAIN query : query[n].part = "compare" <=> HasCondition /\ n = Len(query)
    BY <2>1 DEF ValuePlaced
  <2>4. /\ query \in Seq(Layers) /\ c.query \in Seq(Layers) /\ Len(query) \in DOMAIN query
        /\ DOMAIN query = 1 .. Len(query) /\ Len(query) \in Nat
        /\ DOMAIN c.query = 1 .. Len(c.query) /\ Len(c.query) \in Nat
    <3>1. query \in Seq(Layers) /\ query # << >>
      BY <2>1 DEF TypeOK
    <3>2. c.query \in Seq(Layers)
      BY <2>2 DEF Around
    <3> QED
      BY <3>1, <3>2
  <2>5. \A n \in DOMAIN c.query \ DOMAIN query :
          /\ c.query[n].part \notin {"compare", "call"}
          /\ request.kind # "quantile" => c.query[n].part # "quantile"
    BY <2>2 DEF Around, Added, AggregateKinds
  <2>6. \A n \in DOMAIN query : n \in DOMAIN c.query /\ c.query[n] = query[n]
    BY <2>2 DEF Around
  <2>7. Where(c.query) = IF HasCondition THEN {Len(query)} ELSE {}
    <3>1. Where(c.query) = {n \in DOMAIN query : query[n].part = "compare"}
      BY <2>5, <2>6
    <3>2. {n \in DOMAIN query : query[n].part = "compare"} = IF HasCondition THEN {Len(query)} ELSE {}
      BY <2>3, <2>4
    <3> QED
      BY <3>1, <3>2
  <2>8. \/ Meaning = {} /\ ~HasCondition
        \/ \E i : Meaning = {i} /\ HasCondition
    <3>1. ValueHeld
      BY <1>1, <2>1 DEF IInv, PredicateHeld
    <3>2. ValueTerms \cap Read = ValueTerms
      BY <2>1 DEF ValueTerms
    <3>3. CASE value = << >>
      BY <3>1, <3>2, <3>3 DEF ValueHeld, HasCondition
    <3>4. CASE value # << >>
      <4>1. PICK i \in Read : value = <<request.terms[i]>> /\ ValueTerms = {i}
        BY <3>1, <3>2, <3>4 DEF ValueHeld
      <4>2. value[1] = request.terms[i]
        BY <4>1
      <4> QED
        BY <3>4, <4>1, <4>2 DEF HasCondition
    <3> QED
      BY <3>3, <3>4
  <2>9. Cardinality(Where(c.query)) = Cardinality(Meaning)
    <3>1. CASE HasCondition
      <4>1. Cardinality(Where(c.query)) = 1
        BY <2>7, <3>1, FS_Singleton
      <4>2. Cardinality(Meaning) = 1
        BY <2>8, <3>1, FS_Singleton
      <4> QED
        BY <4>1, <4>2
    <3>2. CASE ~HasCondition
      BY <2>7, <2>8, <3>2
    <3> QED
      BY <3>1, <3>2
  <2>10. ASSUME request.kind # "quantile",
                NEW n \in Where(c.query), NEW m \in n .. Len(c.query)
         PROVE  c.query[m].part \notin {"call", "quantile"}
    <3>1. n = Len(query) /\ HasCondition
      BY <2>7
    <3>2. CASE m = Len(query)
      BY <2>3, <2>4, <2>6, <3>1, <3>2
    <3>3. CASE m # Len(query)
      <4>1. m \in DOMAIN c.query \ DOMAIN query
        <5>1. m \in Len(query) .. Len(c.query)
          BY <3>1
        <5>2. m \in 1 .. Len(c.query) /\ m \notin 1 .. Len(query)
          <6>1. \A a, b \in Nat : \A x \in a .. b :
                  a # 0 /\ x # a => x \in 1 .. b /\ x \notin 1 .. a
            OBVIOUS
          <6>2. Len(query) \in Nat /\ Len(c.query) \in Nat /\ Len(query) # 0
            BY <2>4
          <6> QED
            BY <3>3, <5>1, <6>1, <6>2
        <5> QED
          BY <2>4, <5>2
      <4> QED
        BY <2>5, <2>10, <4>1
    <3> QED
      BY <3>2, <3>3
  <2> QED
    BY <2>9, <2>10
<1> QED
  BY <1>1, InductiveInvariant, PTL

(* What becomes of every request that is refused or asks for no groups     *)
(* without a bound does not depend on the order of its terms, and nothing  *)
(* is sent of one that is refused or cannot have rows.                     *)
THEOREM OutcomeIsExact == Spec => []OutcomeExact
<1>1. ASSUME IInv PROVE OutcomeExact
  <2> SUFFICES ASSUME stage = "done"
               PROVE  /\ ~BoundlessGroups \/ Expected # "answered" => outcome = Expected
                      /\ outcome \in {"refused", "empty"} => calls = {}
                      /\ outcome = "answered" => \A kind \in GroupKinds :
                           \E c \in calls : c.section = "groups" /\ c.query = GroupQuery(kind)
    BY DEF OutcomeExact
  <2>1. ~BoundlessGroups \/ Expected # "answered" => outcome = Expected
    BY <1>1 DEF IInv, Ended
  <2>2. outcome \in {"refused", "empty"} => calls = {}
    BY <1>1 DEF IInv, CallsSent, Past, Sending
  <2>3. ASSUME outcome = "answered", NEW kind \in GroupKinds
        PROVE  \E c \in calls : c.section = "groups" /\ c.query = GroupQuery(kind)
    <3>1. OverRange(GroupQuery(kind), "groups", range) \in calls
      BY <1>1, <2>3 DEF IInv, CallsSent, Past, Sending, GroupCalls
    <3> QED
      BY <3>1 DEF OverRange
  <2> QED
    BY <2>1, <2>2, <2>3
<1> QED
  BY <1>1, InductiveInvariant, PTL
=============================================================================
