-------------------------- MODULE CollectionQuery --------------------------
(***************************************************************************)
(* One query of a collection (connector/query_explain.go,                  *)
(* connector/internal/collection_request.go, collection_explain.go): the   *)
(* predicate is read term by term, the functions are compiled one around   *)
(* the other into a PromQL expression, and the expression is sent as rows, *)
(* aggregates or groups, at an instant or over a range.                    *)
(*                                                                         *)
(* An expression is the sequence of what it was built of, from the         *)
(* selector outwards.  A pointer is a sequence of at most one element,     *)
(* nil being << >>.  Steps, timeouts, names and formats are left out.      *)
(***************************************************************************)
EXTENDS Naturals, Sequences, FiniteSetsExt, Functions

CONSTANTS
  Requests,  (* the requests of the engine, see IsRequest                   *)
  Now        (* time.Now()                                                  *)

Pointers(S) == {p \in Seq(S) : Len(p) <= 1}

Zero == 0    (* time.Time{}, the start of a range without a lower bound     *)

TimeOps == {"_eq", "_lt", "_lte", "_gt", "_gte"}
ValueOps == TimeOps \cup {"_neq"}

(* A comparison of the predicate; ok: its value can be decoded.  Those of  *)
(* labels are in the field labels of the request.  The column "aggregate"  *)
(* is a target that is no column; a term of the column "other" is an       *)
(* expression that is neither "and" nor binary.                            *)
Terms == [column : {"timestamp", "value", "aggregate", "other"}, op : STRING,
          value : Pointers(Nat), ok : BOOLEAN]

(* An item of the argument fn.  "range" stands for RangeVectorFunctions,   *)
(* "input" for holt_winters, predict_linear and quantile_over_time, whose  *)
(* argument has a range among other fields, "instant" for the other known  *)
(* ones.  The argument is null (or false), cannot be decoded, has a range, *)
(* a range and a resolution, or is any other value.                        *)
FunctionItems ==
  [fn : {"instant", "unknown"}, arg : {"null", "bad", "value"}] \cup
  [fn : {"range", "input"}, arg : {"null", "bad", "range", "resolution"}]

AggregateKinds == {"star", "column", "single", "unsupported"}

(* A metric's own collection or one of its _sum, _count or _bucket; its    *)
(* _rate, _irate or _increase; its _quantile; a name no metric has.        *)
Kinds == {"metric", "counter", "quantile", "unknown"}

Request ==
  [kind : Kinds,                              (* the collection's suffix    *)
   limited : BOOLEAN,                         (* limit is not positive      *)
   terms : Seq(Terms),                        (* the predicate, flattened   *)
   flaws : SUBSET {"argument", "flat"},       (* see EvalArguments, Execute *)
   offset : Nat,
   quantile : BOOLEAN,                        (* the argument is given      *)
   fns : Seq(FunctionItems),
   labels : Seq({"condition", "empty", "error"}), (* LabelExpression, sorted *)
   aggregates : SUBSET AggregateKinds,
   groups : Pointers(SUBSET AggregateKinds)]

ASSUME CollectionAssumption == Requests \subseteq Request /\ Now \in Nat

VARIABLES
  request,
  stage,      (* "limit", "predicate", "labels", "value", "functions",      *)
              (* "rows", "aggregates", "groups" or "done"                   *)
  outcome,    (* "" until done: "refused", "empty", "answered" or "panic"   *)
  pos,        (* the next term of the predicate or function                 *)
  time,       (* Timestamp, start and end of CollectionValidatedArguments   *)
  value,      (* CollectionRequest.Value                                    *)
  range,      (* CollectionRequest.Range                                    *)
  functions,  (* CollectionRequest.Functions                                *)
  offsetUsed, (* CollectionRequest.OffsetUsed                               *)
  query,      (* the expression built so far                                *)
  calls       (* the queries sent                                           *)

compiled == <<functions, offsetUsed, query>>
vars == <<request, stage, outcome, pos, time, value, range, compiled, calls>>

End(how) == stage' = "done" /\ outcome' = how
Goto(s) == stage' = s /\ UNCHANGED outcome

Refuse ==
  /\ End("refused")
  /\ UNCHANGED <<request, pos, time, value, range, compiled, calls>>
-----------------------------------------------------------------------------
Init ==
  /\ request \in Requests
  /\ stage = "limit"
  /\ outcome = ""
  /\ pos = 1
  /\ time = [f \in {"timestamp", "start", "end"} |-> << >>]
  /\ value = << >>
  /\ range = << >>
  /\ functions = << >>
  /\ offsetUsed = FALSE
  /\ query = << >>
  /\ calls = {}

DispatchContinues ==
  /\ stage = "limit"
  /\ stage' = "predicate"
  /\ outcome' = IF request.limited THEN "empty" ELSE ""
  /\ UNCHANGED <<request, pos, time, value, range, compiled, calls>>

(* A limit that is not positive is answered before the request is read. *)
Dispatch ==
  /\ stage = "limit"
  /\ IF request.limited THEN End("empty")
     ELSE IF request.kind = "unknown" THEN End("refused")
     ELSE Goto("predicate")
  /\ UNCHANGED <<request, pos, time, value, range, compiled, calls>>
-----------------------------------------------------------------------------
Term == request.terms[pos]
AtTerm(column) ==
  /\ stage = "predicate"
  /\ pos \in DOMAIN request.terms
  /\ Term.column = column

FieldOf(op) ==
  IF op = "_eq" THEN "timestamp" ELSE IF op \in {"_lt", "_lte"} THEN "end" ELSE "start"

EvalTimestampLast ==
  /\ AtTerm("timestamp")
  /\ IF Term.op \in TimeOps /\ Term.ok
     THEN /\ time' = [time EXCEPT ![FieldOf(Term.op)] = Term.value]
          /\ pos' = pos + 1
          /\ UNCHANGED <<request, stage, outcome, value, range, compiled, calls>>
     ELSE Refuse

(* The field is set whatever the value decodes to; null leaves it nil. *)
EvalTimestamp ==
  /\ AtTerm("timestamp")
  /\ IF Term.op \in TimeOps /\ time[FieldOf(Term.op)] = << >> /\ Term.ok
     THEN /\ time' = [time EXCEPT ![FieldOf(Term.op)] = Term.value]
          /\ pos' = pos + 1
          /\ UNCHANGED <<request, stage, outcome, value, range, compiled, calls>>
     ELSE Refuse

EvalValueLast ==
  /\ AtTerm("value")
  /\ value' = <<Term>>
  /\ pos' = pos + 1
  /\ UNCHANGED <<request, stage, outcome, time, range, compiled, calls>>

EvalValue ==
  /\ AtTerm("value")
  /\ IF value = << >>
     THEN /\ value' = <<Term>>
          /\ pos' = pos + 1
          /\ UNCHANGED <<request, stage, outcome, time, range, compiled, calls>>
     ELSE Refuse

(* A target that is no column falls through the switch: the comparison is  *)
(* dropped, and the request goes on without it.                            *)
EvalAggregate ==
  /\ AtTerm("aggregate")
  /\ pos' = pos + 1
  /\ UNCHANGED <<request, stage, outcome, time, value, range, compiled, calls>>

EvalOther == AtTerm("other") /\ Refuse

NewRange(start, end) ==
  [start |-> IF start = << >> THEN Zero ELSE start[1],
   end   |-> IF end = << >> THEN Now ELSE end[1]]

(* The range function of a counter's collection is given the step. *)
StepFunction == [fn |-> "range", arg |-> "range"]

RequestFunctions ==
  IF request.kind = "metric" THEN request.fns
  ELSE IF request.kind = "counter" THEN <<StepFunction>> \o request.fns
  ELSE <<StepFunction>>

RangeOfTime ==
  IF time["start"] = << >> /\ time["end"] = << >> THEN << >>
  ELSE <<NewRange(time["start"], time["end"])>>

(* The flaw "argument" is one of an argument, of a grouping dimension or   *)
(* of the order.                                                           *)
EvalArguments ==
  /\ stage = "predicate"
  /\ pos \notin DOMAIN request.terms
  /\ IF \/ "argument" \in request.flaws
        \/ request.kind = "quantile" /\ ~request.quantile
     THEN Refuse
     ELSE /\ Goto("labels")
          /\ range' = RangeOfTime
          /\ functions' = RequestFunctions
          /\ UNCHANGED <<request, pos, time, value, offsetUsed, query, calls>>
-----------------------------------------------------------------------------
HasRangeVectorFunction == \E i \in DOMAIN functions : functions[i].fn = "range"

Layer(part, bracket, offset) ==
  [part |-> part, bracket |-> bracket, offset |-> offset]

SelectorWithOffset == Layer("select", "none", request.offset)

Selector ==
  Layer("select", "none", IF HasRangeVectorFunction THEN 0 ELSE request.offset)

(* buildCollectionPredicateQuery: the first label that does not yield a    *)
(* condition decides.                                                      *)
BuildPredicate ==
  LET stops == {i \in DOMAIN request.labels : request.labels[i] # "condition"} IN
  /\ stage = "labels"
  /\ IF stops = {}
     THEN Goto("value") /\ query' = <<Selector>>
     ELSE /\ End(IF request.labels[Min(stops)] = "empty"
                 THEN "empty" ELSE "refused")
          /\ UNCHANGED query
  /\ UNCHANGED <<request, pos, time, value, range, functions, offsetUsed, calls>>

HasComparison == value # << >>

HasCondition == value # << >> /\ value[1].value # << >>

(* evalValueComparisonCondition, before the functions are compiled. *)
CheckValue ==
  /\ stage = "value"
  /\ IF \/ value # << >> /\ ~value[1].ok
        \/ HasCondition /\ value[1].op \notin ValueOps
     THEN Refuse
     ELSE /\ Goto("functions")
          /\ pos' = 1
          /\ UNCHANGED <<request, time, value, range, compiled, calls>>

Fn == functions[pos]
AtFunction(kinds) ==
  /\ stage = "functions"
  /\ pos \in DOMAIN functions
  /\ Fn.fn \in kinds

Bracket == IF Fn.arg = "resolution" THEN "subquery" ELSE "range"

(* buildQueryStringByFunction, by the kind of function; a null argument    *)
(* leaves the query as it is.                                              *)
CompileInstant ==
  /\ AtFunction({"instant"})
  /\ Fn.arg # "bad"
  /\ query' = IF Fn.arg = "null" THEN query
              ELSE Append(query, Layer("call", "none", 0))
  /\ pos' = pos + 1
  /\ UNCHANGED <<request, stage, outcome, time, value, range, functions,
                 offsetUsed, calls>>

CompileInput ==
  /\ AtFunction({"input"})
  /\ Fn.arg # "bad"
  /\ query' = IF Fn.arg = "null" THEN query
              ELSE Append(query, Layer("call", Bracket, 0))
  /\ pos' = pos + 1
  /\ UNCHANGED <<request, stage, outcome, time, value, range, functions,
                 offsetUsed, calls>>

CompileRangeAgain ==
  /\ AtFunction({"range"})
  /\ Fn.arg # "bad"
  /\ query' = IF Fn.arg = "null" THEN query
              ELSE Append(query, Layer("call", Bracket, request.offset))
  /\ pos' = pos + 1
  /\ UNCHANGED <<request, stage, outcome, time, value, range, functions,
                 offsetUsed, calls>>

CompileRange ==
  LET offset == IF offsetUsed THEN 0 ELSE request.offset IN
  /\ AtFunction({"range"})
  /\ Fn.arg # "bad"
  /\ IF Fn.arg = "null"
     THEN UNCHANGED <<query, offsetUsed>>
     ELSE /\ query' = Append(query, Layer("call", Bracket, offset))
          /\ offsetUsed' = (offsetUsed \/ offset > 0)
  /\ pos' = pos + 1
  /\ UNCHANGED <<request, stage, outcome, time, value, range, functions, calls>>

CompileFails ==
  /\ AtFunction({"instant", "range", "input", "unknown"})
  /\ Fn.fn = "unknown" \/ Fn.arg = "bad"
  /\ Refuse

(* The condition on the value goes around all the functions. *)
CompileValue ==
  /\ stage = "functions"
  /\ pos \notin DOMAIN functions
  /\ query' = IF HasCondition THEN Append(query, Layer("compare", "none", 0))
              ELSE query
  /\ Goto("rows")
  /\ UNCHANGED <<request, pos, time, value, range, functions, offsetUsed, calls>>
-----------------------------------------------------------------------------
Grouped == request.groups # << >>

(* The queries of aggregates or groups; those of a quantile's groups are   *)
(* each made a histogram_quantile, its aggregates are left out.            *)
Quantile == Layer("quantile", "none", 0)
AggregateKindsOf ==
  IF request.kind = "quantile" THEN {} ELSE request.aggregates
GroupKinds == IF Grouped THEN request.groups[1] ELSE {}

Aggregated(kind) == Append(query, Layer(kind, "none", 0))
GroupQuery(kind) ==
  IF request.kind = "quantile" THEN Append(Aggregated(kind), Quantile)
  ELSE Aggregated(kind)

RowsQuery == IF request.kind = "quantile" THEN Append(query, Quantile) ELSE query

Instant(q, section, t) ==
  [api |-> "query", section |-> section, query |-> q, at |-> t, over |-> << >>]
OverRange(q, section, r) ==
  [api |-> "query_range", section |-> section, query |-> q,
   at |-> << >>, over |-> r]

RowsCalls ==
  IF Grouped \/ AggregateKindsOf # {} THEN {}
  ELSE {IF range # << >> THEN OverRange(RowsQuery, "rows", range)
        ELSE Instant(RowsQuery, "rows", time["timestamp"])}

(* Explain ends, and Execute sends the query of the rows unless aggregates *)
(* or groups are asked for.                                                *)
Rows ==
  /\ stage = "rows"
  /\ IF \/ "unsupported" \in AggregateKindsOf \cup GroupKinds
        \/ "flat" \in request.flaws
     THEN Refuse
     ELSE /\ Goto("aggregates")
          /\ calls' = RowsCalls
          /\ UNCHANGED <<request, pos, time, value, range, compiled>>

AggregateTime ==
  IF time["timestamp"] # << >> THEN time["timestamp"]
  ELSE IF range # << >> THEN <<range[1].end>> ELSE <<Now>>

AggregateCalls ==
  {Instant(Aggregated(kind), "aggregates", AggregateTime) : kind \in AggregateKindsOf}

Aggregates ==
  /\ stage = "aggregates"
  /\ calls' = calls \cup AggregateCalls
  /\ Goto("groups")
  /\ UNCHANGED <<request, pos, time, value, range, compiled>>

GroupCalls == {OverRange(GroupQuery(kind), "groups", range) : kind \in GroupKinds}

(* queryRangeMatrix dereferences the range. *)
Groups ==
  /\ stage = "groups"
  /\ IF GroupKinds # {} /\ range = << >>
     THEN End("panic") /\ UNCHANGED calls
     ELSE /\ End("answered")
          /\ calls' = calls \cup GroupCalls
  /\ UNCHANGED <<request, pos, time, value, range, compiled>>

Done == stage = "done" /\ UNCHANGED vars

Next ==
  \/ Dispatch
  \/ EvalTimestamp \/ EvalValue \/ EvalAggregate \/ EvalOther \/ EvalArguments
  \/ BuildPredicate \/ CheckValue
  \/ CompileInstant \/ CompileInput \/ CompileRange \/ CompileFails
  \/ CompileValue
  \/ Rows \/ Aggregates \/ Groups
  \/ Done

Spec == Init /\ [][Next]_vars
-----------------------------------------------------------------------------
Parts == {"select", "call", "compare", "quantile"} \cup AggregateKinds
Layers == [part : Parts, bracket : {"none", "range", "subquery"}, offset : Nat]
Calls ==
  [api : {"query", "query_range"}, section : {"rows", "aggregates", "groups"},
   query : Seq(Layers), at : Pointers(Nat), over : Pointers([start : Nat, end : Nat])]

TypeOK ==
  /\ request \in Request
  /\ outcome \in {"", "refused", "empty", "answered", "panic"}
  /\ outcome = "" <=> stage # "done"
  /\ pos \in Nat \ {0}
  /\ stage \in {"limit", "predicate", "labels", "value", "functions", "rows",
                "aggregates", "groups", "done"}
  /\ time \in [{"timestamp", "start", "end"} -> Pointers(Nat)]
  /\ value \in Pointers(Terms)
  /\ range \in Pointers([start : Nat, end : Nat])
  /\ functions \in Seq(FunctionItems)
  /\ offsetUsed \in BOOLEAN
  /\ query \in Seq(Layers)
  /\ calls \subseteq Calls

(* The terms of one field, duplicates of which are refused. *)
TermsOn(ops) ==
  {i \in DOMAIN request.terms :
     request.terms[i].column = "timestamp" /\ request.terms[i].op \in ops}
ValueTerms == {i \in DOMAIN request.terms : request.terms[i].column = "value"}

(* What the terms of one field say, in whatever order they come. *)
Meant(ops) ==
  UNION {Range(request.terms[i].value) : i \in TermsOn(ops)}

Lower == Meant({"_gt", "_gte"})
Upper == Meant({"_lt", "_lte"})

(* What is asked of the timestamp is what is sent, whatever the order of   *)
(* the comparisons: a range has exactly the bounds asked for, up to now    *)
(* when there is no upper one; rows with a bound and no exact time are     *)
(* read over the range, rows with an exact time and no bound at it, and    *)
(* aggregates at the exact time, or else at the end of the range           *)
(* (evalComparisonTargetColumnTimestamp).  Rows with both, and queries     *)
(* with neither, are the subject of ExactTimestamp and RowsByDefault.      *)
TimeMeant ==
  \A c \in calls :
    /\ c.api = "query_range" /\ Lower \cup Upper # {} =>
         /\ {c.over[1].start} = IF Lower = {} THEN {Zero} ELSE Lower
         /\ {c.over[1].end} = IF Upper = {} THEN {Now} ELSE Upper
    /\ c.section = "rows" /\ Lower \cup Upper # {} /\ Meant({"_eq"}) = {} =>
         c.api = "query_range"
    /\ c.section = "rows" /\ Lower \cup Upper = {} /\ Meant({"_eq"}) # {} =>
         c.api = "query" /\ Range(c.at) = Meant({"_eq"})
    /\ c.section = "aggregates" =>
         Range(c.at) = IF Meant({"_eq"}) # {} THEN Meant({"_eq"})
                         ELSE IF Upper # {} THEN Upper ELSE {Now}

(* README: "The range query mode is the default if none of the timestamp   *)
(* operators is set", for rows (query, collection.go:98).                  *)
RowsByDefault ==
  \A c \in calls :
    c.section = "rows" /\ TermsOn(TimeOps) = {} => c.api = "query_range"

(* The same of groups: they are answered (queryRangeMatrix).               *)
GroupsByDefault == outcome # "panic"

(* README: "`_eq`: instant query at the exact timestamp", also beside a    *)
(* bound (query, collection.go:98).                                        *)
ExactTimestamp ==
  \A c \in calls :
    c.section = "rows" /\ Meant({"_eq"}) # {} =>
      c.api = "query" /\ Range(c.at) = Meant({"_eq"})

Offsets(q) == {n \in DOMAIN q : q[n].offset > 0}
Takes(i) == functions[i].fn = "range" /\ functions[i].arg # "null"

(* The offset is on the selector with no range read from it directly, or   *)
(* follows a range: PromQL accepts it nowhere else.                        *)
OffsetAllowed(q, n) ==
  IF q[n].part = "select" THEN n + 1 \in DOMAIN q => q[n + 1].bracket # "range"
  ELSE q[n].bracket # "none"

OffsetGiven(q) ==
  /\ Cardinality(Offsets(q)) = IF request.offset > 0 THEN 1 ELSE 0
  /\ \A n \in Offsets(q) : q[n].offset = request.offset /\ OffsetAllowed(q, n)

(* README: "the offset modifier allows changing the time offset for        *)
(* individual instant and range vectors in a query": an offset asked for   *)
(* is in the expression, where PromQL accepts it (HasRangeVectorFunction). *)
OffsetApplied == \A c \in calls : OffsetGiven(c.query)

(* Without a range function, no holt_winters or the like reads its range   *)
(* from the selector.                                                      *)
InputsFit ==
  ~HasRangeVectorFunction =>
    \A i \in DOMAIN functions :
      functions[i].fn = "input" /\ functions[i].arg = "range" =>
        \E j \in 1..i - 1 : functions[j].arg # "null"

(* The offset is in every expression sent exactly once, on the selector or *)
(* on the first range, where PromQL accepts it, whatever functions are     *)
(* composed, provided that a range function takes it when there is one,    *)
(* and InputsFit (HasRangeVectorFunction and OffsetUsed).                  *)
OffsetOnce ==
  \A c \in calls :
    (HasRangeVectorFunction => \E i \in DOMAIN functions : Takes(i)) /\ InputsFit =>
      OffsetGiven(c.query)

(* A range without a resolution is read from the selector itself, as       *)
(* PromQL wants it, if the request has such a function first only, and one *)
(* that takes the offset when there is an offset                           *)
(* (buildQueryStringByFunction).                                           *)
FunctionsFit ==
  \A i \in DOMAIN functions :
    functions[i].fn \in {"range", "input"} /\ functions[i].arg = "range" =>
      /\ \A j \in 1..i - 1 : functions[j].arg = "null"
      /\ functions[i].fn = "input" => request.offset = 0 \/ HasRangeVectorFunction

RangesOfSelectors ==
  \A c \in calls : FunctionsFit =>
    \A n \in DOMAIN c.query :
      c.query[n].bracket = "range" => n = 2 /\ c.query[1].offset = 0

(* The condition on the value is in every expression sent, once, and       *)
(* outside a quantile's collection it filters the result of all the        *)
(* functions: nothing is applied to what it has filtered but the           *)
(* aggregates (evalValueComparisonCondition).  In a quantile's collection  *)
(* histogram_quantile goes around it, see ValueOfResult.                   *)
ValueFilters ==
  \A c \in calls :
    LET Where == {n \in DOMAIN c.query : c.query[n].part = "compare"} IN
    /\ Cardinality(Where) =
         Cardinality({i \in ValueTerms : request.terms[i].value # << >>})
    /\ request.kind # "quantile" =>
         \A n \in Where : \A m \in n..Len(c.query) :
           c.query[m].part \notin {"call", "quantile"}

(* README: "The `timestamp` and `value` fields are the result of the       *)
(* instant query", so a condition on the value is one on the result: it is *)
(* the last thing done to rows (ExplainHistogramQuantile).                 *)
ValueOfResult ==
  \A c \in calls :
    c.section = "rows" /\ HasCondition => c.query[Len(c.query)].part = "compare"

(* What becomes of a request, whatever the order of its terms: nothing is  *)
(* sent of one that is refused or cannot have rows, and every other one is *)
(* answered, unless it asks for groups without a bound (GroupsByDefault).  *)
PredicateRefused ==
  \/ request.kind = "unknown"
  \/ \E i \in DOMAIN request.terms :
       LET t == request.terms[i] IN
       t.column = "other" \/ (t.column = "timestamp" /\ (t.op \notin TimeOps \/ ~t.ok))
  \/ \E ops \in {{"_eq"}, {"_lt", "_lte"}, {"_gt", "_gte"}} :
       \E i, j \in TermsOn(ops) : i < j /\ request.terms[i].value # << >>
  \/ Cardinality(ValueTerms) > 1
  \/ "argument" \in request.flaws
  \/ request.kind = "quantile" /\ ~request.quantile

LabelStops == {i \in DOMAIN request.labels : request.labels[i] # "condition"}

CompilationRefused ==
  \/ \E i \in ValueTerms :
       LET t == request.terms[i] IN ~t.ok \/ (t.value # << >> /\ t.op \notin ValueOps)
  \/ \E i \in DOMAIN RequestFunctions :
       RequestFunctions[i].fn = "unknown" \/ RequestFunctions[i].arg = "bad"
  \/ "unsupported" \in AggregateKindsOf \cup GroupKinds
  \/ "flat" \in request.flaws

Expected ==
  IF request.limited THEN "empty"
  ELSE IF PredicateRefused THEN "refused"
  ELSE IF LabelStops # {}
  THEN IF request.labels[Min(LabelStops)] = "empty" THEN "empty" ELSE "refused"
  ELSE IF CompilationRefused THEN "refused" ELSE "answered"

BoundlessGroups == GroupKinds # {} /\ Lower \cup Upper = {}

OutcomeExact ==
  stage = "done" =>
    /\ ~BoundlessGroups \/ Expected # "answered" => outcome = Expected
    /\ outcome \in {"refused", "empty"} => calls = {}
    /\ outcome = "answered" => \A kind \in GroupKinds :
         \E c \in calls : c.section = "groups" /\ c.query = GroupQuery(kind)
-----------------------------------------------------------------------------
(* The inductive invariant: what the fields of the request hold of the     *)
(* terms read so far, what each stage that is past has made sure of, how   *)
(* the expression is built of the functions compiled so far, and which     *)
(* queries have been sent.                                                 *)
Active == outcome \notin {"refused", "empty"} /\ stage # "limit"

Read == {i \in DOMAIN request.terms : stage = "predicate" => i < pos}

FieldHeld(field, ops) ==
  LET on == TermsOn(ops) \cap Read IN
  /\ \A i, j \in on : i < j => request.terms[i].value = << >>
  /\ IF time[field] = << >> THEN \A i \in on : request.terms[i].value = << >>
     ELSE \E i \in on : request.terms[i].value = time[field]

TermsFit ==
  \A i \in Read :
    /\ request.terms[i].column # "other"
    /\ request.terms[i].column = "timestamp" =>
         request.terms[i].op \in TimeOps /\ request.terms[i].ok

ValueHeld ==
  IF value = << >> THEN ValueTerms \cap Read = {}
  ELSE \E i \in Read : value = <<request.terms[i]>> /\ ValueTerms \cap Read = {i}

PredicateHeld ==
  Active => /\ ~request.limited /\ request.kind # "unknown"
            /\ TermsFit
            /\ FieldHeld("timestamp", {"_eq"})
            /\ FieldHeld("end", {"_lt", "_lte"})
            /\ FieldHeld("start", {"_gt", "_gte"})
            /\ ValueHeld

Past(stages) == stage \in stages \/ outcome \in {"answered", "panic"}

Sending == {"aggregates", "groups"}
Compiling == {"functions", "rows"} \cup Sending
Building == {"value"} \cup Compiling

ArgumentsHeld ==
  Past({"labels"} \cup Building) =>
    /\ "argument" \notin request.flaws
    /\ request.kind = "quantile" => request.quantile
    /\ range = RangeOfTime
    /\ functions = RequestFunctions

LabelsHeld == Past(Building) => LabelStops = {}

ValueChecked ==
  Past(Compiling) /\ value # << >> =>
    value[1].ok /\ (HasCondition => value[1].op \in ValueOps)

Compiled ==
  {i \in DOMAIN functions : stage # "value" /\ (stage = "functions" => i < pos)}

FunctionsHeld ==
  Past(Compiling) => \A i \in Compiled : functions[i].fn # "unknown" /\ functions[i].arg # "bad"

OffsetPlaced ==
  IF HasRangeVectorFunction /\ ~offsetUsed
  THEN Offsets(query) = {} /\ (request.offset > 0 => \A i \in Compiled : ~Takes(i))
  ELSE IF request.offset = 0 THEN Offsets(query) = {}
  ELSE \E n \in DOMAIN query :
         /\ Offsets(query) = {n} /\ query[n].offset = request.offset
         /\ IF query[n].part = "select" THEN n = 1 ELSE query[n].bracket # "none"

RangesPlaced ==
  /\ stage \in {"value", "functions"} =>
       (Len(query) = 1 <=> \A i \in Compiled : functions[i].arg = "null")
  /\ ~HasRangeVectorFunction /\ InputsFit /\ Len(query) > 1 => query[2].bracket # "range"
  /\ FunctionsFit =>
       \A n \in DOMAIN query :
         query[n].bracket = "range" => n = 2 /\ query[1].offset = 0

ValuePlaced ==
  IF stage \in {"value", "functions"}
  THEN \A n \in DOMAIN query : query[n].part \in {"select", "call"}
  ELSE \A n \in DOMAIN query :
         query[n].part = "compare" <=> HasCondition /\ n = Len(query)

QueryBuilt ==
  IF Past(Building)
  THEN query # << >> /\ query[1] = Selector /\ OffsetPlaced /\ RangesPlaced /\ ValuePlaced
  ELSE Active => ~offsetUsed

RowsHeld ==
  Past(Sending) =>
    "unsupported" \notin AggregateKindsOf \cup GroupKinds /\ "flat" \notin request.flaws

CallsSent ==
  calls = IF ~Past(Sending) THEN {}
          ELSE IF stage = "aggregates" THEN RowsCalls
          ELSE IF outcome = "answered" THEN RowsCalls \cup AggregateCalls \cup GroupCalls
          ELSE RowsCalls \cup AggregateCalls

(* queryRangeMatrix dereferences the nil range of groups without a bound.  *)
Ended ==
  stage = "done" =>
    outcome = IF BoundlessGroups /\ Expected = "answered" THEN "panic" ELSE Expected

IInv ==
  /\ TypeOK
  /\ stage = "limit" => pos = 1 /\ ~offsetUsed /\ value = << >>
                         /\ \A f \in {"timestamp", "start", "end"} : time[f] = << >>
  /\ PredicateHeld /\ ArgumentsHeld /\ LabelsHeld /\ ValueChecked /\ FunctionsHeld
  /\ QueryBuilt /\ RowsHeld /\ CallsSent /\ Ended
=============================================================================
