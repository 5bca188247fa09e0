---------------------------- MODULE NativeQuery ----------------------------
(***************************************************************************)
(* A query of a native operation (connector/internal/native_query.go and   *)
(* native_query_request.go): the comparisons of the timestamp are taken    *)
(* out of the predicate, the arguments are substituted for the             *)
(* placeholders of the configured query in the order of a map walk, the    *)
(* query is sent, and what is left of the predicate filters the answer,    *)
(* which is sorted and paged.  A raw query (raw_query.go) is sent as given *)
(* and answered as a whole.  Either may be explained only.                 *)
(*                                                                         *)
(* A query is a sequence of texts and placeholders, and so is the value of *)
(* an argument.  A pointer is a sequence of at most one element, nil being *)
(* << >>.                                                                  *)
(***************************************************************************)
EXTENDS TimeRange, Sorting

CONSTANTS
  Names,        (* names of placeholders: a member stands for ${name}       *)
  Texts,        (* the texts between them                                   *)
  Declared,     (* the keys of NativeQuery.Arguments                        *)
  Template,     (* NativeQuery.Query                                        *)
  Now,          (* time.Now()                                               *)
  Expressions,  (* predicates, their terms, and what is left of them        *)
  Requests,
  Answers,      (* vectors and matrices Prometheus may answer               *)
  Flat,         (* runtime.Flat                                             *)
  PromptQL      (* runtime.PromptQL                                         *)

Symbols == Names \cup Texts

Query == Seq(Symbols)

Pointers(S) == {p \in Seq(S) : Len(p) <= 1}

Settings == {"step", "timeout"}

TimeOps == {"_eq", "_lt", "_lte", "_gt", "_gte"}
TextOps == {"_eq", "_in", "_regex"}

(* A comparison of the timestamp, of the value or of a label, and _is_null *)
(* of a label, of the timestamp or value ("own") or of what is no column   *)
(* ("none").  For labels, _in stands for _eq, _in and _regex with the      *)
(* values it accepts, _nin for their negations; 0 is the value of a label  *)
(* that a series lacks.  ok: the value can be decoded as what is compared; *)
(* var: it is that of a variable; text: what a time is as the value of a   *)
(* label: undecodable, that of a label a series lacks ("none"), or another.*)
(* "other" is an expression the connector refuses.                         *)
Leaves ==
  [kind : {"time"}, op : STRING, bound : Pointers(Nat), ok : BOOLEAN, var : BOOLEAN,
   text : {"undecodable", "none", "some"}] \cup
  [kind : {"value"}, op : STRING, bound : Pointers(Nat), ok : BOOLEAN] \cup
  [kind : {"label"}, op : STRING, accept : Pointers(SUBSET (Labels \cup {0})),
   ok : BOOLEAN] \cup
  [kind : {"null"}, of : {"label", "own", "none"}] \cup
  [kind : {"other"}]

IsTerm(e) ==
  \/ e \in [kind : {"and", "or"}, terms : Seq(Expressions)]
  \/ e \in [kind : {"not"}, term : Expressions]
  \/ e \in Leaves

(* ok: the value can be decoded as the type of the argument. *)
Argument == [ok : BOOLEAN, value : Query]

Fields == {"timestamp", "start", "end"}

TimeArgument == [ok : BOOLEAN, value : Pointers(Nat)]

(* What a native query has: an order that is ok if it orders by columns    *)
(* other than labels and values only; and what promql_query has: its query,*)
(* not ok if it is empty, its times, and whether its fields are those of a *)
(* function (EvalFunctionSelectionFieldValue).  What is given under the    *)
(* name of a setting is decoded as that, too.                              *)
Request ==
  [kind      : {"native", "raw"},
   explain   : BOOLEAN,
   predicate : Pointers(Expressions),
   arguments : [Names -> Pointers(Argument)],        (* nil if not given  *)
   step      : [ok : BOOLEAN, value : Nat],          (* 0: none or null     *)
   timeout   : [ok : BOOLEAN],
   flat      : [ok : BOOLEAN, value : Pointers(BOOLEAN)],
   order     : [ok : BOOLEAN, by : Orders],
   offset    : Nat,
   limit     : Pointers(Nat),
   query     : Argument,
   times     : [Fields -> TimeArgument],
   selection : BOOLEAN]

(* Unless in promptql, where collections have no arguments of their own,   *)
(* buildNativeQuery refuses an argument that has the name of a setting.    *)
ASSUME NativeAssumption ==
  /\ Names \cap Texts = {} /\ Declared \subseteq Names
  /\ PromptQL \/ Declared \cap Settings = {}
  /\ Template \in Query
  /\ Labels \subseteq Nat \ {0}
  /\ Now \in Nat
  /\ NaN \notin Nat
  /\ \A a \in Answers : \A i \in DOMAIN a : a[i].bare => a[i].label = 0
  /\ \A e \in Expressions : IsTerm(e)
  /\ Requests \subseteq Request
  /\ Answers \subseteq Seq(Series)
  /\ Flat \in BOOLEAN /\ PromptQL \in BOOLEAN

(* Where a request sorts, no answer is too long for the sort to be the one *)
(* that Sorting follows.                                                   *)
ASSUME InsertionAssumption ==
  (\E r \in Requests : r.order.by # << >>) =>
     \A a \in Answers : /\ Len(a) <= MaxInsertion
                        /\ \A i \in DOMAIN a : Len(a[i].samples) <= MaxInsertion

VARIABLES
  request,
  stage,       (* "predicate", "arguments", "send", "answer" or "done"      *)
  outcome,     (* "", "refused", "panic", "explained" or "answered"         *)
  time,        (* Timestamp, start and end of NativeQueryRequest            *)
  expression,  (* NativeQueryRequest.Expression                             *)
  hasValue,    (* NativeQueryRequest.HasValueBoolExp                        *)
  todo,        (* the arguments the map walk has yet to reach               *)
  query,       (* queryString                                               *)
  step,        (* the local step of evalArguments; 0: computed by NewRange  *)
  call,        (* the call sent to Prometheus                               *)
  answer,      (* its answer, once there is one                             *)
  rows

vars == <<request, stage, outcome, time, expression, hasValue, todo, query,
          step, call, answer, rows>>

NoTime == [f \in Fields |-> << >>]

Init ==
  /\ request \in Requests
  /\ stage = "predicate"
  /\ outcome = ""
  /\ time = NoTime
  /\ expression = << >>
  /\ hasValue = FALSE
  /\ todo = {k \in Names : request.arguments[k] # << >>} \cup Settings
  /\ query = Template
  /\ step = 0
  /\ call = << >>
  /\ answer = << >>
  /\ rows = << >>

Refuse == stage' = "done" /\ outcome' = "refused"
Goto(s) == stage' = s /\ outcome' = ""
-----------------------------------------------------------------------------
(* Predicates are finite trees. *)
Below(e) ==
  CASE e.kind \in {"and", "or"} -> ToSet(e.terms)
    [] e.kind = "not" -> {e.term}
    [] OTHER -> {}

Depth ==
  LET depth[e \in Expressions] == 1 + Max({0} \cup {depth[d] : d \in Below(e)})
  IN depth

ASSUME DepthAssumption ==
  \A e \in Expressions : Depth[e] \in Nat /\ \A d \in Below(e) : Depth[d] < Depth[e]

(* The terms in the order in which evalQueryPredicate fills the fields of  *)
(* the request or fails: it does not look into a not.                      *)
Evaluated ==
  LET terms[e \in Expressions] ==
        IF e.kind \in {"and", "or"}
        THEN FlattenSeq([i \in DOMAIN e.terms |-> terms[e.terms[i]]])
        ELSE <<e>>
  IN terms

Terms ==
  IF request.predicate = << >> THEN << >> ELSE Evaluated[request.predicate[1]]

StrippedOfNothing == [e \in Expressions |-> <<e>>]

(* What evalQueryPredicate leaves of an expression, or nil. *)
Stripped ==
  LET left[e \in Expressions] ==
        IF e.kind \in {"and", "or"}
        THEN <<[e EXCEPT !.terms =
                  FlattenSeq([i \in DOMAIN @ |-> left[@[i]]])]>>
        ELSE IF e.kind = "time" THEN << >> ELSE <<e>>
  IN left

(* With an expression, Expressions has the terms read of it and what is    *)
(* left of it, so that the walks end in expressions of a request.          *)
ASSUME StrippedAssumption ==
  \A e \in Expressions : Evaluated[e] \in Seq(Expressions) /\ Stripped[e] \in Seq(Expressions)

FieldOf(op) ==
  IF op = "_eq" THEN "timestamp" ELSE IF op \in {"_lt", "_lte"} THEN "end" ELSE "start"

(* Explain gives the executor no variables. *)
Decodable(e) == e.ok /\ ~(e.var /\ request.explain)

(* A bound that is null leaves the field nil, to be set by a later one. *)
Take(acc, e) ==
  IF /\ e.kind = "time" /\ e.op \in TimeOps /\ Decodable(e)
     /\ acc.time[FieldOf(e.op)] = << >>
  THEN [acc EXCEPT !.time[FieldOf(e.op)] = e.bound]
  ELSE [acc EXCEPT !.ok = acc.ok /\ e.kind \notin {"time", "other"}]

(* The request after each of the terms. *)
Taken(terms) ==
  LET taken[n \in 0 .. Len(terms)] ==
        IF n = 0 THEN [ok |-> TRUE, time |-> NoTime] ELSE Take(taken[n - 1], terms[n])
  IN taken

(* EvalNativeQueryRequest, the order after the predicate. *)
EvalPredicate ==
  /\ stage = "predicate"
  /\ request.kind = "native"
  /\ LET taken == Taken(Terms)[Len(Terms)]
     IN /\ time' = taken.time
        /\ hasValue' = (\E i \in DOMAIN Terms : Terms[i].kind = "value")
        /\ IF taken.ok /\ request.order.ok THEN Goto("arguments") ELSE Refuse
  /\ expression' = IF request.predicate = << >> THEN << >>
                   ELSE Stripped[request.predicate[1]]
  /\ UNCHANGED <<request, todo, query, step, call, answer, rows>>

Explained ==
  IF request.explain THEN stage' = "done" /\ outcome' = "explained" ELSE Goto("send")

(* RawQueryExecutor.Explain: any order of its walk has the same end. *)
EvalRaw ==
  /\ stage = "predicate"
  /\ request.kind = "raw"
  /\ IF /\ request.query.ok /\ request.step.ok /\ request.timeout.ok
        /\ \A f \in Fields : request.times[f].ok
     THEN /\ Explained
          /\ time' = [f \in Fields |-> request.times[f].value]
          /\ step' = request.step.value
          /\ query' = request.query.value
     ELSE Refuse /\ UNCHANGED <<time, step, query>>
  /\ todo' = {}
  /\ UNCHANGED <<request, expression, hasValue, call, answer, rows>>
-----------------------------------------------------------------------------
ReplaceFirst(q, name, value) ==
  LET i == SelectInSeq(q, LAMBDA t : t = name) IN
  IF i = 0 THEN q ELSE SubSeq(q, 1, i - 1) \o value \o SubSeq(q, i + 1, Len(q))

(* What its symbols stand for, in the order of q. *)
Expanded(q, f) ==
  LET expanded[n \in 0 .. Len(q)] ==
        IF n = 0 THEN << >> ELSE expanded[n - 1] \o f[q[n]]
  IN expanded

Expand(q, f) == Expanded(q, f)[Len(q)]

Instead(name, value) == [x \in Symbols |-> IF x = name THEN value ELSE <<x>>]

(* ReplaceNativeQueryVariable *)
Replace(q, name, value) == Expand(q, Instead(name, value))

EvalSetting(key) ==
  /\ stage = "arguments"
  /\ key \in todo \cap Settings
  /\ IF request[key].ok THEN Goto("arguments") ELSE Refuse
  /\ step' = IF key = "step" /\ request.step.ok THEN request.step.value ELSE step
  /\ todo' = todo \ {key}
  /\ UNCHANGED <<request, time, expression, hasValue, query, call, answer, rows>>

(* An argument that the operation does not declare is skipped; one with the*)
(* name of a setting, declared or not, is read as the setting only.        *)
EvalArgument(key) ==
  /\ stage = "arguments"
  /\ key \in todo \ Settings
  /\ LET arg == request.arguments[key][1] IN
     /\ IF key \in Declared /\ ~arg.ok THEN Refuse ELSE Goto("arguments")
     /\ query' = IF key \in Declared /\ arg.ok
                 THEN Replace(query, key, arg.value) ELSE query
  /\ todo' = todo \ {key}
  /\ UNCHANGED <<request, time, expression, hasValue, step, call, answer, rows>>

CheckEarly ==
  /\ stage = "arguments"
  /\ IF \E i \in DOMAIN query : query[i] \in Names THEN Refuse ELSE Goto("send")
  /\ UNCHANGED <<request, time, expression, hasValue, todo, query, step, call,
                 answer, rows>>

SendUnresolved ==
  /\ stage = "arguments"
  /\ todo = {}
  /\ Goto("send")
  /\ UNCHANGED <<request, time, expression, hasValue, todo, query, step, call,
                 answer, rows>>

(* No placeholder may be left when the walk has ended. *)
CheckResolved ==
  /\ stage = "arguments"
  /\ todo = {}
  /\ IF \E i \in DOMAIN query : query[i] \in Names THEN Refuse ELSE Explained
  /\ UNCHANGED <<request, time, expression, hasValue, todo, query, step, call,
                 answer, rows>>
-----------------------------------------------------------------------------
Bounded == time.start # << >> \/ time.end # << >>

(* What execute reads before it sends the query. *)
Sendable == request.flat.ok /\ (request.kind = "raw" => request.selection)

InstantCall == <<[api |-> "query", at |-> time.timestamp]>>

(* A range whose start is nil starts at the zero time. *)
RangeCall ==
  <<[api |-> "query_range", range |-> NewRange(time.start, time.end, step, Now)]>>

SendRangeFirst ==
  /\ stage = "send"
  /\ IF ~Sendable THEN Refuse /\ UNCHANGED call
     ELSE Goto("answer") /\ call' = IF Bounded THEN RangeCall ELSE InstantCall
  /\ UNCHANGED <<request, time, expression, hasValue, todo, query, step, answer,
                 rows>>

(* A timestamp of a native query comes before a range, one of a raw query  *)
(* after it.  With neither, a raw query is evaluated now; the range of a   *)
(* native one is nil, and queryRange dereferences it.                      *)
Send ==
  /\ stage = "send"
  /\ IF ~Sendable THEN Refuse /\ UNCHANGED call
     ELSE IF IF request.kind = "raw" THEN ~Bounded ELSE time.timestamp # << >>
     THEN Goto("answer") /\ call' = InstantCall
     ELSE IF Bounded THEN Goto("answer") /\ call' = RangeCall
     ELSE stage' = "done" /\ outcome' = "panic" /\ UNCHANGED call
  /\ UNCHANGED <<request, time, expression, hasValue, todo, query, step, answer,
                 rows>>

(* Prometheus fails, or answers with a result of another type (client      *)
(* Query and QueryRange).                                                  *)
CallFails ==
  /\ stage = "answer"
  /\ Refuse
  /\ UNCHANGED <<request, time, expression, hasValue, todo, query, step, call,
                 answer, rows>>
-----------------------------------------------------------------------------
Compares(op, v, b) ==
  CASE op = "_eq"  -> v = b
    [] op = "_neq" -> v # b
    [] op = "_lt"  -> v # NaN /\ v < b
    [] op = "_lte" -> v # NaN /\ v <= b
    [] op = "_gt"  -> v # NaN /\ v > b
    [] op = "_gte" -> v # NaN /\ v >= b

Answered(b) == IF b THEN "yes" ELSE "no"

(* A comparison with null is ignored. *)
ValidValue(e, v) ==
  IF ~e.ok THEN "error"
  ELSE IF e.bound = << >> THEN "yes"
  ELSE IF e.op \notin TimeOps \cup {"_neq"} THEN "error"
  ELSE Answered(Compares(e.op, v, e.bound[1]))

ValidLabel(e, label) ==
  IF e.op \notin {"_in", "_nin"} THEN "no"
  ELSE IF ~e.ok THEN "error"
  ELSE IF e.accept = << >> THEN "yes"
  ELSE Answered((label \in e.accept[1]) = (e.op = "_in"))

(* A comparison of the timestamp in a not is one of a label of that name,  *)
(* which no series has.                                                    *)
ValidTime(e) ==
  IF e.op \notin TextOps \cup {"_neq", "_nin", "_nregex"} THEN "no"
  ELSE IF e.text = "undecodable" THEN "error"
  ELSE IF e.bound = << >> THEN "yes"
  ELSE Answered((e.text = "none") = (e.op \in TextOps))

(* So are the timestamp and the value that are asked to be null. *)
ValidNull(e, label) ==
  IF e.of = "none" THEN "error" ELSE Answered(e.of = "own" \/ label = 0)

(* The result of the first term that ends a loop, or of its end. *)
FirstOther(results, usual) ==
  LET i == SelectInSeq(results, LAMBDA r : r # usual) IN
  IF i = 0 THEN usual ELSE results[i]

(* validateBoolExp: "yes", "no" or "error". *)
Valid(label, v) ==
  LET valid[e \in Expressions] ==
        CASE e.kind = "and" ->
               FirstOther([i \in DOMAIN e.terms |-> valid[e.terms[i]]], "yes")
          [] e.kind = "or" ->
               IF e.terms = << >> THEN "yes"
               ELSE FirstOther([i \in DOMAIN e.terms |-> valid[e.terms[i]]], "no")
          [] e.kind = "not" ->
               IF valid[e.term] = "error" THEN "error"
               ELSE Answered(valid[e.term] = "no")
          [] e.kind = "value" -> ValidValue(e, v)
          [] e.kind = "label" -> ValidLabel(e, label)
          [] e.kind = "null"  -> ValidNull(e, label)
          [] e.kind = "time"  -> ValidTime(e)
          [] e.kind = "other" -> "error"
  IN valid

(* What is filtered as a whole, and what each of its samples passes as. *)
ValidItem(s, v) ==
  IF expression = << >> THEN "yes" ELSE Valid(s.label, v)[expression[1]]

(* The samples that have one of the values. *)
WithValues(samples, values) ==
  FlattenSeq([j \in DOMAIN samples |->
    IF samples[j].value \in values THEN <<samples[j]>> ELSE << >>])

(* filterMatrixResults: without a comparison of the value outside a not, a *)
(* series is kept or dropped as if its value were 0.                       *)
FilterSeries(s) ==
  IF ~hasValue THEN IF ValidItem(s, 0) = "yes" THEN <<s>> ELSE << >>
  ELSE LET left == WithValues(s.samples, {v \in Values : ValidItem(s, v) = "yes"}) IN
       IF left = << >> THEN << >> ELSE <<[s EXCEPT !.samples = left]>>

FilterSample(s) ==
  IF ValidItem(s, s.samples[1].value) = "yes" THEN <<s>> ELSE << >>

FilterFails(a) ==
  \E i \in DOMAIN a :
    IF call[1].api = "query" \/ hasValue
    THEN \E j \in DOMAIN a[i].samples : ValidItem(a[i], a[i].samples[j].value) = "error"
    ELSE ValidItem(a[i], 0) = "error"

Filter(a) ==
  FlattenSeq([i \in DOMAIN a |->
    IF call[1].api = "query" THEN FilterSample(a[i]) ELSE FilterSeries(a[i])])

IsFlat ==
  \/ PromptQL
  \/ request.flat.value = <<TRUE>>
  \/ request.flat.value = << >> /\ Flat

(* createQueryResultsFromVector, createQueryResultsFromMatrix: a row for   *)
(* each sample, or for each series with its last sample.                   *)
Rows(a) ==
  IF IsFlat
  THEN FlattenSeq([i \in DOMAIN a |-> [j \in DOMAIN a[i].samples |->
         [label |-> a[i].label, sample |-> a[i].samples[j], values |-> << >>]]])
  ELSE [i \in DOMAIN a |->
         [label |-> a[i].label, sample |-> Last(a[i].samples), values |-> a[i].samples]]

(* paginateVector and paginateQueryResults *)
Page(list) ==
  LET rest == SubSeq(list, request.offset + 1, Len(list)) IN
  IF request.limit = << >> \/ request.limit[1] >= Len(rest) THEN rest
  ELSE SubSeq(rest, 1, request.limit[1])

RowsOf(a) ==
  IF request.kind = "raw" THEN Rows(a)
  ELSE IF call[1].api = "query"
  THEN Rows(Page(SortVector(Filter(a), request.order.by)))
  ELSE Page(Rows(SortMatrix(Filter(a), request.order.by)))

(* Prometheus answers: a vector is paged before, a matrix after its rows   *)
(* are made.                                                               *)
Answer ==
  /\ stage = "answer"
  /\ answer' \in {a \in Answers :
       call[1].api = "query" => \A i \in DOMAIN a : Len(a[i].samples) = 1}
  /\ IF request.kind = "native" /\ FilterFails(answer') THEN Refuse /\ UNCHANGED rows
     ELSE /\ stage' = "done"
          /\ outcome' = "answered"
          /\ rows' = RowsOf(answer')
  /\ UNCHANGED <<request, time, expression, hasValue, todo, query, step, call>>

Done == stage = "done" /\ UNCHANGED vars

Next ==
  \/ EvalPredicate \/ EvalRaw
  \/ \E key \in Settings : EvalSetting(key)
  \/ \E key \in Names : EvalArgument(key)
  \/ CheckResolved \/ Send \/ CallFails \/ Answer
  \/ Done

Spec == Init /\ [][Next]_vars
-----------------------------------------------------------------------------
Calls ==
  [api : {"query"}, at : Pointers(Nat)] \cup
  [api : {"query_range"}, range : [start : Nat, end : Nat, step : Nat]]

TypeOK ==
  /\ request \in Requests
  /\ stage \in {"predicate", "arguments", "send", "answer", "done"}
  /\ outcome \in {"", "refused", "panic", "explained", "answered"}
  /\ (outcome = "") = (stage # "done")
  /\ time \in [Fields -> Pointers(Nat)]
  /\ expression \in Seq(Expressions)
  /\ hasValue \in BOOLEAN
  /\ todo \subseteq Names \cup Settings
  /\ stage \in {"send", "answer"} => todo = {}
  /\ query \in Query
  /\ step \in Nat
  /\ call \in Pointers(Calls)
  /\ answer \in Answers \cup {<< >>}

Sets(e, field) == e.kind = "time" /\ e.bound # << >> /\ FieldOf(e.op) = field

(* The bounds that the predicate sets for a field. *)
Bounds(field) ==
  {Terms[i].bound[1] : i \in {j \in DOMAIN Terms : Sets(Terms[j], field)}}

(* The arguments that have a value to be replaced by.                      *)
Given ==
  {k \in Declared \ Settings : \E i \in DOMAIN request.arguments[k] : request.arguments[k][i].ok}

(* No argument brings a placeholder of its own. *)
Plain ==
  \A k \in Given : ToSet(request.arguments[k][1].value) \cap Names = {}

(* Every placeholder of some names replaced at once. *)
ValuesOf(names) ==
  [x \in Symbols |-> IF x \in names THEN request.arguments[x][1].value ELSE <<x>>]

Substituted == Expand(Template, ValuesOf(Given))

(* Whatever the order of the walk over the arguments, no placeholder is    *)
(* sent to Prometheus or shown by Explain, and unless a value brings a     *)
(* placeholder itself the query is the one with all placeholders replaced  *)
(* at once (evalArguments, evalUnknownArguments); a raw query is sent as   *)
(* it is.                                                                  *)
QuerySubstituted ==
  call # << >> \/ outcome = "explained" =>
    IF request.kind = "raw" THEN query = request.query.value
    ELSE /\ ToSet(query) \cap Names = {}
         /\ Plain => query = Substituted

TimesAcceptable ==
  \A i \in DOMAIN Terms :
    /\ Terms[i].kind # "other"
    /\ Terms[i].kind = "time" =>
         /\ Terms[i].op \in TimeOps /\ Decodable(Terms[i])
         /\ \A j \in 1 .. (i - 1) : ~Sets(Terms[j], FieldOf(Terms[i].op))

ArgumentsAcceptable ==
  /\ \A k \in Declared \ (Given \cup Settings) : request.arguments[k] = << >>
  /\ ToSet(Template) \cap Names \subseteq Given

Acceptable ==
  /\ request.step.ok /\ request.timeout.ok /\ (Sendable \/ request.explain)
  /\ IF request.kind = "raw"
     THEN request.query.ok /\ \A f \in Fields : request.times[f].ok
     ELSE TimesAcceptable /\ ArgumentsAcceptable /\ request.order.ok

(* A query that is refused before it is sent or explained is one whose     *)
(* predicate sets a bound twice, or that has a value of the wrong type, or *)
(* leaves a placeholder of the template without a value, as it does one    *)
(* with the name of a setting, or a raw one that does not select its       *)
(* fields as those of a function; no other one is, in any order of the walk*)
(* (Explain, evalQueryPredicate, execute).  Explain refuses what Query     *)
(* does, except for the selection and the flat argument, and times of      *)
(* variables besides.                                                      *)
RefusedForCause ==
  Plain /\ stage \in {"answer", "done"} =>
    (call # << >> \/ outcome \in {"panic", "explained"}) = Acceptable

(* The times asked for, a native query's by its predicate. *)
Asked(field) ==
  IF request.kind = "raw" THEN ToSet(request.times[field].value) ELSE Bounds(field)

IsInstant ==
  IF request.kind = "raw" THEN Asked("start") \cup Asked("end") = {}
  ELSE Asked("timestamp") # {}

OrElse(S, x) == IF S = {} THEN {x} ELSE S

Years(d) == d \div (365 * Day)

(* A native query is an instant query if the predicate has an equality of  *)
(* the timestamp anywhere in its and and or terms, and otherwise a range   *)
(* query over its bounds; a raw one is a range query if it has a bound.  A *)
(* range has the step of the argument, although the arguments are read in  *)
(* any order, or one that stays below the 11,000 points that Prometheus    *)
(* accepts, over any range of as many years; a query with any time is sent *)
(* (evalArguments, execute, evalStepFromRange).                            *)
CallMeant ==
  /\ \A i \in DOMAIN call :
       IF IsInstant
       THEN call[i].api = "query" /\ ToSet(call[i].at) \subseteq Asked("timestamp")
              /\ (call[i].at = << >> => Asked("timestamp") = {})
       ELSE /\ call[i].api = "query_range"
            /\ call[i].range.start \in OrElse(Asked("start"), 0)
            /\ call[i].range.end \in OrElse(Asked("end"), Now)
            /\ IF request.step.value # 0 THEN call[i].range.step = request.step.value
               ELSE LET d == call[i].range.end - call[i].range.start
                    IN Years(d) <= 11000 => AtMost(d, call[i].range.step, 11000)
  /\ outcome = "panic" => \A f \in Fields : Bounds(f) = {}

(* What a query without a value of the wrong type, a bound twice or the    *)
(* like is known to be.                                                    *)
Passed ==
  \/ stage \in {"arguments", "send", "answer"} \/ call # << >>
  \/ outcome \in {"panic", "explained"}

Resolved ==
  stage \in {"send", "answer"} \/ call # << >> \/ outcome \in {"panic", "explained"}

StartHeld ==
  stage = "predicate" =>
    /\ query = Template /\ step = 0
    /\ todo = {k \in Names : request.arguments[k] # << >>} \cup Settings

(* The fields of the times hold what the predicate says.                   *)
PredicateHeld ==
  request.kind = "native" /\ Passed =>
    /\ request.order.ok /\ TimesAcceptable
    /\ \A f \in Fields : /\ ToSet(time[f]) \subseteq Bounds(f)
                         /\ time[f] = << >> => Bounds(f) = {}

(* The arguments that the walk has reached are good, and replaced.         *)
ArgumentsHeld ==
  request.kind = "native" /\ Passed =>
    /\ \A key \in Settings \ todo : request[key].ok
    /\ step = IF "step" \in todo THEN 0 ELSE request.step.value
    /\ \A k \in todo \ Settings : request.arguments[k] # << >>
    /\ \A k \in Declared \ (todo \cup Settings) :
         request.arguments[k] # << >> => k \in Given
    /\ Plain => query = Expand(Template, ValuesOf(Given \ todo))

RawHeld ==
  request.kind = "raw" =>
    /\ stage # "arguments" /\ outcome # "panic"
    /\ Passed =>
         /\ request.query.ok /\ request.step.ok /\ request.timeout.ok
         /\ \A f \in Fields : request.times[f].ok
         /\ time = [f \in Fields |-> request.times[f].value]
         /\ step = request.step.value
         /\ query = request.query.value

ResolvedHeld ==
  Resolved => /\ todo = {}
              /\ request.kind = "native" => ToSet(query) \cap Names = {}

(* What is explained is not sent, and what is sent is so once.             *)
SentHeld ==
  /\ stage \in {"send", "answer"} \/ call # << >> \/ outcome = "panic" => ~request.explain
  /\ outcome = "explained" => request.explain
  /\ call # << >> \/ outcome = "panic" => Sendable
  /\ stage = "answer" \/ outcome = "answered" => call # << >>
  /\ stage \in {"predicate", "arguments", "send"} => call = << >>
  /\ call # << >> => call = IF IsInstant THEN InstantCall ELSE RangeCall
  /\ outcome = "panic" => \A f \in Fields : Bounds(f) = {}

RefusedHeld == Plain /\ outcome = "refused" /\ call = << >> => ~Acceptable

Held ==
  /\ TypeOK /\ StartHeld /\ PredicateHeld /\ ArgumentsHeld /\ RawHeld
  /\ ResolvedHeld /\ SentHeld /\ RefusedHeld

(* The filter is what is left of the whole predicate.                      *)
FilterHeld ==
  request.kind = "native" /\ stage # "predicate" =>
    /\ hasValue = (\E i \in DOMAIN Terms : Terms[i].kind = "value")
    /\ expression = IF request.predicate = << >> THEN << >>
                    ELSE Stripped[request.predicate[1]]

(* The rows are those of an answer that the filter could be applied to.    *)
AnsweredHeld ==
  outcome = "answered" =>
    /\ rows = RowsOf(answer)
    /\ request.kind = "native" => ~FilterFails(answer)
    /\ call[1].api = "query" => \A i \in DOMAIN answer : Len(answer[i].samples) = 1

IInv == Held /\ FilterHeld /\ AnsweredHeld

Inner ==
  LET inner[e \in Expressions] == {e} \cup UNION {inner[d] : d \in Below(e)}
  IN inner

(* Predicates that the filter can tell from what is left of them: no time  *)
(* is negated or an alternative, no time or value is asked to be null, and *)
(* in a range query the value is not compared in negations only.           *)
Filterable(e) ==
  LET parts == Inner[e] IN
  /\ \A p \in parts : p.kind = "or" =>
       p.terms # << >> /\ \A i \in DOMAIN p.terms : p.terms[i].kind # "time"
  /\ \A p \in parts : p.kind = "not" => \A q \in Inner[p.term] : q.kind # "time"
  /\ \A p \in parts : p.kind = "null" => p.of # "own"
  /\ \/ call[1].api = "query"
     \/ \A p \in parts : p.kind # "value"
     \/ \E i \in DOMAIN Terms : Terms[i].kind = "value"

(* What a predicate says of a sample whose time is within its bounds. *)
Means(label, v) ==
  LET means[e \in Expressions] ==
        CASE e.kind = "and"   -> \A i \in DOMAIN e.terms : means[e.terms[i]]
          [] e.kind = "or"    -> \E i \in DOMAIN e.terms : means[e.terms[i]]
          [] e.kind = "not"   -> ~means[e.term]
          [] e.kind = "time"  -> TRUE
          [] e.kind = "null"  -> e.of = "label" /\ label = 0
          [] e.kind = "value" -> e.bound = << >> \/ Compares(e.op, v, e.bound[1])
          [] e.kind = "label" ->
               \/ e.op = "_in"  /\ (e.accept = << >> \/ label \in e.accept[1])
               \/ e.op = "_nin" /\ (e.accept = << >> \/ label \notin e.accept[1])
          [] OTHER -> FALSE
  IN means

(* The samples of the answer the predicate means, series by series. *)
Meant ==
  LET Meets(s, v) == request.predicate = << >>
                       \/ Means(s.label, v)[request.predicate[1]]
      Part(s) == WithValues(s.samples, {v \in Values : Meets(s, v)})
  IN FlattenSeq([i \in DOMAIN answer |->
       IF Part(answer[i]) = << >> THEN << >>
       ELSE <<[answer[i] EXCEPT !.samples = Part(answer[i])]>>])

Pairs(list) == (DOMAIN list) \X (DOMAIN list)

(* list in the order of before, pairs of its places, and of the list where *)
(* that says nothing.                                                      *)
Ranked(list, before) ==
  LET Rank(i) == Cardinality({j \in DOMAIN list :
                   <<j, i>> \in before \/ (j <= i /\ <<i, j>> \notin before)})
  IN [r \in DOMAIN list |-> list[CHOOSE i \in DOMAIN list : Rank(i) = r]]

(* a is to come before b by the column of elem; NaN is the greatest value. *)
BeforeBy(elem, a, b) ==
  LET Less(c, d) ==
        CASE elem.column = "label"     -> c.label < d.label
          [] elem.column = "timestamp" -> c.sample.time < d.sample.time
          [] OTHER -> c.sample.value # NaN /\ (d.sample.value = NaN
                                                \/ c.sample.value < d.sample.value)
  IN IF elem.descending THEN Less(b, a) ELSE Less(a, b)

(* a is to come before b by the first of some columns that tells them apart. *)
BeforeInOrder(by, columns, a, b) ==
  \E i \in columns :
    /\ BeforeBy(by[i], a, b)
    /\ \A j \in columns : j < i => ~BeforeBy(by[j], b, a)

SampleColumns(by) == {i \in DOMAIN by : by[i].column # "label"}

(* Orders that sort is good for.  In a vector, none by a label if a series *)
(* is bare.  In a matrix, one that sorts the samples by one column at most,*)
(* before it sorts the series, of which there are more than one.           *)
Orderable(by, list) ==
  /\ \A i \in DOMAIN list : list[i].bare => SampleColumns(by) = DOMAIN by
  /\ call[1].api = "query_range" /\ SampleColumns(by) # {} =>
       SampleColumns(by) = {1} /\ Len(list) > 1

OfSample(s, j) == [label |-> s.label, sample |-> s.samples[j]]

(* The rows of a vector in the order of all columns; of a matrix, series   *)
(* by series, in the order of the label, and of the samples within each.   *)
SamplesOrdered(by, s) ==
  [s EXCEPT !.samples = Ranked(@,
     {p \in Pairs(@) :
        BeforeInOrder(by, SampleColumns(by), OfSample(s, p[1]), OfSample(s, p[2]))})]

Ordered(by, list) ==
  IF call[1].api = "query"
  THEN Ranked(list, {p \in Pairs(list) :
         BeforeInOrder(by, DOMAIN by, OfSample(list[p[1]], 1), OfSample(list[p[2]], 1))})
  ELSE Ranked([i \in DOMAIN list |-> SamplesOrdered(by, list[i])],
              {p \in Pairs(list) :
                 BeforeInOrder(by, DOMAIN by \ SampleColumns(by), list[p[1]], list[p[2]])})

(* The rows of a native query are the samples that the whole predicate     *)
(* means, in the order asked for, and the requested page of them,          *)
(* whichever of the two filters, sorts and ways of paging is taken         *)
(* (queryInstant, queryRange, sortVector, sortMatrix); a raw query has the *)
(* rows of the whole answer.                                               *)
RowsMeant ==
  outcome = "answered" =>
    /\ \A i \in DOMAIN rows :
         rows[i].label \in Labels \cup {0} /\ rows[i].values \in Samples
    /\ IF request.kind = "raw" THEN rows = Rows(answer)
       ELSE (\A i \in DOMAIN request.predicate : Filterable(request.predicate[i]))
            /\ Orderable(request.order.by, Meant) =>
         LET all == Rows(Ordered(request.order.by, Meant))
             n   == Len(all) - request.offset
         IN /\ Len(rows) = IF n <= 0 THEN 0
                           ELSE IF request.limit = << >> \/ request.limit[1] > n
                           THEN n ELSE request.limit[1]
            /\ \A i \in DOMAIN rows : rows[i] = all[request.offset + i]

(* "The range query mode is the default if none of the timestamp operators *)
(* is set."                                                                *)
RangeByDefault ==
  outcome \in {"panic", "answered"} /\ request.kind = "native" /\ (\A i \in DOMAIN Terms : Terms[i].kind # "time")
    => call # << >> /\ call[1].api = "query_range"
=============================================================================
