# A TLA+ model of ndc-prometheus

`ndc-prometheus` is a Hasura data connector written in Go. A server answers the engine's
query requests from Prometheus; a command, `ndc-prometheus-configuration update`, writes the
`configuration.yaml` that the server reads when it starts. This directory holds TLA+
modules of its core logic, TLC configurations for small instances, and machine-checked
proofs. Source paths below are relative to the repository.

    tlasany M.tla                              parse
    tlc -workers 2 -config X.cfg M.tla         model-check
    tlapm M.tla                                check the proofs of a module

## 1. The system

| component | source | state it keeps | operations |
|---|---|---|---|
| Query request execution | `connector/query.go`, `internal/collection.go`, `internal/aggregate.go` | row sets by index, two levels of `errgroup`, answers by key | `Query`, `execQuerySync`, `execQueryAsync`, `execQuery`, `Execute`, `queryAggregates`, `queryGroupAggregates` |
| Group results | `internal/aggregate.go` | `GroupResults.groups` under a lock | `MergeMatrixToAggregateGroups` |
| Collection requests | `internal/collection_request.go`, `collection_explain.go`, `query_explain.go` | `CollectionRequest`: range, timestamp, value, labels, functions, `OffsetUsed` | `EvalCollectionRequest`, `Explain`, `ExplainHistogramQuantile`, `buildQueryString` |
| Label expressions | `internal/expression_label.go` | the builder's includes, excludes, `includeIsNull` | `Evaluate` |
| Native and raw queries | `internal/native_query*.go`, `raw_query.go`, `query_explain.go` | parameters, query text | `Explain`, `Execute`, post-filters |
| Sorting and paging | `internal/pagination.go`, `utils.go` | none | `sortVector`, `sortMatrix`, `paginate*` |
| Update command | `configuration/update.go`, `main.go` | `Config.Metadata.Metrics`, `existedMetrics`, the file | `introspectSchema`, `introspectMetric`, `validateNativeQueries`, `formatNativeQueryVariables`, `writeConfigFile` |
| Schema and operation names | `connector/metadata/schema.go`, `native_operation.go`, `connector/query.go`, `query_explain.go` | the built schema; the metrics' label maps, shared with the configuration | `BuildConnectorSchema`, `buildNativeQueries`, `checkDuplicatedOperation`, `explainQueryCollection` |
| Connector lifecycle | `connector/connector.go`, `server/main.go` | client, metadata, schema | `ParseConfiguration`, `TryInitState` |
| Prometheus client | `connector/client` | HTTP client | `Query`, `QueryRange`, `do`, ... |
| Ranges, steps, durations | `connector/metadata/utils.go` | none | `NewRange`, `evalStepFromRange`, `ParseRangeResolution` |
| API operations, generated bindings, credentials, JSON schema | `connector/api`, `client/config.go`, `jsonschema` | none | one HTTP call each, or generated code |

How they interact. The engine sends a request with variable sets. `Query` runs one
`execQuery` per set, in turn or in an errgroup. Each dispatches on the collection's name: raw
query, API operation, native query, or metric collection. A metric collection is evaluated
(predicate, arguments) and compiled to PromQL, using a label expression per label; then its
rows, or its aggregates and then its groups, are asked of Prometheus. Aggregates and groups
each run one upstream query per aggregate in a second errgroup and merge their answers under
a lock. The `update` command shares only the file with the server. Everything is cancelled
through contexts: the HTTP request's for a query, SIGINT's for the command.

What is hard about it, and what makes each part correct:

* **Fan-out.** Goroutines nest two deep; errors, cancellation and disconnections race. A
  response must be complete or an error; the error must be the cause and not a cancellation
  the connector made itself; nothing may be left behind; a failure must end the request even
  if Prometheus never answers.
* **Group merge.** Answers arrive in any order, each looks for groups others have made. The
  result must not depend on the order, and no sample may get lost or be counted twice.
* **Label expressions.** Comparisons narrow two sets one after the other, with patterns tested
  against texts rather than values. What is selected must be what all comparisons mean.
* **Collection requests.** Terms fill fields of a request in turn, functions nest, and two
  places may write the offset. What is sent must be what was asked, whatever the order.
* **Native queries.** Comparisons of the time become the call and the rest filters its answer;
  arguments are substituted in the order of a map walk; sorting changes what it compares. The
  rows must be those the whole request means.
* **Names.** A metric is registered under up to four names, in the order of a map walk, and a request
  comes back with one of them. It must find what the name was registered for.
* **Placeholders.** A query is rewritten in place, argument by argument, run after run. What the
  connector substitutes must be what the user wrote.
* **Update.** Workers share two maps; runs are interrupted, killed, repeated, and Prometheus
  changes in between. The file must hold a complete result or what it held, keep the user's
  settings, and be one that the connector starts on.

`PROJECT.json` lists the hazards with their lines and the properties that cover them.

## 2. Modules

| module | models | refines / composes |
|---|---|---|
| `QueryContract` | what the engine may rely on: variable sets served one by one, all or nothing | abstract specification |
| `QueryFanOut` | one request through both levels of errgroups | implements `QueryContract` |
| `QueryFanOutProofs` | theorems about `QueryFanOut` | |
| `GroupResults` | the merge of one set of group aggregates | details the `Answer` steps of a "groups" section |
| `GroupResultsProofs` | theorems about `GroupResults` | |
| `CollectionQuery` | one collection query from request to upstream calls | its `labels` are outcomes of `LabelExpression`, its `calls` are the calls of a section |
| `CollectionQueryProofs` | theorems about `CollectionQuery` | |
| `LabelExpression` | `Evaluate` for the comparisons of one label | |
| `LabelExpressionProofs` | theorems about `LabelExpression` | |
| `NativeQuery` | one query of a native operation, or a raw one, from request to rows or explanation | extends `TimeRange` and `Sorting`; its `call` is the only call of the "rows" section of `QueryFanOut` |
| `NativeQueryProofs` | theorems about `NativeQuery`, `Sorting` and the step of `TimeRange` | |
| `TimeRange` | `NewRange` and the step of a range | |
| `Sorting` | `sortVector` and `sortMatrix` | |
| `ConnectorSchema` | the building of the schema and the dispatch of the requests for its collections | details `Start` of `Introspection` and the first step of `CollectionQuery` and `NativeQuery` |
| `ConnectorSchemaProofs` | theorems about `ConnectorSchema` | |
| `Placeholders` | a native query's text through runs of the update command | details `Validate` of `Introspection`; its variables are the `Template` of `NativeQuery` |
| `PlaceholdersProofs` | theorems about `Placeholders` | |
| `DocumentedQueries` | four requests side by side, held to what the README says of queries | composes three instances of `CollectionQuery` and one of `NativeQuery` |
| `Introspection` | the update command and the start of the connector | |
| `IntrospectionProofs` | theorems about `Introspection` | |
| `MC*` | constants for TLC | |

### QueryFanOut

`stage[i]` is where `execQuery` of variable set `i` is: waiting for `eg.Go`, started, in a
section of `Execute` ("rows", "aggs", "groups"), returned. `call[i][c]` is an upstream query,
opened by the section's errgroup, sent, answered or failed. `innerErr`, `outerErr` are what the two
errgroups keep. `Launch` is the outer `eg.Go`, or the next turn of the loop of
`execQuerySync`, which is the case of one slot; `Begin` is what `execQuery` does before it
asks Prometheus; `OpenCall`, `Send`, `Answer`, `CallError` and `Interrupt` are one upstream query;
`EndSection` is `eg.Wait` of a section; `Respond` is that of the request. `Interrupt` is what
`net/http` does on a done context. The errgroup package is external and
modelled from its use. A section with a single query is called inline by the code and
behaves as a group of one. `Explain` gives a request a query for the rows only if it has neither
aggregates nor groups, which is an assumption on the constants.

### GroupResults

A goroutine whose answer has arrived takes the lock (`Lock`), merges sample by sample
(`MergeSample`), gives the slice back to the shared field after each series (`EndSeries`) and
releases the lock. A sample is named by its aggregate, labels and time, so that a group shows which
sample each of its values was made of. A dimension of the group is what the sample's labels
hold of it; the count of a column is not taken by the dimensions, so series of one answer may
fall into one group. `FormatTimestamp` drops the fraction of a second as the formats
unix and rfc3339 do.

### CollectionQuery

The predicate is read one term at a step (`EvalTimestamp`, `EvalValue`, `EvalOther`), a comparison of
a target that is no column being dropped without an error (`EvalAggregate`), then the arguments; the labels decide whether the query is empty; the functions are compiled one at a step
by their kind (`CompileInstant`, `CompileInput`, `CompileRange`); the value condition follows; then
rows, or aggregates and groups, are sent. An expression is the sequence of its layers from the
selector outwards, each with its bracket (`[5m]` or `[5m:1m]`) and its offset. Quantile and
counter collections prepend or replace functions as `query_explain.go` does. Nested "and" terms are
flattened. Steps, timeouts, function names and number formats are left out. The result type of
an instant function is not: all are taken from vector to vector, so `scalar` inside another
function, which PromQL refuses, is outside the model.

### LabelExpression

One label's comparisons are evaluated in turn into included and excluded fields, then the
excluded ones are applied one at a step in any order, as the maps are walked, and the final
check decides between no matcher, a matcher and an empty result. A text stands for a literal or
a pattern: `Full` says which label values it selects, `Part` in which texts the code's
unanchored `MatchString` finds it.

### NativeQuery

`EvalPredicate` takes the comparisons of the timestamp out of the predicate, `EvalArgument` and
`EvalSetting` are the turns of the walk over the arguments, in any order, `CheckResolved` refuses a
query with placeholders left, `Send` chooses the endpoint, `Answer` filters, sorts, makes the rows
and pages them. The predicate is a tree; what the code does with it by recursion is a recursive function over
the set `Expressions`, which holds the terms of its members and what is left of them (`StrippedAssumption`) and
none below itself (`DepthAssumption`). `Expand` is the query with a set of arguments replaced
at once, which the walk is compared with, `Taken` the fields that the terms of the predicate fill. `Means` says
independently what a predicate asks of a sample, `Ranked` what order the rows are to have. The
regular expressions themselves are left out: a label comparison is the set of values it accepts.
What the filter makes of a comparison is what the code does with it as a label: `_is_null` of the timestamp or
value always holds, a time in a "not" is compared with a label no series has (`ValidTime`), and a value that
cannot be decoded is an error (`Valid`).
A raw query skips the predicate, the filter and the sort (`EvalRaw`), and prefers a range to a time
where a native one prefers the time; its selection of fields is refused before it is sent (`Sendable`).
`PromQL` decides whether a query may declare arguments named like the settings. Explain ends where the query would be sent, and decodes no
time that comes from a variable (`Decodable`).

Times are minutes since Go's zero time and steps are seconds, so that a range that starts at the
zero time stays within TLC's integers. `Sorting` follows `slices.SortFunc`, which inserts up to 12
elements, step by step: the comparison of two series sorts their samples, so the result depends
on which are compared: a comparison is a function from two elements to what it makes of both
and their order. The algorithm for longer lists is not modelled, and `InsertionAssumption` keeps
answers that are sorted short of it.

### DocumentedQueries

Four requests whose queries run side by side and share nothing: three instances of `CollectionQuery`, each with variables of
its own, and `NativeQuery`. What the README says of each is a definition of the module of the query; `AsDocumented`
puts them together.

### ConnectorSchema

`BuildMetric` and `BuildNative` register one entry of a map each, in any order, `MetricsDone` and
`NativeDone` end the walks, `Serve` is a request for a collection the schema offers. A name is a
sequence of words, so `k_sum` is `Append(k, "sum")`, and some words hold a colon, which the regular
expression of histogram names does not match and `ToPascalCase` takes for a space. An object type
is the set of labels it has fields for. Without promptql each item of a metric also puts three input types for its
functions into the same map (`InputTypes`), over whatever has their name; `Defaults` are the types of every schema. `labels` are the maps of the configuration, into which the builder
puts `le` and from which rows are later made. The start either ends as "ready", is "refused" by an
error, or panics.

### Placeholders

`Start`, `Find`, `Validate`, `Format` for each argument in any order, and `Write` are one run of the command
for one native query; `FindFails` and `ValidateFails` leave the file as it is. A text is a sequence of symbols; a name is a
run of pieces, so that `job` can begin `jobs`. What the regular expressions match is stated by place:
`Matches` for the command's own, `KeyMatches` for the one of each key, `Variables` for the connector's.
`HasSyntax` is as much of PromQL as decides whether Prometheus can accept a query: no `$` outside its strings.
A rewriting replaces stretches of the text, each named by its first place and its end (`Replaced`);
`Rewritten` is the user's text with all placeholders rewritten at once as the patterns delimit them, which the walk is
compared with. `Replacement` rewrites them as a user delimits them, `$name` or `${name}`, and keeps every other brace: what the
properties ask for. `Apart` says that no name of the text begins another one, `Paired` that every placeholder has both braces or none.

### Introspection

`Read`, `Fetch`, then `Launch`, `Examine`, `SetMetadataMetric` and `LabelsFail` for each metric's
goroutine, `MergeExisting`, `Validate`, `Truncate`, `WritePart` and `WriteBytes`: `os.WriteFile` truncates before it
writes, and a kill or a full disk leaves an empty file or a beginning of the YAML. The beginning is no YAML or lacks the URL
("broken"), or decodes to a configuration without what was cut off (`Parts`), which the next run reads as any other. Any
subset of the metrics or of the native queries stands for those before the cut, and an entry that is
cut itself counts as left out. `torn` records that a write has ended so. `Crash` and `Interrupt` may come at any step,
`PromChanges` between runs and during one, `Start` is the connector reading the file. `Clash` and `WalkClash` are
what makes its duplicate check refuse a file, the names of promptql among them. The memory
of a command is lost when it ends. The history variable `settings` holds the behavior, switch,
native queries and promptql switch of the file the user wrote.

## 3. What the runs check

| run | instance | properties |
|---|---|---|
| `fanout_safety` | 3 variable sets, `concurrency_limit` 0..2, 2 aggregates and 2 group queries | `ResponseComplete`, `RootCause`, `Quiescent`, `NestedBound`, `NoSendAfterError`, `IInv`, refinement `ImplementsContract`, liveness `FailFast` |
| `groups_merge` | 2 aggregates, up to 2 series of up to 2 samples, both formats | the inductive invariant `IInv`, `MergedExactly`, `OneGroupEach`, `SamplesKept`, `MergedStays` |
| `groups_format` | the same | `ValuesFormatted` is violated |
| `collection_safety` | all predicates of up to 3 terms; all lists of up to 3 functions; all combinations of the other parts | `IInv`, `TimeMeant`, `OffsetOnce`, `RangesOfSelectors`, `ValueFilters`, `OutcomeExact` |
| `label_safety` | all requests of up to 3 comparisons, 3 label values, patterns | `IInv`, `LiteralExact`, `ExclusionsExact`, `EqualityBinds` |
| `label_exclude` | lists and an exclusion pattern | `ExclusionsHold` is violated |
| `native_safety` | all predicates of up to two terms and some nested ones; 7 sets of arguments; all orders by up to two columns; ranges at every boundary of the step; raw queries with all combinations of times; vectors and matrices of up to 4 series; pages; explanations | `IInv`, `QuerySubstituted`, `RefusedForCause`, `CallMeant`, `RowsMeant` |
| `documented` | a quantile's rows with a condition on the value, rows with an exact time and a bound, groups and an aggregate with an offset and a function without argument, a native query; none but the second compares the time | `AsDocumented` is violated |
| `schema` | 13 metrics whose names extend each other and 10 native queries, up to three of them together (3 and 0, 2 and 1, or 1 and 2); promptql on and off | `IInv`, `StartsUnlessDuplicate`, `ServedAsBuilt` |
| `placeholders` | all texts of up to 3 of 16 fragments; declared arguments or none; any number of runs | `RewrittenAtOnce`, `ArgumentsServed` |
| `introspection_safety` | 3 metric names, one derived from another; `-c 0` and 2 workers; any number of runs; writes cut anywhere | `IInv`, `SequentialResult`, `Idempotent`, `SettingsKept`, `ResultsWritten`, liveness `InterruptEnds` |
| `introspection_merge_start` | merge files and a newly reported histogram | `StartsAfterUpdate` is violated |

`IInv` is the inductive invariant of the module of the run, and begins with the type invariant; the
run of `Placeholders` does without it (section 5). Every property of a passing run has a mutant of the code in its module that breaks it.

**Bounds.** Three variable sets are the least with one running, one failing and one still to
launch under a limit of two; limits 0 and 1 are the special cases of the code, and a limit of three is the
unlimited case for three sets. Two aggregates are
the least for a lock, two series and two samples the least for a group met again within a series,
across series and across aggregates; samples half a second apart tell the formats apart. Three terms are one
duplicate and one term between or around it; three functions are one before, one after and one that
takes the offset. A template with one placeholder twice and another once
tells the first occurrence from all; values that hold a placeholder of the other argument, in a
circle or not, make the order of the walk matter. Orders by two columns are the least in which a
tie is broken; four series the least in which two tie, one lacks the label and one comes
between. The ranges are each boundary of `evalStepFromRange`, one minute above it, and the whole time
since Go's zero time. Two metrics are the least that clash, with a third a clash is
found before, between or after another entry; two native queries can share a type with each other and one with a metric. Three fragments are one placeholder and another
one on each side of it, or the same one three times, in other brackets or quotes. Three comparisons reach each pair of includes
with an exclusion. Two metric names, one derived from the other, are what the merge's special case
is about; the third is the one that the filters exclude. No counter in the modules grows without
bound, so the runs need no other constraint: `MaxLength` bounds the requests of
`LabelExpression`, `Now` stands for the clock of `CollectionQuery` and of `NativeQuery`. The texts of
`Placeholders` have finitely many rewritings, so its runs may go on for ever.

**Fairness.** `FailFast` assumes weak fairness of what the connector itself does
(`Program`: goroutines run, and a request on a done context returns). Prometheus owes no answer:
`Answer` and `CallError` are not fair, as the client has no timeout by default. `InterruptEnds`
assumes weak fairness of what an interrupted command does by itself (`Unwind`); requests on the
done context fail at once, and no answer of Prometheus is assumed.

## 4. What the code does otherwise

The violation runs, each with the line of the repository it disagrees with in `PROJECT.json`:

* A sample merged into an existing group keeps its raw value, which JSON encodes as a string even
  if the format is `float64` (`groups_format`).
* An excluded pattern that hits two included values removes only the first (`label_exclude`).
* Merging keeps an old counter `foo_count` beside a new histogram `foo`, and the connector then refuses
  the file (`introspection_merge_start`).
* What queries do otherwise than the README says, all of it in the last state of one counterexample, which `AsDocumented`
  reaches when its four requests have ended (`documented`):
  * "The range query mode is the default if none of the timestamp operators is set": rows of a
    collection are read by an instant query (`RowsByDefault`), groups dereference a nil range (`GroupsByDefault`), and so
    does a native query (`RangeByDefault`). `TimeMeant` therefore says nothing of rows without a comparison of the time, and
    `OutcomeExact` of groups without a bound no more than when they are refused or empty.
  * "`_eq`: instant query at the exact timestamp": with a bound besides, the rows ignore the `_eq`
    (`ExactTimestamp`). Hence `TimeMeant` leaves out rows with both.
  * In a quantile's collection the condition on the value is inside `histogram_quantile`, where it drops
    buckets (`ValueOfResult`). Hence `ValueFilters` leaves that collection out.
  * With `fn: [{rate: null}]` the offset is lost: a range function without a value is to take it
    (`OffsetApplied`). Hence the premise of `OffsetOnce`; it also leaves out holt_winters and the like, which
    write their range behind an offset, which PromQL refuses (`connector/internal/collection_explain.go:613`).

Others met while modelling, not run here:

* One report of both a histogram `foo` and a counter `foo_count`, which Prometheus may make as it reports the metadata of all
  its targets together, makes a file that the connector refuses, in replace mode too (`configuration/update.go:340`).
* In promptql a native query may declare an argument `step` or `timeout`, which is then never
  substituted, and each of its requests is refused (`connector/internal/native_query.go:78`,
  `connector/metadata/query.go:94`). The theorem `RefusalHasCause` covers promptql; the run has it off.
* The input types of a metric's functions replace an object type of their name: with metrics `foo` and
  `foo_functions`, the walk decides whether `foo_functions` has its labels as columns
  (`connector/metadata/schema.go:236`). A counter `foo_count` beside a gauge `foo` is served with the labels of `foo`
  (`connector/query_explain.go:97`). Hence the premises `TypesTold` and `Reachable` of `ServedAsBuilt`.
* A `}` of the query's own after a bare placeholder is taken for the placeholder's: `{$rate}` becomes
  `{${rate}`. With `job` and `jobs` in one query, `$jobs` becomes `${job}s` and `${jobs}` becomes
  `${job}s}`, whichever is first (`configuration/update.go:516`). Hence the premises `Paired` and `Apart` of `RewrittenAtOnce`.
* `concurrency_limit` bounds each level of errgroups by itself, so the upstream queries of one
  request may exceed it (`NestedBound` is what holds; `connector/query.go:66`,
  `connector/internal/aggregate.go:52`).
* A write that ends inside the file may leave YAML that still decodes; the next run merges into it and writes
  it back without the settings and native queries that were cut off (`configuration/update.go:435`). Hence the
  premise `~torn` of `SettingsKept`. Nothing in the repository promises otherwise.
* A comparison whose target is no column is dropped from the predicate of a collection without an error
  (`connector/internal/collection_request.go:273`).
* A negated comparison of the value filters the series of a native range query as if their values
  were 0, unless the value is compared elsewhere (`connector/internal/native_query.go:308`); a
  comparison of the timestamp that is an alternative of an "or" is dropped from the
  alternatives, and one in a "not" compares a label
  (`connector/internal/native_query_request.go:75-89`). Hence the premise `Filterable` of
  `RowsMeant`.
* A native query named `foo_count` passes the command's name check beside a histogram `foo`, and
  the connector refuses the file (`configuration/update.go:340`, `connector/metadata/schema.go:258`).
* A merge drops an existing counter `foo_count` when a gauge `foo` is reported, for derived names
  are marked for gauges instead of histograms (`configuration/update.go:250`).
* `_nin []`, which excludes nothing, makes a query return nothing
  (`connector/internal/expression_label.go:67`).
* A matrix of one series is never sorted by value or time; of two such columns the last one counts first;
  a label before such a column leaves the samples of series it decides unsorted
  (`connector/internal/pagination.go:91-120`); a series without labels compares as equal to
  all (line 42). Hence the premise `Orderable` of `RowsMeant`.
* The step of a range of 30 to 900 days is at least as long as the range
  (`connector/metadata/utils.go:86-90`): it stays below the limit, with one point or two.
* Explain refuses a native query with a time that comes from a variable, which Query runs
  (`connector/query_explain.go:59`).
* Two metrics whose names differ in a colon and an underscore share an object type, and the fields of one are lost; a
  histogram with a colon in its name is in the schema, but a request for its parts is an "invalid query"
  (`connector/metadata/schema.go:199`, `connector/query_explain.go:97`). With `disable_prometheus_api` the functions of the API are
  hidden but served, and stand before a native query or metric of their name
  (`connector/query.go:133`). Hence the premises `Reachable` and `TypesTold` of `ServedAsBuilt`.
* A collection that promptql adds replaces a metric of its name, or makes the start fail, as the walk over the map
  decides (`connector/metadata/schema.go:123`): the premise `Ambiguous`.
* A histogram without `labels` in the file panics at the start (`connector/metadata/schema.go:146`): the
  outcome "panic" of `ConnectorSchema`.
* An argument of a single letter is not found by the
  command (line 29) but is one for the connector. Bare `$name` outside a string is rewritten only
  after Prometheus has been asked with it, and refused it.
* Rows are left out of a request that also asks for aggregates, and aggregates out of one of a quantile
  collection (`connector/internal/collection_explain.go:114`, `122-212`).

## 5. What is proved

Each theorem holds for every value of the constants that satisfies the named `ASSUME` of its module,
which TLC evaluates on the instance of the run as well. The inductive invariant `IInv` of each module
with proofs was checked by TLC first, and is still checked by its run, except that `Placeholders.cfg`
names only the two properties: `INVARIANT IInv` added to it checks that of `Placeholders`. Each proof module has one
lemma per action (`...Inv`, `...IInv`, `...Keeps`) and ends in the theorems.

`QueryFanOutProofs`, for any number of variable sets, any limits and any finite sets of
upstream queries (`FanOutAssumption`):

* `InductiveInvariant`: `Spec => []IInv`, and from it `TypeCorrect`, `ResponseIsComplete`,
  `ErrorsAreRootCauses`, `NothingLeftBehind`, `InFlightBounded`;
* `NoSendAfterFailure`: the action property;
* `RequestRefinesContract`: `Spec => ImplementsContract`, a step of the program is a step of
  `QueryContract` or a stutter.

`ResponseComplete` is not inductive: a row set is right because the answers collected were
(`AnswersKept`), because all sections were answered when it was stored (`CallsPlaced`, `SectionsDone`), and
because what was stored stays (`JobsReturned`). `RootCause` needs to know why a cancellation can be kept
as an error at all: `CancelHasReason` says that a "canceled" in a section's group is preceded by the client leaving or by an
error in the outer group, and that only the client can put it into the outer one. `Quiescent` needs
`ResponseDecided`, and for the sequential loop, which answers at the first error,
`OneAtATime`. `NestedBound` follows from `SlotsKept`, the bound of each level: the queries in flight
are numbered by the slot of their variable set and a slot in it (`ProductBound`), an injection
into an interval, so that no sum over a set is needed.

`GroupResultsProofs`, for any aggregates, any answers that are matrices (series with distinct
labels and at least one sample, in order of time) and any order of the goroutines (`GroupAssumption`):

* `InductiveInvariant`, and from it `OneGroupPerDimensions`, `MergeIsExact`, `NoSampleLost`;
* `MergedValuesStay`: the action property `MergedStays`.

`mergeSampleToAggregateGroup` works on a slice of its own and gives it back when the
series ends, so the properties speak of the shared slice at a moment the private one
replaces it. `SourceCurrent` says that in the middle of a series the private slice extends the
shared one, `Extends` being what one sample keeps (`MergeValueKeeps`) and what a chain of samples keeps
(`ExtendsTransitive`). It stays true because nobody else is merging (`LockHeld`), and it holds when the
series ends because a goroutine starts at the first sample (`Unstarted`) and a series has one. `Holds`
says of a list and a place in an answer that the list has, for each combination of dimensions met before that
place, the last sample of it and nothing besides: it holds of the shared list at the start of the current series of every
goroutine (`GroupsHold`) and of the private one at the next sample (`SourceHolds`), so at the end it holds of
whole answers, which is `MergedExactly`. `SamplesKept` follows, as times a resolution apart differ after division by it
(`CoarseApart`) and a sample alone in its group is the last.

`IntrospectionProofs`, for any finite set of names, any reports and numbers of workers, any number of
runs, interrupts and kills (`IntrospectionAssumption`):

* `InductiveInvariant`, and from it `TypeCorrect`, `ResultIsSequential`, `SettingsSurvive`,
  `UpdateIsIdempotent`;
* `OnlyResultsWritten`: the action property `ResultsWritten`.

`WorkersSoFar` gives both shared maps as functions of which goroutines have got how far, never of the order they ran in, so the
last one leaves what a sequential run makes, and the merge with the existing
metrics makes `SequentialResult`. A kill at any step leads to `StartsFresh`; an empty or broken file, to the fact that no run gets past `Read` with
one, and that a running command has the settings of the file it read (`SettingsRead`). A file that a write has ended in
and that still decodes is left out by `~torn`. That a
worker failed cannot be forgotten before the write: `WorkersWell`.
`Idempotent` is proved of the result as a function of report and file (`SequentialTwice`).

`ConnectorSchemaProofs`, for any names, metrics and native queries and any order of both map walks
(`SchemaAssumption`):

* `InductiveInvariant`, and from it `TypeCorrect`, `StartsOnlyUnlessDuplicate`, `CollectionsServedAsBuilt`.

`BuiltSoFar` says that the collections are those of what has been walked and that this had no clash, and `Reasons` why a
start ended. What was built stays as it was built (`CollectionsKept`; under `TypesTold` also the object
types, `TypesKept`, in which a native query takes the longer name only if its own was taken). `FoundAgain` shows that
the dispatch, which knows only the name, finds the metric whose entry it was. The premises of
`ServedAsBuilt` are the ones section 4 explains: `TypesTold` keeps both the types of rows and the input types of functions
apart, so that `TypesKept` can say which entries of the map are whose.

`LabelExpressionProofs`, for any texts, any patterns with nothing assumed of what they select or are found in, and any
number of comparisons (`LabelAssumption`):

* `InductiveInvariant`, and from it `TypeCorrect`, `EqualityAlwaysBinds`, `ExclusionsAreExact`, `LiteralsAreExact`.

`IncludesHeld` is what makes equality bind: there are included fields once a comparison included
something, and all of them stem from every list of plain values read so far. `ListHeld` adds for `LiteralExact`
that none is lost or doubled, `WalkHeld` that the walk has removed exactly the excluded ones it has
looked at, in any order, and `EmptyHeld` that an empty result which did not come from the walk is right.

`CollectionQueryProofs`, for any set of requests: terms, functions, aggregates and groups in any
number and order (`CollectionAssumption`):

* `InductiveInvariant`, and from it `TypeCorrect`, `TimeIsMeant`, `OffsetPlacedOnce`,
  `RangesAreOfSelectors`, `ValueFiltersLast`, `OutcomeIsExact`.

`PredicateHeld` says what the fields hold of the terms read so far: of several bounds at most one is
not null, and it is the one held. Each later conjunct is what a stage that is past has made sure of, so that at
the end `Ended` compares the outcome with `Expected`. `OffsetPlaced` is the heart of
`OffsetOnce`: until a function that takes the offset has been compiled the expression has none, and a function compiled after it
adds none; `RangesPlaced` and `ValuePlaced` are the like for brackets and the condition. `CallsSent` tells
the calls by the stage that sent them.

`NativeQueryProofs`, for any template, arguments, predicates and answers and any order of the walk
over the arguments (`NativeAssumption`, `StrippedAssumption`, `DepthAssumption`):

* `InductiveInvariant`, and from it `TypeCorrect`, `QueryIsSubstituted`, `RefusalHasCause`, `CallIsMeant`,
  `RowsAreMeant`;
* `VectorSorted` and `MatrixSorted`: what `sortVector` and `sortMatrix` make of any list.

`ArgumentsHeld` says that after any part of the walk the query is the template with the arguments reached
replaced at once (`Expand`). One more argument keeps it since replacing in two rounds is replacing once with
the composed values (`ExpandTwice`), if no value holds a placeholder, the premise of `QuerySubstituted` (`Plain`). `PredicateHeld`
says that the fields of the times hold bounds of the predicate and none that it
lacks, `RefusedHeld` that refusals so far have a cause; a placeholder named like a setting is one, as is the selection of a raw query. `CallMeant` also has an arithmetic
part: `EvalStep` keeps every range of up to 11,000 years below 11,000 points (`StepFound`, `FewSteps`).

`RowsAreMeant` needs of the invariant only that the filter is what is left of the whole predicate (`FilterHeld`)
and that the rows are those of the answer (`AnsweredHeld`). The rest is about the answer:

* *Filter.* An induction over the predicates (`TreeInduct`, from `DepthAssumption`) shows that `validateBoolExp` on what is
  left of a predicate decides what `Means` says of the whole one: without comparisons of the timestamp (`ToldDecided`), then with those
  that an "and" has lost (`SoundDecided`). `Valid` and `Stripped` are recursive functions, and that they satisfy
  their equations is shown first (`TreeRecursion`, `ValidIs`, `StrippedIs`). Without a comparison of the value a
  series is kept or dropped as a whole, since all its samples mean the same (`ValueUnseen`). Both filters then leave
  what `Meant` says, series by series (`PartMeant`, `FilterMeant`).
* *Sort.* A list during the sort is a permutation of the first one's places, in order up to the element being
  inserted, and every element compared so far is what the comparison makes of it (`InsertArranged`, `SortArranged`); hence the sort
  ends in the stable order (`Sorted`, `RankedInOrder`), which is `Ranked`. It is enough that the comparison decides an order that is
  transitive and total up to ties (`Decides`, `IsSplit`), and that sorting the samples of a series by one column twice is
  sorting them once (`SortedTwice`). `CompareSeriesIs` and `StreamsCompared` show that of the
  comparisons of the code. This is where the premise `Orderable` is needed: a series without labels
  compares as equal to all others, and two columns of the samples undo each other's order.
* *Rows and pages.* A page of a vector has the rows of the page (`PagedBefore`), a page of the rows is one by
  definition (`PageIs`). Rows have their types whether or not the premises hold (`RowsOfType`).

`PlaceholdersProofs`, for any names, texts and declared arguments, any order of the walk over the arguments and any
number of runs (`PlaceholdersAssumption`):

* `InductiveInvariant`, and from it `TypeCorrect`, `QueryRewrittenAtOnce`, `VariablesServed`;
* `RewrittenIsFinal`: rewriting the placeholders of any text a second time changes nothing.

Where no brace follows a bare name and none is left open, the patterns end where the user's placeholders do
(`PairedEnd`), so what the code rewrites is `Replacement` (`PairedRewritten`), and the rest is about `Rewritten`.
`TextHeld` says that the text of a run is at every step the user's with some placeholders rewritten (`Done`): those whose
keys the walk has reached, or all of them after an earlier run. A step of the walk keeps it for two reasons. The pattern of a key
matches the placeholders of that name and no other (`KeyIs`, `FormatIs`), where `Apart` is needed; and
rewriting some placeholders of a text of which others have been rewritten is rewriting both at
once (`RewrittenTwice`). The latter follows a text through a replacement part by part (`Flattened`, `PartPlaces`,
`PartsAre`): a rewriting neither makes a `$` nor loses one (`MatchesKept`), and every placeholder keeps its
name (`RewrittenName`, `KeptName`) and the symbol before it (`BeforeKept`), which its type depends on. `ArgumentsHeld` then needs only that the names and what stands
before them are the user's, in whichever run; and what the connector takes for a variable in a rewritten
text is what the command took for a placeholder (`VariablesAre`).

Facts about recursive functions. `Expand`, `Taken` and the like recurse over the length of a
sequence. The induction theorems of the library have an operator as a parameter, which the
provers cannot instantiate; the proofs use sets instead: a set of numbers that holds 0, and `n` with
`n - 1`, holds all of them up to a bound (`Induct`), since the complement would have a least element (`Least`,
from the library's `WFMin`). `Recursion` shows in the same way that a recursion over `1 .. N` has a function that satisfies it.
The same is done for predicates, with their depth for the number.

Not proved, only model-checked:

* `FailFast` and `InterruptEnds`, liveness: they rest on fairness and `ENABLED`.
* The violation runs: a counterexample needs no proof.

## 6. Plan

The modules planned are there, and every invariant and action property of a passing run is proved; what is left to TLC
is in section 5. What could be added is the sort of lists longer than 12, which is not by insertion.

## 7. Not modelled

* Formatting of PromQL text and JSON, tracing, metrics and logging.
* The decoding of function arguments, times, durations and credentials (`internal/promql.go`, `metadata/promql.go`,
  `client/config.go`, parts of `metadata/utils.go`): conversions of text without state or order. Whether a value can
  be decoded is an input of the modules that use it.
* The classification of a response by `do` (`client/client.go`): one response, one result or error text;
  the client keeps no state and retries nothing. That a call fails, or answers with another type, is modelled.
* The labels that `update` writes for a metric: a request that fails or not; the names are data.
* The API operations (one HTTP call each, no state) and generated bindings; the NDC SDK's HTTP
  server; the JSON schema generator.

`PROJECT.json` lists every component with its status.
