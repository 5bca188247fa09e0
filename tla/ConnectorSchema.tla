-------------------------- MODULE ConnectorSchema --------------------------
(***************************************************************************)
(* The connector from its configuration to the requests it serves:         *)
(* BuildConnectorSchema walks the maps of metrics and native queries       *)
(* (connector/metadata/schema.go, native_operation.go), then a request's   *)
(* collection is looked up again by its name (connector/query.go,          *)
(* query_explain.go).  Nothing but the names relates the two.              *)
(*                                                                         *)
(* A name is the sequence of its words, joined by underscores: k_sum is    *)
(* Append(k, "sum").  A metric's labels are a sequence of at most one set, *)
(* << >> being a nil map.                                                  *)
(***************************************************************************)
EXTENDS Naturals, SequencesExt

CONSTANTS
  Words,
  Colon,           (* words with a colon in them, which \w does not match   *)
  Labels,
  TypeName(_),     (* the object type of a name: ToPascalCase               *)
  Result(_),       (* objectName += "Result"                                *)
  Inputs(_),       (* the type of the functions of a type, and those of its *)
                   (* label_join and label_replace                          *)
  DefaultTypes,    (* names of defaultObjectTypes                           *)
  FunctionTypes,   (* names of defaultFunctionObjectTypes                   *)
  ApiFunctions,    (* names that apiHandler.QueryExists                     *)
  Configs

Name == Seq(Words) \ {<< >>}

PromQLQuery == <<"promql", "query">>

Histograms == {"histogram", "gaugehistogram"}
Types      == Histograms \cup {"counter", "gauge"}
RangeFns   == {"increase", "rate", "irate"}
Parts      == {"sum", "count", "bucket"}

(* What an input type has for fields: it has none of those of a row.       *)
InputField == "fn"

LabelMaps == {<< >>} \cup {<<L>> : L \in SUBSET Labels}

Metric == [type : Types, labels : LabelMaps]

(* reserved: an argument has the name of one of the collection's own, as   *)
(* step or offset; typed: all types of arguments are allowed ones.         *)
Native == [labels : SUBSET Labels, reserved : BOOLEAN, typed : BOOLEAN]

IsConfig(c) ==
  /\ DOMAIN c.metrics \cup DOMAIN c.native \subseteq Name
  /\ IsFiniteSet(DOMAIN c.metrics) /\ IsFiniteSet(DOMAIN c.native)
  /\ \A k \in DOMAIN c.metrics : c.metrics[k] \in Metric
  /\ \A k \in DOMAIN c.native : c.native[k] \in Native
  /\ c.promptql \in BOOLEAN

ASSUME SchemaAssumption ==
  /\ {"promql", "query", "quantile"} \cup Parts \cup RangeFns \subseteq Words \ Colon
  /\ "le" \in Labels /\ InputField \notin Labels
  /\ ApiFunctions \subseteq Name
  /\ \A c \in Configs : IsConfig(c)

VARIABLES
  config,
  phase,        (* "metrics", "native", "ready", "refused" or "panic"       *)
  todo,         (* what the walk of the phase has yet to reach              *)
  collections,  (* scb.Collections: name -> type, and what it was built of  *)
  types,        (* scb.ObjectTypes: type -> its fields beyond those of rows *)
  labels,       (* the Labels maps of the metrics, which the builder shares *)
  request,      (* the collection asked for last, a sequence of at most one *)
  served        (* what the request was dispatched to                       *)

vars == <<config, phase, todo, collections, types, labels, request, served>>

Metrics == DOMAIN config.metrics
Natives == DOMAIN config.native

TypeOf(k)      == config.metrics[k].type
IsHistogram(k) == TypeOf(k) \in Histograms

Nothing == [x \in {} |-> x]

Defaults == DefaultTypes \cup IF config.promptql THEN {} ELSE FunctionTypes

Init ==
  /\ config \in Configs
  /\ phase = "metrics"
  /\ todo = Metrics
  /\ collections = Nothing
  /\ types = [t \in Defaults |-> {}]
  /\ labels = [k \in Metrics |-> config.metrics[k].labels]
  /\ request = << >>
  /\ served = << >>
-----------------------------------------------------------------------------
(* checkDuplicatedOperation; promql_query is the only function. *)
Taken(op) == op = PromQLQuery \/ op \in DOMAIN collections

(* The operations that buildMetricsItem builds of metric k, and those that *)
(* promptql adds to them.                                                  *)
Items(k) == IF IsHistogram(k) THEN {Append(k, p) : p \in Parts} ELSE {k}

Extras(k) ==
  IF ~config.promptql THEN {}
  ELSE IF IsHistogram(k) THEN {Append(k, "quantile")}
  ELSE IF TypeOf(k) = "counter" THEN {Append(k, f) : f \in RangeFns}
  ELSE {}

LabelsOf(k) == UNION Range(config.metrics[k].labels)

(* A quantile or a range function has the type of k_sum or of k. *)
ExtraType(k) == TypeName(IF IsHistogram(k) THEN Append(k, "sum") ELSE k)

Built(k) ==
  [op \in Items(k) \cup Extras(k) |->
     [type |-> IF op \in Items(k) THEN TypeName(op) ELSE ExtraType(k), of |-> k]]

RowTypes(k) == {TypeName(op) : op \in Items(k)}

(* Without promptql the functions of each item have input types. *)
InputTypes(k) == IF config.promptql THEN {} ELSE UNION {Inputs(t) : t \in RowTypes(k)}

(* The object type of a bucket has a field for the label le besides; no    *)
(* part of a metric is named like the input type of another.               *)
TypesBuilt(k) ==
  [t \in RowTypes(k) \cup InputTypes(k) |->
     IF t \notin RowTypes(k) THEN {InputField}
     ELSE LabelsOf(k) \cup
            IF IsHistogram(k) /\ t = TypeName(Append(k, "bucket")) THEN {"le"} ELSE {}]

(* Entries assigned to a map replace those it has under their keys. *)
Put(entries, map) ==
  [x \in DOMAIN entries \cup DOMAIN map |->
     IF x \in DOMAIN entries THEN entries[x] ELSE map[x]]

Stop(outcome) == phase' = outcome /\ UNCHANGED <<collections, types, labels>>

BuildUnchecked(k) ==
  /\ phase = "metrics"
  /\ k \in todo
  /\ todo' = todo \ {k}
  /\ IF \E op \in Items(k) : op = PromQLQuery THEN Stop("refused")
     ELSE IF IsHistogram(k) /\ labels[k] = << >> THEN Stop("panic")
     ELSE /\ collections' = Put(Built(k), collections)
          /\ types' = Put(TypesBuilt(k), types)
          /\ labels' = IF IsHistogram(k)
                       THEN [labels EXCEPT ![k] = <<@[1] \cup {"le"}>>] ELSE labels
          /\ UNCHANGED phase
  /\ UNCHANGED <<config, request, served>>

BuildWithoutLe(k) ==
  /\ phase = "metrics"
  /\ k \in todo
  /\ todo' = todo \ {k}
  /\ IF \E op \in Items(k) : Taken(op) THEN Stop("refused")
     ELSE /\ collections' = Put(Built(k), collections)
          /\ types' = Put(TypesBuilt(k), types)
          /\ UNCHANGED <<phase, labels>>
  /\ UNCHANGED <<config, request, served>>

(* buildMetrics, one metric of the map.  Before the bucket is built, its   *)
(* label le is put into the map of the configuration itself; a nil map     *)
(* cannot take it.  Extras replace a collection of their name unchecked.   *)
BuildMetric(k) ==
  /\ phase = "metrics"
  /\ k \in todo
  /\ todo' = todo \ {k}
  /\ IF \E op \in Items(k) : Taken(op) /\ (IsHistogram(k) => Last(op) # "bucket")
     THEN Stop("refused")
     ELSE IF IsHistogram(k) /\ labels[k] = << >> THEN Stop("panic")
     ELSE IF \E op \in Items(k) : Taken(op) THEN Stop("refused")
     ELSE /\ collections' = Put(Built(k), collections)
          /\ types' = Put(TypesBuilt(k), types)
          /\ labels' = IF IsHistogram(k)
                       THEN [labels EXCEPT ![k] = <<@[1] \cup {"le"}>>] ELSE labels
          /\ UNCHANGED phase
  /\ UNCHANGED <<config, request, served>>

MetricsDone ==
  /\ phase = "metrics"
  /\ todo = {}
  /\ phase' = "native"
  /\ todo' = Natives
  /\ UNCHANGED <<config, collections, types, labels, request, served>>

BuildNativeReplacing(k) ==
  /\ phase = "native"
  /\ k \in todo
  /\ todo' = todo \ {k}
  /\ LET q == config.native[k] IN
     IF (q.reserved /\ ~config.promptql) \/ ~q.typed THEN Stop("refused")
     ELSE /\ types' = Put([x \in {TypeName(k)} |-> q.labels], types)
          /\ collections' = Put([x \in {k} |-> [type |-> TypeName(k), of |-> k]], collections)
          /\ UNCHANGED <<phase, labels>>
  /\ UNCHANGED <<config, request, served>>

(* buildNativeQueries, one query of the map.  In promptql the collection   *)
(* has no arguments that one of the query could clash with.                *)
BuildNative(k) ==
  /\ phase = "native"
  /\ k \in todo
  /\ todo' = todo \ {k}
  /\ LET q == config.native[k]
         t == IF TypeName(k) \in DOMAIN types THEN Result(TypeName(k)) ELSE TypeName(k)
     IN IF Taken(k) \/ (q.reserved /\ ~config.promptql) \/ ~q.typed
        THEN Stop("refused")
        ELSE /\ types' = Put([x \in {t} |-> q.labels], types)
             /\ collections' = Put([x \in {k} |-> [type |-> t, of |-> k]], collections)
             /\ UNCHANGED <<phase, labels>>
  /\ UNCHANGED <<config, request, served>>

(* The schema is merged with that of the API unless disable_prometheus_api *)
(* is set, which leaves the collections as they are.                       *)
NativeDone ==
  /\ phase = "native"
  /\ todo = {}
  /\ phase' = "ready"
  /\ UNCHANGED <<config, todo, collections, types, labels, request, served>>
-----------------------------------------------------------------------------
(* What a request runs: on which metric of the configuration, under which  *)
(* name in PromQL, with which function around it.                          *)
OnMetric(k, promql, fn) ==
  <<[kind |-> "metric", of |-> k, promql |-> promql, fn |-> fn, labels |-> labels[k]]>>

Other(kind) == <<[kind |-> kind, of |-> << >>, promql |-> << >>, fn |-> "", labels |-> << >>]>>

(* histogramNameRegex: a word with a colon ends the match. *)
IsPart(c) ==
  /\ Len(c) > 1
  /\ c[Len(c)] \in Parts
  /\ \A i \in DOMAIN Front(c) : c[i] \notin Colon

EndsIn(c, words) == Len(c) > 1 /\ c[Len(c)] \in words

(* explainQueryCollection: the metric whose histogram this may be a part   *)
(* of comes before the metric of that name.                                *)
ExplainCollection(c) ==
  IF IsPart(c) /\ Front(c) \in Metrics THEN OnMetric(Front(c), c, "")
  ELSE IF c \in Metrics THEN OnMetric(c, c, "")
  ELSE IF EndsIn(c, RangeFns) /\ Front(c) \in Metrics
  THEN OnMetric(Front(c), Front(c), c[Len(c)])
  ELSE IF EndsIn(c, {"quantile"}) /\ Front(c) \in Metrics
  THEN OnMetric(Front(c), Append(Front(c), "bucket"), "quantile")
  ELSE Other("invalid")

(* execQuery.  QueryExplain asks in another order, to the same end: none   *)
(* of the functions has the name promql_query.                             *)
Dispatch(c) ==
  IF c = PromQLQuery THEN Other("raw")
  ELSE IF c \in ApiFunctions THEN Other("api")
  ELSE IF c \in Natives
  THEN <<[Other("native")[1] EXCEPT !.of = c, !.labels = <<config.native[c].labels>>]>>
  ELSE ExplainCollection(c)

(* The engine asks for what the schema offers it. *)
Serve(c) ==
  /\ phase = "ready"
  /\ c \in DOMAIN collections \cup {PromQLQuery}
  /\ request' = <<c>>
  /\ served' = Dispatch(c)
  /\ UNCHANGED <<config, phase, todo, collections, types, labels>>

Stopped == phase \in {"refused", "panic"} /\ UNCHANGED vars

Next ==
  \/ \E k \in Metrics : BuildMetric(k)
  \/ \E k \in Natives : BuildNative(k)
  \/ MetricsDone \/ NativeDone
  \/ \E c \in DOMAIN collections \cup {PromQLQuery} : Serve(c)
  \/ Stopped

Spec == Init /\ [][Next]_vars
-----------------------------------------------------------------------------
TypeOK ==
  /\ config \in Configs
  /\ phase \in {"metrics", "native", "ready", "refused", "panic"}
  /\ todo \subseteq IF phase = "metrics" THEN Metrics ELSE Metrics \cup Natives
  /\ phase = "ready" => todo = {}
  /\ DOMAIN collections \subseteq Name
  /\ \A c \in DOMAIN collections :
       /\ collections[c].of \in Metrics \cup Natives
       /\ collections[c].type \in DOMAIN types
  /\ \A t \in DOMAIN types : types[t] \subseteq Labels \cup {InputField}
  /\ labels \in [Metrics -> LabelMaps]
  /\ request \in Seq(Name) /\ Len(request) <= 1
  /\ (request = << >>) = (served = << >>)

(* What the walk has built, as long as nothing was refused. *)
WalkedMetrics == IF phase = "metrics" THEN Metrics \ todo ELSE Metrics

WalkedNatives ==
  IF phase = "metrics" THEN {}
  ELSE IF phase = "native" THEN Natives \ todo ELSE Natives

Claims(k) == Items(k) \cup Extras(k)

Fits(q) == q.typed /\ (q.reserved => config.promptql)

(* Two items of one name, or an item named like the function. *)
Duplicates(metrics) ==
  \/ \E k \in metrics : PromQLQuery \in Items(k)
  \/ \E k, m \in metrics : k # m /\ Items(k) \cap Items(m) # {}

NativeTaken(k) == k = PromQLQuery \/ \E m \in Metrics : k \in Claims(m)

Unfillable(metrics) == \E k \in metrics : IsHistogram(k) /\ config.metrics[k].labels = << >>

(* An extra has the name of another metric or of its part: which of the    *)
(* two is built first decides between an error and a replaced collection.  *)
Ambiguous ==
  \E k, m \in Metrics : k # m /\ Extras(k) \cap (Items(m) \cup Extras(m) \cup {m}) # {}

(* All operations with an object type of their own, and how many share t.  *)
Owners(t) ==
  {c \in Natives \cup UNION {Items(k) : k \in Metrics} : TypeName(c) = t}

(* The types that no operation of these metrics has for its rows. *)
OtherTypes(metrics) == Defaults \cup UNION {InputTypes(k) : k \in metrics}

(* Metrics have types of their own, none of which is an input of another   *)
(* metric's functions; a native query may share the name of one type, of a *)
(* default one or of an input, as it then gets another.                    *)
TypesTold ==
  /\ \A c \in UNION {Items(k) : k \in Metrics} :
       /\ Owners(TypeName(c)) \ Natives = {c}
       /\ \A k \in Metrics : TypeName(c) \notin InputTypes(k)
  /\ \A k \in Natives :
       LET t == TypeName(k) IN
       /\ \A c, d \in Owners(t) \ {k} : c = d
       /\ t \in OtherTypes(Metrics) => Owners(t) = {k}
       /\ Owners(Result(t)) = {} /\ Result(t) \notin OtherTypes(Metrics)
       /\ \A m \in Natives : Result(TypeName(m)) = Result(t) => TypeName(m) = t

(* The builder's invariant: the collections are those of what it has       *)
(* walked, which has no duplicate, and the labels of a walked histogram    *)
(* are those of its buckets (buildMetrics, buildNativeQueries).            *)
BuiltSoFar ==
  phase \in {"metrics", "native", "ready"} =>
    /\ ~Duplicates(WalkedMetrics)
    /\ ~Unfillable(WalkedMetrics)
    /\ \A k \in WalkedNatives : ~NativeTaken(k) /\ Fits(config.native[k])
    /\ DOMAIN collections = (UNION {Claims(k) : k \in WalkedMetrics}) \cup WalkedNatives
    /\ \A k \in Metrics :
         labels[k] = IF k \in WalkedMetrics /\ IsHistogram(k)
                     THEN <<LabelsOf(k) \cup {"le"}>> ELSE config.metrics[k].labels

NativesFit == \A k \in Natives : ~NativeTaken(k) /\ Fits(config.native[k])

Reasons ==
  /\ phase = "refused" => Duplicates(Metrics) \/ ~NativesFit \/ Ambiguous
  /\ phase = "panic" => Unfillable(Metrics)

(* Nothing that was built is replaced, unless an extra may have done it.   *)
CollectionsKept ==
  phase \in {"metrics", "native", "ready"} =>
    /\ \A k \in WalkedNatives :
         /\ collections[k].of = k
         /\ collections[k].type \in {TypeName(k), Result(TypeName(k))}
    /\ ~Ambiguous => \A k \in WalkedMetrics : \A op \in Claims(k) :
                       collections[op] = Built(k)[op]

(* The types of what was built are those it was built with; a native query *)
(* has taken another name only if its own was taken.                       *)
TypesKept ==
  phase \in {"metrics", "native", "ready"} /\ TypesTold =>
    /\ DOMAIN types =
         OtherTypes(WalkedMetrics)
           \cup {TypeName(op) : op \in UNION {Items(k) : k \in WalkedMetrics}}
           \cup {collections[k].type : k \in WalkedNatives}
    /\ \A k \in WalkedMetrics : \A t \in DOMAIN TypesBuilt(k) : types[t] = TypesBuilt(k)[t]
    /\ \A k \in WalkedNatives :
         /\ types[collections[k].type] = config.native[k].labels
         /\ collections[k].type = Result(TypeName(k)) =>
              TypeName(k) \in OtherTypes(Metrics) \cup {TypeName(c) : c \in
                 (WalkedNatives \cup UNION {Items(m) : m \in Metrics}) \ {k}}

(* The request at hand was answered by the finished schema. *)
Answering ==
  \A i \in DOMAIN request :
    /\ phase = "ready"
    /\ request[i] \in DOMAIN collections \cup {PromQLQuery}
    /\ served = Dispatch(request[i])

(* The inductive invariant of builder and dispatch: the parts above.       *)
IInv ==
  /\ TypeOK /\ BuiltSoFar /\ Reasons
  /\ CollectionsKept /\ TypesKept /\ Answering

(* Whatever the order of the walks, the connector starts only on metrics   *)
(* and native queries whose operations have names of their own ("duplicated*)
(* operation name"), and refuses no others: only where promptql adds a     *)
(* collection that has the name of a metric does the order decide.         *)
StartsUnlessDuplicate ==
  /\ phase = "ready" => ~Duplicates(Metrics) /\ NativesFit
  /\ phase = "refused" /\ ~Ambiguous => Duplicates(Metrics) \/ ~NativesFit

(* The collection's own name leads back to what it was built of: it is not *)
(* the name of an API function, which is served even if the API is         *)
(* disabled, no other metric is named like its histogram or like itself,   *)
(* and no colon hides that it is a part.                                   *)
Reachable(c) ==
  /\ c \notin ApiFunctions
  /\ \/ c \in Natives
     \/ LET k == collections[c].of IN
        /\ c \in Extras(k) => c \notin Metrics
        /\ c \in Items(k) \ {k} => IsPart(c)
        /\ IsPart(c) /\ Front(c) \in Metrics => k = Front(c)

(* What PromQL is asked for by a collection built of metric k. *)
MeantBy(c, k) ==
  IF c \in Items(k) THEN <<c, "">>
  ELSE IF Last(c) \in RangeFns THEN <<k, Last(c)>>
  ELSE <<Append(k, "bucket"), "quantile">>

(* A collection of the schema is served as it was built: the request finds *)
(* the metric or native query again, asks for the series and the function  *)
(* the name stands for, and has a label for every field of the object type *)
(* (buildMetricsItem, explainQueryCollection, createQueryResultsFromVector). *)
ServedAsBuilt ==
  \A i \in DOMAIN request :
    LET c == request[i]
        d == served[i]
    IN c # PromQLQuery /\ Reachable(c) /\ ~Ambiguous /\ TypesTold =>
         /\ d.of = collections[c].of
         /\ d.kind = IF c \in Natives THEN "native" ELSE "metric"
         /\ d.kind = "metric" => <<d.promql, d.fn>> = MeantBy(c, d.of)
         /\ types[collections[c].type] \subseteq UNION Range(d.labels)
=============================================================================
