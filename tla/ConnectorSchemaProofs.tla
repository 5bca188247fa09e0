----------------------- MODULE ConnectorSchemaProofs -----------------------
(***************************************************************************)
(* Proofs about ConnectorSchema for every configuration, whatever its      *)
(* metrics and native queries are named, and every order of the walks over *)
(* the maps.                                                               *)
(***************************************************************************)
EXTENDS ConnectorSchema, TLAPS

(* A name with a word more: the word and the name it extends are told from *)
(* it.                                                                     *)
LEMMA Extended ==
  ASSUME NEW k \in Name, NEW p \in Words
  PROVE  /\ Append(k, p) \in Name
         /\ Append(k, p) # k
         /\ Len(Append(k, p)) > 1
         /\ Append(k, p)[Len(Append(k, p))] = p
         /\ Last(Append(k, p)) = p
         /\ Front(Append(k, p)) = k
<1>1. k \in Seq(Words) /\ k # << >>
  BY DEF Name
<1>2. Len(k) \in Nat /\ Len(k) > 0
  BY <1>1
<1> DEFINE c == Append(k, p)
<1>3. c \in Seq(Words) /\ Len(c) = Len(k) + 1 /\ c[Len(k) + 1] = p
  BY <1>1
<1>4. \A i \in 1 .. Len(k) : c[i] = k[i]
  BY <1>1
<1>5. SubSeq(c, 1, Len(c) - 1) = k
  BY <1>1, <1>2, <1>3, <1>4
<1>6. c # << >> /\ c # k
  BY <1>2, <1>3
<1>7. Last(c) = p /\ Front(c) = k
  BY <1>2, <1>3, <1>5 DEF Last, Front
<1>8. c[Len(c)] = p /\ Len(c) > 1
  BY <1>2, <1>3
<1> QED
  BY <1>3, <1>6, <1>7, <1>8 DEF Name

LEMMA PrefixLen ==
  ASSUME NEW S, NEW s \in Seq(S), NEW n \in Nat, n <= Len(s)
  PROVE  Len(SubSeq(s, 1, n)) = n
<1>1. CASE n = 0
  BY <1>1
<1>2. CASE n > 0
  BY <1>2
<1> QED
  BY <1>1, <1>2

(* The entries put into a map are there and the others stay.               *)
LEMMA PutAll ==
  ASSUME NEW f, NEW g
  PROVE  /\ DOMAIN Put(f, g) = DOMAIN f \cup DOMAIN g
         /\ \A x \in DOMAIN f : Put(f, g)[x] = f[x]
         /\ \A x \in DOMAIN g : x \notin DOMAIN f => Put(f, g)[x] = g[x]
BY DEF Put

LEMMA OneLabelMap ==
  ASSUME NEW l \in LabelMaps, l # << >>
  PROVE  /\ l[1] \subseteq Labels
         /\ UNION Range(l) = l[1]
         /\ l = <<l[1]>>
BY DEF LabelMaps, Range

(* What a configuration says of a metric.                                  *)
LEMMA MetricKnown ==
  ASSUME config \in Configs, NEW k \in Metrics
  PROVE  /\ k \in Name
         /\ config.metrics[k].labels \in LabelMaps
         /\ TypeOf(k) \in Types
         /\ Items(k) \subseteq Name
         /\ Extras(k) \subseteq Name
         /\ LabelsOf(k) \subseteq Labels
<1>1. IsConfig(config)
  BY SchemaAssumption
<1>2. k \in Name /\ config.metrics[k] \in Metric
  BY <1>1 DEF IsConfig, Metrics
<1>3. TypeOf(k) \in Types /\ config.metrics[k].labels \in LabelMaps
  BY <1>2 DEF TypeOf, Metric
<1>4. Parts \cup RangeFns \cup {"quantile"} \subseteq Words
  BY SchemaAssumption
<1>5. \A p \in Words : Append(k, p) \in Name
  BY <1>2, Extended
<1>6. Items(k) \subseteq Name /\ Extras(k) \subseteq Name
  BY <1>2, <1>4, <1>5 DEF Items, Extras
<1>7. LabelsOf(k) \subseteq Labels
  <2>1. CASE config.metrics[k].labels = << >>
    BY <2>1 DEF LabelsOf, Range
  <2>2. CASE config.metrics[k].labels # << >>
    BY <1>3, <2>2, OneLabelMap DEF LabelsOf
  <2> QED
    BY <2>1, <2>2
<1> QED
  BY <1>2, <1>3, <1>6, <1>7

(* What is built of a metric.                                              *)
LEMMA BuiltKnown ==
  ASSUME config \in Configs, NEW k \in Metrics
  PROVE  /\ DOMAIN Built(k) = Claims(k)
         /\ DOMAIN TypesBuilt(k) = RowTypes(k) \cup InputTypes(k)
         /\ \A c \in Claims(k) : Built(k)[c].of = k /\ Built(k)[c].type \in RowTypes(k)
         /\ \A t \in DOMAIN TypesBuilt(k) :
              TypesBuilt(k)[t] \subseteq Labels \cup {InputField}
<1>1. DOMAIN Built(k) = Claims(k)
  BY DEF Built, Claims
<1>2. DOMAIN TypesBuilt(k) = RowTypes(k) \cup InputTypes(k)
  BY DEF TypesBuilt
<1>3. ASSUME NEW c \in Claims(k)
      PROVE  Built(k)[c].of = k /\ Built(k)[c].type \in RowTypes(k)
  <2>1. Built(k)[c] =
          [type |-> IF c \in Items(k) THEN TypeName(c) ELSE ExtraType(k), of |-> k]
    BY <1>3 DEF Built, Claims
  <2>2. ExtraType(k) \in RowTypes(k)
    BY DEF ExtraType, Items, Parts, RowTypes
  <2> QED
    BY <2>1, <2>2 DEF RowTypes
<1>4. ASSUME NEW t \in DOMAIN TypesBuilt(k)
      PROVE  TypesBuilt(k)[t] \subseteq Labels \cup {InputField}
  BY <1>4, MetricKnown, SchemaAssumption DEF TypesBuilt
<1> QED
  BY <1>1, <1>2, <1>3, <1>4

(* Two metrics with items of their own share no collection, and no type    *)
(* but one of the input of functions.                                      *)
LEMMA ClaimsApart ==
  ASSUME ~Ambiguous, NEW k \in Metrics, NEW m \in Metrics, k # m,
         Items(k) \cap Items(m) = {}
  PROVE  Claims(k) \cap Claims(m) = {}
BY DEF Ambiguous, Claims

LEMMA TypesApart ==
  ASSUME TypesTold, NEW k \in Metrics, NEW m \in Metrics,
         Items(k) \cap Items(m) = {},
         NEW t, t \in DOMAIN TypesBuilt(k), t \in DOMAIN TypesBuilt(m)
  PROVE  TypesBuilt(k)[t] = TypesBuilt(m)[t]
<1>1. ASSUME NEW c \in Items(k), NEW d \in Items(m), TypeName(c) = TypeName(d)
      PROVE  FALSE
  <2>1. Owners(TypeName(c)) \ Natives = {c} /\ Owners(TypeName(d)) \ Natives = {d}
    BY DEF TypesTold
  <2> QED
    BY <1>1, <2>1
<1>2. t \notin RowTypes(k)
  <2> SUFFICES ASSUME NEW c \in Items(k), t = TypeName(c) PROVE FALSE
    BY DEF RowTypes
  <2>1. t \notin InputTypes(m)
    BY DEF TypesTold
  <2> QED
    BY <1>1, <2>1 DEF TypesBuilt, RowTypes
<1>3. t \notin RowTypes(m)
  <2> SUFFICES ASSUME NEW d \in Items(m), t = TypeName(d) PROVE FALSE
    BY DEF RowTypes
  <2>1. t \notin InputTypes(k)
    BY DEF TypesTold
  <2> QED
    BY <1>1, <2>1 DEF TypesBuilt, RowTypes
<1> QED
  BY <1>2, <1>3 DEF TypesBuilt

(* What depends on the configuration alone.                                *)
LEMMA Steady ==
  ASSUME config' = config
  PROVE  /\ Metrics' = Metrics /\ Natives' = Natives
         /\ Ambiguous' = Ambiguous /\ NativesFit' = NativesFit
         /\ TypesTold' = TypesTold
         /\ \A k : Items(k)' = Items(k) /\ Extras(k)' = Extras(k) /\ Claims(k)' = Claims(k)
         /\ \A k : Built(k)' = Built(k) /\ TypesBuilt(k)' = TypesBuilt(k)
         /\ Defaults' = Defaults /\ \A k : InputTypes(k)' = InputTypes(k)
         /\ OtherTypes(Metrics)' = OtherTypes(Metrics)
         /\ \A k : IsHistogram(k)' = IsHistogram(k) /\ LabelsOf(k)' = LabelsOf(k)
         /\ \A k : NativeTaken(k)' = NativeTaken(k)
         /\ \A q : Fits(q)' = Fits(q)
<1>1. Metrics' = Metrics /\ Natives' = Natives
  BY DEF Metrics, Natives
<1>2. \A k : IsHistogram(k)' = IsHistogram(k) /\ LabelsOf(k)' = LabelsOf(k)
  BY DEF IsHistogram, LabelsOf, TypeOf
<1>3. \A k : Items(k)' = Items(k) /\ Extras(k)' = Extras(k)
  BY DEF IsHistogram, TypeOf, Items, Extras
<1>4. \A k : Claims(k)' = Claims(k)
  BY <1>3 DEF Claims
<1>5. \A k : Built(k)' = Built(k) /\ TypesBuilt(k)' = TypesBuilt(k)
  <2>1. \A k : RowTypes(k)' = RowTypes(k)
    BY <1>3 DEF RowTypes
  <2>2. \A k : InputTypes(k)' = InputTypes(k)
    BY <2>1 DEF InputTypes
  <2> QED
    BY <1>2, <1>3, <2>1, <2>2 DEF Built, TypesBuilt, ExtraType
<1>6. \A k : NativeTaken(k)' = NativeTaken(k)
  BY <1>1, <1>4 DEF NativeTaken
<1>7. \A q : Fits(q)' = Fits(q)
  BY DEF Fits
<1>8. Ambiguous' = Ambiguous
  BY <1>1, <1>3 DEF Ambiguous
<1>9. NativesFit' = NativesFit
  BY <1>1, <1>6, <1>7 DEF NativesFit
<1>10. \A t : Owners(t)' = Owners(t)
  BY <1>1, <1>3 DEF Owners
<1>11. Defaults' = Defaults /\ \A k : InputTypes(k)' = InputTypes(k)
  BY <1>3 DEF Defaults, InputTypes, RowTypes
<1>12. OtherTypes(Metrics)' = OtherTypes(Metrics)
  BY <1>1, <1>11 DEF OtherTypes
<1>13. TypesTold' = TypesTold
  BY <1>1, <1>3, <1>10, <1>11, <1>12 DEF TypesTold
<1> QED
  BY <1>1, <1>2, <1>3, <1>4, <1>5, <1>6, <1>7, <1>8, <1>9, <1>11, <1>12, <1>13

(* An item that may not be built: what it clashes with.                    *)
LEMMA MetricClash ==
  ASSUME TypeOK, BuiltSoFar, phase = "metrics", NEW k \in todo,
         NEW op \in Items(k), Taken(op)
  PROVE  k \in Metrics /\ (Duplicates(Metrics) \/ Ambiguous)
<1>1. k \in Metrics /\ k \notin WalkedMetrics /\ WalkedMetrics \subseteq Metrics
  BY DEF TypeOK, WalkedMetrics
<1>2. CASE op = PromQLQuery
  BY <1>1, <1>2 DEF Duplicates
<1>3. CASE op \in DOMAIN collections
  <2>1. op \in UNION {Claims(m) : m \in WalkedMetrics}
    BY <1>3 DEF BuiltSoFar, WalkedNatives
  <2>2. PICK m \in WalkedMetrics : op \in Items(m) \/ op \in Extras(m)
    BY <2>1 DEF Claims
  <2>3. m \in Metrics /\ m # k
    BY <1>1
  <2>4. CASE op \in Items(m)
    BY <1>1, <2>3, <2>4 DEF Duplicates
  <2>5. CASE op \in Extras(m)
    BY <1>1, <2>3, <2>5 DEF Ambiguous
  <2> QED
    BY <1>1, <2>2, <2>4, <2>5
<1> QED
  BY <1>2, <1>3 DEF Taken

LEMMA NotAsked == ASSUME IInv, phase # "ready" PROVE request = << >>
<1>1. request \in Seq(Name)
  BY DEF IInv, TypeOK
<1>2. ASSUME request # << >> PROVE 1 \in DOMAIN request
  BY <1>1, <1>2
<1> QED
  BY <1>2 DEF IInv, Answering

(* A walk that ends early.                                                 *)
LEMMA StopInv ==
  ASSUME IInv, NEW outcome \in {"refused", "panic"}, Stop(outcome),
         phase \in {"metrics", "native"},
         NEW k \in todo, todo' = todo \ {k}, UNCHANGED <<config, request, served>>,
         outcome = "refused" => Duplicates(Metrics) \/ ~NativesFit \/ Ambiguous,
         outcome = "panic" => Unfillable(Metrics)
  PROVE  IInv'
<1>1. /\ config' = config /\ request' = request /\ served' = served
      /\ collections' = collections /\ types' = types /\ labels' = labels
      /\ phase' = outcome /\ todo' = todo \ {k}
  BY DEF Stop
<1>2. /\ Metrics' = Metrics /\ Natives' = Natives
      /\ Ambiguous' = Ambiguous /\ NativesFit' = NativesFit
  BY <1>1, Steady
<1>3. request = << >>
  BY NotAsked
<1>4. TypeOK'
  BY <1>1, <1>2 DEF IInv, TypeOK
<1>5. Duplicates(Metrics)' = Duplicates(Metrics)
  BY <1>1, <1>2, Steady DEF Duplicates
<1>6. Unfillable(Metrics)' = Unfillable(Metrics)
  BY <1>1, <1>2, Steady DEF Unfillable
<1>7. Reasons'
  BY <1>1, <1>2, <1>5, <1>6 DEF Reasons
<1>8. (BuiltSoFar /\ CollectionsKept /\ TypesKept)'
  BY <1>1 DEF BuiltSoFar, CollectionsKept, TypesKept
<1>9. Answering'
  BY <1>1, <1>3 DEF Answering
<1> QED
  BY <1>4, <1>7, <1>8, <1>9 DEF IInv

(* A metric none of whose items was taken and whose labels take le.        *)
LEMMA MetricBuiltInv ==
  ASSUME IInv, phase = "metrics", NEW k \in todo, BuildMetric(k), phase' # "refused",
         phase' # "panic"
  PROVE  IInv'
<1>1. /\ config' = config /\ request' = request /\ served' = served
      /\ phase' = phase /\ todo' = todo \ {k}
      /\ collections' = Put(Built(k), collections)
      /\ types' = Put(TypesBuilt(k), types)
      /\ labels' = IF IsHistogram(k)
                   THEN [labels EXCEPT ![k] = <<@[1] \cup {"le"}>>] ELSE labels
      /\ IsHistogram(k) => labels[k] # << >>
      /\ \A op \in Items(k) : ~Taken(op)
  BY DEF BuildMetric, Stop
<1>2. /\ Metrics' = Metrics /\ Natives' = Natives
      /\ Ambiguous' = Ambiguous /\ NativesFit' = NativesFit
      /\ TypesTold' = TypesTold
  BY <1>1, Steady
<1>3. /\ k \in Metrics /\ k \notin WalkedMetrics /\ WalkedMetrics \subseteq Metrics
      /\ WalkedMetrics' = WalkedMetrics \cup {k}
      /\ WalkedNatives = {} /\ WalkedNatives' = {}
  BY <1>1, <1>2 DEF IInv, TypeOK, WalkedMetrics, WalkedNatives
<1>4. TypeOK /\ BuiltSoFar /\ CollectionsKept /\ TypesKept /\ config \in Configs
  BY DEF IInv, TypeOK
<1>5. /\ DOMAIN Built(k) = Claims(k)
      /\ DOMAIN TypesBuilt(k) = RowTypes(k) \cup InputTypes(k)
      /\ \A c \in Claims(k) : Built(k)[c].of = k
                              /\ Built(k)[c].type \in DOMAIN TypesBuilt(k)
      /\ \A t \in DOMAIN TypesBuilt(k) :
           TypesBuilt(k)[t] \subseteq Labels \cup {InputField}
  BY <1>3, <1>4, BuiltKnown
<1>6. /\ Items(k) \subseteq Name /\ Extras(k) \subseteq Name
      /\ config.metrics[k].labels \in LabelMaps /\ LabelsOf(k) \subseteq Labels
  BY <1>3, <1>4, MetricKnown
<1>7. /\ DOMAIN collections' = Claims(k) \cup DOMAIN collections
      /\ \A c \in Claims(k) : collections'[c] = Built(k)[c]
      /\ \A c \in DOMAIN collections \ Claims(k) : collections'[c] = collections[c]
  <2>1. /\ DOMAIN Put(Built(k), collections) = DOMAIN Built(k) \cup DOMAIN collections
        /\ \A x \in DOMAIN Built(k) : Put(Built(k), collections)[x] = Built(k)[x]
        /\ \A x \in DOMAIN collections : x \notin DOMAIN Built(k) =>
             Put(Built(k), collections)[x] = collections[x]
    BY PutAll
  <2> QED
    BY <1>1, <1>5, <2>1
<1>8. /\ DOMAIN types' = DOMAIN TypesBuilt(k) \cup DOMAIN types
      /\ \A t \in DOMAIN TypesBuilt(k) : types'[t] = TypesBuilt(k)[t]
      /\ \A t \in DOMAIN types \ DOMAIN TypesBuilt(k) : types'[t] = types[t]
  <2>1. /\ DOMAIN Put(TypesBuilt(k), types) = DOMAIN TypesBuilt(k) \cup DOMAIN types
        /\ \A x \in DOMAIN TypesBuilt(k) : Put(TypesBuilt(k), types)[x] = TypesBuilt(k)[x]
        /\ \A x \in DOMAIN types : x \notin DOMAIN TypesBuilt(k) =>
             Put(TypesBuilt(k), types)[x] = types[x]
    BY PutAll
  <2> QED
    BY <1>1, <2>1
<1>9. DOMAIN collections = UNION {Claims(m) : m \in WalkedMetrics}
  BY <1>1, <1>3, <1>4 DEF BuiltSoFar
<1>10. labels[k] = config.metrics[k].labels
  BY <1>1, <1>3, <1>4 DEF BuiltSoFar
<1>11. \A m \in WalkedMetrics : Items(k) \cap Items(m) = {}
  BY <1>1, <1>9 DEF Taken, Claims
<1>12. labels' \in [Metrics -> LabelMaps]
  <2>1. labels \in [Metrics -> LabelMaps]
    BY <1>4 DEF TypeOK
  <2>2. CASE ~IsHistogram(k)
    BY <1>1, <2>1, <2>2
  <2>3. CASE IsHistogram(k)
    <3>1. labels[k][1] \subseteq Labels
      BY <1>1, <1>6, <1>10, <2>3, OneLabelMap
    <3>2. <<labels[k][1] \cup {"le"}>> \in LabelMaps
      BY <3>1, SchemaAssumption DEF LabelMaps
    <3> QED
      BY <1>1, <2>1, <2>3, <3>2
  <2> QED
    BY <2>2, <2>3
<1>13. TypeOK'
  <2>1. config' \in Configs /\ phase' = "metrics" /\ todo' \subseteq Metrics'
    BY <1>1, <1>2, <1>4 DEF TypeOK
  <2>2. DOMAIN collections' \subseteq Name
    BY <1>4, <1>6, <1>7 DEF TypeOK, Claims
  <2>3. ASSUME NEW c \in DOMAIN collections'
        PROVE  collections'[c].of \in Metrics \cup Natives
               /\ collections'[c].type \in DOMAIN types'
    BY <1>3, <1>4, <1>5, <1>7, <1>8 DEF TypeOK
  <2>4. ASSUME NEW t \in DOMAIN types' PROVE types'[t] \subseteq Labels \cup {InputField}
    BY <1>4, <1>5, <1>8 DEF TypeOK
  <2>5. /\ request' \in Seq(Name) /\ Len(request') <= 1
        /\ (request' = << >>) = (served' = << >>)
    BY <1>1, <1>4 DEF TypeOK
  <2> QED
    BY <1>2, <1>12, <2>1, <2>2, <2>3, <2>4, <2>5 DEF TypeOK
<1>14. BuiltSoFar'
  <2>1. ~Duplicates(WalkedMetrics)'
    <3>1. \A m \in WalkedMetrics \cup {k} : PromQLQuery \notin Items(m)
      BY <1>1, <1>4 DEF Taken, BuiltSoFar, Duplicates
    <3>2. \A m, n \in WalkedMetrics \cup {k} : m # n => Items(m) \cap Items(n) = {}
      BY <1>1, <1>4, <1>11 DEF BuiltSoFar, Duplicates
    <3> QED
      BY <1>1, <1>3, <3>1, <3>2, Steady DEF Duplicates
  <2>2. ~Unfillable(WalkedMetrics)'
    <3>1. \A m \in WalkedMetrics \cup {k} : IsHistogram(m) => config.metrics[m].labels # << >>
      BY <1>1, <1>4, <1>10 DEF BuiltSoFar, Unfillable
    <3> QED
      BY <1>1, <1>3, <3>1, Steady DEF Unfillable
  <2>3. DOMAIN collections' = UNION {Claims(m) : m \in WalkedMetrics \cup {k}}
    BY <1>7, <1>9
  <2>4. (DOMAIN collections = (UNION {Claims(m) : m \in WalkedMetrics}) \cup WalkedNatives)'
    BY <1>1, <1>3, <2>3, Steady
  <2>5. ASSUME NEW m \in Metrics
        PROVE  labels'[m] = IF m \in WalkedMetrics \cup {k} /\ IsHistogram(m)
                            THEN <<LabelsOf(m) \cup {"le"}>> ELSE config.metrics[m].labels
    <3>1. labels \in [Metrics -> LabelMaps]
      BY <1>4 DEF TypeOK
    <3>2. CASE m # k
      BY <1>1, <1>4, <3>1, <3>2 DEF BuiltSoFar
    <3>3. CASE m = k /\ ~IsHistogram(k)
      BY <1>1, <1>10, <3>3
    <3>4. CASE m = k /\ IsHistogram(k)
      <4>1. labels'[k] = <<labels[k][1] \cup {"le"}>>
        BY <1>1, <1>3, <3>1, <3>4
      <4>2. LabelsOf(k) = labels[k][1]
        BY <1>1, <1>6, <1>10, <3>4, OneLabelMap DEF LabelsOf
      <4> QED
        BY <3>4, <4>1, <4>2
    <3> QED
      BY <3>2, <3>3, <3>4
  <2>6. (\A m \in Metrics :
          labels[m] = IF m \in WalkedMetrics /\ IsHistogram(m)
                      THEN <<LabelsOf(m) \cup {"le"}>> ELSE config.metrics[m].labels)'
    BY <1>1, <1>2, <1>3, <2>5, Steady
  <2> QED
    BY <1>3, <2>1, <2>2, <2>4, <2>6 DEF BuiltSoFar
<1>15. Reasons'
  BY <1>1 DEF Reasons
<1>16. CollectionsKept'
  <2>1. ASSUME ~Ambiguous, NEW m \in WalkedMetrics \cup {k}, NEW op \in Claims(m)
        PROVE  collections'[op] = Built(m)[op]
    <3>1. CASE m = k
      BY <1>7, <2>1, <3>1
    <3>2. CASE m \in WalkedMetrics /\ m # k
      <4>1. op \notin Claims(k)
        BY <1>3, <1>11, <2>1, <3>2, ClaimsApart
      <4>2. op \in DOMAIN collections /\ collections[op] = Built(m)[op]
        BY <1>1, <1>4, <1>9, <2>1, <3>2 DEF CollectionsKept
      <4> QED
        BY <1>7, <4>1, <4>2
    <3> QED
      BY <3>1, <3>2
  <2> QED
    BY <1>1, <1>2, <1>3, <2>1, Steady DEF CollectionsKept
<1>17. TypesKept'
  <2> DEFINE Rows(S) == {TypeName(op) : op \in UNION {Items(m) : m \in S}}
             W == WalkedMetrics \cup {k}
  <2> SUFFICES ASSUME TypesTold PROVE TypesKept'
    BY <1>2 DEF TypesKept
  <2>1. DOMAIN types = OtherTypes(WalkedMetrics) \cup Rows(WalkedMetrics)
    <3>1. {collections[m].type : m \in WalkedNatives} = {}
      BY <1>3
    <3>2. DOMAIN types = OtherTypes(WalkedMetrics) \cup Rows(WalkedMetrics)
                           \cup {collections[m].type : m \in WalkedNatives}
      BY <1>4 DEF TypesKept
    <3> QED
      BY <3>1, <3>2
  <2>2. DOMAIN types' = OtherTypes(W) \cup Rows(W)
    <3>1. OtherTypes(W) = OtherTypes(WalkedMetrics) \cup InputTypes(k)
      BY DEF OtherTypes
    <3>2. Rows(W) = Rows(WalkedMetrics) \cup RowTypes(k)
      BY DEF RowTypes
    <3> QED
      BY <1>5, <1>8, <2>1, <3>1, <3>2
  <2>3. ASSUME NEW m \in W, NEW t \in DOMAIN TypesBuilt(m)
        PROVE  types'[t] = TypesBuilt(m)[t]
    <3>1. CASE m = k
      BY <1>8, <2>3, <3>1
    <3>2. CASE m \in WalkedMetrics /\ m # k
      <4>1. t \in DOMAIN types /\ types[t] = TypesBuilt(m)[t]
        <5>1. DOMAIN TypesBuilt(m) = RowTypes(m) \cup InputTypes(m)
          BY <1>3, <1>4, <3>2, BuiltKnown
        <5>2. t \in DOMAIN types
          <6>1. RowTypes(m) \subseteq Rows(WalkedMetrics)
            BY <3>2 DEF RowTypes
          <6>2. InputTypes(m) \subseteq OtherTypes(WalkedMetrics)
            BY <3>2 DEF OtherTypes
          <6> QED
            BY <2>1, <2>3, <5>1, <6>1, <6>2
        <5> QED
          BY <1>1, <1>4, <2>3, <3>2, <5>2 DEF TypesKept
      <4>2. CASE t \in DOMAIN TypesBuilt(k)
        BY <1>3, <1>8, <1>11, <2>3, <3>2, <4>2, TypesApart
      <4>3. CASE t \notin DOMAIN TypesBuilt(k)
        BY <1>8, <4>1, <4>3
      <4> QED
        BY <4>2, <4>3
    <3> QED
      BY <2>3, <3>1, <3>2
  <2>4. (DOMAIN types = OtherTypes(WalkedMetrics)
           \cup {TypeName(op) : op \in UNION {Items(m) : m \in WalkedMetrics}}
           \cup {collections[m].type : m \in WalkedNatives})'
    <3>1. /\ UNION {Items(m) : m \in WalkedMetrics}' = UNION {Items(m) : m \in W}
          /\ OtherTypes(WalkedMetrics)' = OtherTypes(W)
      BY <1>1, <1>3, Steady DEF OtherTypes
    <3>2. {collections[m].type : m \in WalkedNatives}' = {}
      BY <1>3
    <3> QED
      BY <2>2, <3>1, <3>2
  <2>5. (\A m \in WalkedMetrics : \A t \in DOMAIN TypesBuilt(m) : types[t] = TypesBuilt(m)[t])'
    BY <1>1, <1>3, <2>3, Steady
  <2> QED
    BY <1>3, <2>4, <2>5 DEF TypesKept
<1>18. Answering'
  <2>1. request = << >>
    BY NotAsked
  <2> QED
    BY <1>1, <2>1 DEF Answering
<1> QED
  BY <1>13, <1>14, <1>15, <1>16, <1>17, <1>18 DEF IInv

LEMMA BuildMetricInv ==
  ASSUME IInv, NEW k \in Metrics, BuildMetric(k)
  PROVE  IInv'
<1>1. /\ phase = "metrics" /\ k \in todo /\ todo' = todo \ {k}
      /\ UNCHANGED <<config, request, served>>
      /\ \/ \E op \in Items(k) : Taken(op) /\ Stop("refused")
         \/ IsHistogram(k) /\ labels[k] = << >> /\ Stop("panic")
         \/ phase' # "refused" /\ phase' # "panic"
  BY DEF BuildMetric
<1>2. CASE \E op \in Items(k) : Taken(op) /\ Stop("refused")
  <2>1. Duplicates(Metrics) \/ Ambiguous
    BY <1>1, <1>2, MetricClash DEF IInv
  <2> QED
    BY <1>1, <1>2, <2>1, StopInv
<1>3. CASE IsHistogram(k) /\ labels[k] = << >> /\ Stop("panic")
  <2>1. k \notin WalkedMetrics
    BY <1>1 DEF WalkedMetrics
  <2>2. labels[k] = config.metrics[k].labels
    BY <1>1, <2>1 DEF IInv, BuiltSoFar
  <2>3. Unfillable(Metrics)
    BY <1>3, <2>2 DEF Unfillable
  <2> QED
    BY <1>1, <1>3, <2>3, StopInv
<1>4. CASE phase' # "refused" /\ phase' # "panic"
  BY <1>1, <1>4, MetricBuiltInv
<1> QED
  BY <1>1, <1>2, <1>3, <1>4

(* A step that walks nothing keeps the builder's part of the invariant.    *)
LEMMA BuilderStays ==
  ASSUME BuiltSoFar, CollectionsKept, TypesKept, phase \in {"metrics", "native", "ready"},
         config' = config, collections' = collections, types' = types, labels' = labels,
         WalkedMetrics' = WalkedMetrics, WalkedNatives' = WalkedNatives
  PROVE  BuiltSoFar' /\ CollectionsKept' /\ TypesKept'
<1>1. /\ Metrics' = Metrics /\ Ambiguous' = Ambiguous /\ TypesTold' = TypesTold
  BY Steady
<1>2. BuiltSoFar'
  <2>1. ~Duplicates(WalkedMetrics)'
    BY Steady DEF BuiltSoFar, Duplicates
  <2>2. ~Unfillable(WalkedMetrics)'
    BY Steady DEF BuiltSoFar, Unfillable
  <2>3. (\A k \in WalkedNatives : ~NativeTaken(k) /\ Fits(config.native[k]))'
    BY Steady DEF BuiltSoFar
  <2>4. (DOMAIN collections = (UNION {Claims(k) : k \in WalkedMetrics}) \cup WalkedNatives)'
    BY Steady DEF BuiltSoFar
  <2>5. (\A m \in Metrics :
          labels[m] = IF m \in WalkedMetrics /\ IsHistogram(m)
                      THEN <<LabelsOf(m) \cup {"le"}>> ELSE config.metrics[m].labels)'
    BY <1>1, Steady DEF BuiltSoFar
  <2> QED
    BY <2>1, <2>2, <2>3, <2>4, <2>5 DEF BuiltSoFar
<1>3. CollectionsKept'
  BY <1>1, Steady DEF CollectionsKept
<1>4. ASSUME TypesTold PROVE TypesKept'
  <2>1. /\ UNION {Items(k) : k \in WalkedMetrics}' = UNION {Items(k) : k \in WalkedMetrics}
        /\ OtherTypes(WalkedMetrics)' = OtherTypes(WalkedMetrics)
    BY Steady DEF OtherTypes
  <2>2. {collections[k].type : k \in WalkedNatives}' = {collections[k].type : k \in WalkedNatives}
    OBVIOUS
  <2>3. (DOMAIN types =
           OtherTypes(WalkedMetrics)
             \cup {TypeName(op) : op \in UNION {Items(k) : k \in WalkedMetrics}}
             \cup {collections[k].type : k \in WalkedNatives})'
    BY <1>4, <2>1, <2>2 DEF TypesKept
  <2>4. (\A k \in WalkedMetrics : \A t \in DOMAIN TypesBuilt(k) : types[t] = TypesBuilt(k)[t])'
    BY <1>4, Steady DEF TypesKept
  <2>5. (\A k \in WalkedNatives : types[collections[k].type] = config.native[k].labels)'
    BY <1>4 DEF TypesKept
  <2>6. /\ UNION {Items(m) : m \in Metrics}' = UNION {Items(m) : m \in Metrics}
        /\ OtherTypes(Metrics)' = OtherTypes(Metrics)
    BY <1>1, Steady
  <2>7. (\A k \in WalkedNatives :
           collections[k].type = Result(TypeName(k)) =>
             TypeName(k) \in OtherTypes(Metrics) \cup {TypeName(c) : c \in
               (WalkedNatives \cup UNION {Items(m) : m \in Metrics}) \ {k}})'
    BY <1>4, <2>6 DEF TypesKept
  <2> QED
    BY <2>3, <2>4, <2>5, <2>7 DEF TypesKept
<1>5. TypesKept'
  BY <1>1, <1>4 DEF TypesKept
<1> QED
  BY <1>2, <1>3, <1>5

(* The walk over the metrics gives way to that over the native queries;    *)
(* the builder's part of the invariant is about the same collections.      *)
LEMMA WalkDoneInv ==
  ASSUME IInv, MetricsDone \/ NativeDone
  PROVE  IInv'
<1>1. /\ config' = config /\ request' = request /\ served' = served
      /\ collections' = collections /\ types' = types /\ labels' = labels
      /\ phase \in {"metrics", "native"} /\ phase' \in {"native", "ready"}
      /\ todo' \subseteq Natives /\ (phase' = "ready" => todo' = {})
  BY DEF MetricsDone, NativeDone
<1>2. /\ Metrics' = Metrics /\ Natives' = Natives
      /\ Ambiguous' = Ambiguous /\ NativesFit' = NativesFit
      /\ TypesTold' = TypesTold
  BY <1>1, Steady
<1>3. WalkedMetrics' = WalkedMetrics /\ WalkedNatives' = WalkedNatives
  BY <1>2 DEF MetricsDone, NativeDone, WalkedMetrics, WalkedNatives
<1>4. TypeOK'
  BY <1>1, <1>2 DEF IInv, TypeOK
<1>5. BuiltSoFar' /\ CollectionsKept' /\ TypesKept'
  BY <1>1, <1>3, BuilderStays DEF IInv
<1>6. Reasons' /\ Answering'
  <2>1. request = << >>
    BY <1>1, NotAsked
  <2> QED
    BY <1>1, <2>1 DEF Reasons, Answering
<1> QED
  BY <1>4, <1>5, <1>6 DEF IInv

(* A native query that is built: its collection is new, and so is its type.*)
LEMMA NativeTypeNew ==
  ASSUME IInv, TypesTold, phase = "native", NEW k \in todo, k \in Natives, ~Taken(k),
         NEW t,
         t = IF TypeName(k) \in DOMAIN types THEN Result(TypeName(k)) ELSE TypeName(k)
  PROVE  /\ t \notin DOMAIN types
         /\ t = Result(TypeName(k)) =>
              TypeName(k) \in OtherTypes(Metrics) \cup {TypeName(c) : c \in
                 WalkedNatives \cup UNION {Items(m) : m \in Metrics}}
<1> DEFINE r == Result(TypeName(k))
           I == UNION {Items(m) : m \in Metrics}
<1>1. WalkedMetrics = Metrics /\ WalkedNatives \subseteq Natives /\ k \notin WalkedNatives
  BY DEF WalkedMetrics, WalkedNatives
<1>2. TypesKept /\ CollectionsKept /\ BuiltSoFar
  BY DEF IInv
<1>3. DOMAIN types = OtherTypes(Metrics) \cup {TypeName(op) : op \in I}
                       \cup {collections[m].type : m \in WalkedNatives}
  BY <1>1, <1>2 DEF TypesKept
<1>4. k \notin I
  <2>1. DOMAIN collections = (UNION {Claims(m) : m \in Metrics}) \cup WalkedNatives
    BY <1>1, <1>2 DEF BuiltSoFar
  <2>2. \A m \in Metrics : Items(m) \subseteq Claims(m)
    BY DEF Claims
  <2>3. k \notin DOMAIN collections
    BY DEF Taken
  <2> QED
    BY <2>1, <2>2, <2>3
<1>5. /\ \A c, d \in Owners(TypeName(k)) \ {k} : c = d
      /\ TypeName(k) \in OtherTypes(Metrics) => Owners(TypeName(k)) = {k}
      /\ Owners(r) = {} /\ r \notin OtherTypes(Metrics)
      /\ \A m \in Natives : Result(TypeName(m)) = r => TypeName(m) = TypeName(k)
  BY DEF TypesTold
<1>6. \A c \in Natives \cup I : c \in Owners(TypeName(c))
  BY DEF Owners
<1>7. r # TypeName(k)
  BY <1>5, <1>6
<1>8. ASSUME NEW m \in WalkedNatives
      PROVE  /\ collections[m].type \in {TypeName(m), Result(TypeName(m))}
             /\ Owners(Result(TypeName(m))) = {}
             /\ collections[m].type = Result(TypeName(m)) =>
                  TypeName(m) \in OtherTypes(Metrics) \cup {TypeName(c) : c \in
                    (WalkedNatives \cup I) \ {m}}
  <2>1. collections[m].type \in {TypeName(m), Result(TypeName(m))}
    BY <1>2 DEF CollectionsKept
  <2>2. Owners(Result(TypeName(m))) = {}
    BY <1>1 DEF TypesTold
  <2>3. collections[m].type = Result(TypeName(m)) =>
          TypeName(m) \in OtherTypes(Metrics) \cup {TypeName(c) : c \in (WalkedNatives \cup I) \ {m}}
    BY <1>2 DEF TypesKept
  <2> QED
    BY <2>1, <2>2, <2>3
<1>9. CASE TypeName(k) \notin DOMAIN types
  BY <1>7, <1>9
<1>10. CASE TypeName(k) \in DOMAIN types
  <2>1. t = r
    BY <1>10
  <2>2. r \notin {TypeName(op) : op \in I}
    BY <1>5, <1>6
  <2>3. ASSUME NEW m \in WalkedNatives, collections[m].type = r PROVE FALSE
    <3>1. m \in Natives /\ m # k
      BY <1>1
    <3>2. r # TypeName(m)
      BY <1>5, <1>6, <3>1
    <3>3. Result(TypeName(m)) = r
      BY <1>8, <2>3, <3>2
    <3>4. TypeName(m) = TypeName(k)
      BY <1>5, <3>1, <3>3
    <3>5. m \in Owners(TypeName(k)) \ {k}
      BY <1>6, <3>1, <3>4
    <3>6. TypeName(k) \notin OtherTypes(Metrics)
      BY <1>5, <3>5
    <3>7. PICK c \in (WalkedNatives \cup I) \ {m} : TypeName(c) = TypeName(k)
      BY <1>8, <2>3, <3>3, <3>4, <3>6
    <3>8. c \in Owners(TypeName(k)) \ {k}
      BY <1>1, <1>4, <1>6, <3>7
    <3> QED
      BY <1>5, <3>5, <3>7, <3>8
  <2>4. r \notin DOMAIN types
    BY <1>3, <1>5, <2>2, <2>3
  <2>5. TypeName(k) \in OtherTypes(Metrics) \cup {TypeName(c) : c \in WalkedNatives \cup I}
    <3>1. ASSUME NEW m \in WalkedNatives, collections[m].type = TypeName(k)
          PROVE  TypeName(m) = TypeName(k)
      <4>1. k \in Owners(TypeName(k))
        BY <1>6
      <4> QED
        BY <1>8, <3>1, <4>1
    <3> QED
      BY <1>3, <1>10, <3>1
  <2> QED
    BY <2>1, <2>4, <2>5
<1> QED
  BY <1>9, <1>10

LEMMA NativeBuiltInv ==
  ASSUME IInv, NEW k \in Natives, BuildNative(k), phase' # "refused"
  PROVE  IInv'
<1> DEFINE q == config.native[k]
           t == IF TypeName(k) \in DOMAIN types THEN Result(TypeName(k)) ELSE TypeName(k)
<1>1. /\ phase = "native" /\ phase' = phase /\ k \in todo /\ todo' = todo \ {k}
      /\ config' = config /\ request' = request /\ served' = served /\ labels' = labels
      /\ ~Taken(k) /\ ~(q.reserved /\ ~config.promptql) /\ q.typed
      /\ types' = Put([x \in {t} |-> q.labels], types)
      /\ collections' = Put([x \in {k} |-> [type |-> t, of |-> k]], collections)
  BY DEF BuildNative, Stop
<1>2. /\ Metrics' = Metrics /\ Natives' = Natives
      /\ Ambiguous' = Ambiguous /\ NativesFit' = NativesFit
      /\ TypesTold' = TypesTold
  BY <1>1, Steady
<1>3. /\ WalkedMetrics = Metrics /\ WalkedMetrics' = Metrics
      /\ WalkedNatives \subseteq Natives /\ k \notin WalkedNatives
      /\ WalkedNatives' = WalkedNatives \cup {k}
  BY <1>1, <1>2 DEF WalkedMetrics, WalkedNatives
<1>4. TypeOK /\ BuiltSoFar /\ CollectionsKept /\ TypesKept /\ config \in Configs
  BY DEF IInv, TypeOK
<1>5. DOMAIN collections = (UNION {Claims(m) : m \in Metrics}) \cup WalkedNatives
  BY <1>1, <1>3, <1>4 DEF BuiltSoFar
<1>6. k \notin DOMAIN collections /\ k # PromQLQuery
  BY <1>1 DEF Taken
<1>7. k \in Name /\ q \in Native
  BY <1>4, SchemaAssumption DEF IsConfig, Natives
<1>8. /\ DOMAIN collections' = {k} \cup DOMAIN collections
      /\ collections'[k] = [type |-> t, of |-> k]
      /\ \A c \in DOMAIN collections : collections'[c] = collections[c]
  <2> HIDE DEF t
  <2>1. DOMAIN [x \in {k} |-> [type |-> t, of |-> k]] = {k}
    OBVIOUS
  <2> QED
    BY <1>1, <1>6, <2>1 DEF Put
<1>9. /\ DOMAIN types' = {t} \cup DOMAIN types
      /\ types'[t] = q.labels
      /\ \A u \in DOMAIN types : u # t => types'[u] = types[u]
  <2> HIDE DEF t, q
  <2> QED
    BY <1>1 DEF Put
<1>10. TypeOK'
  <2>1. DOMAIN collections' \subseteq Name
    BY <1>4, <1>7, <1>8 DEF TypeOK
  <2>2. ASSUME NEW c \in DOMAIN collections'
        PROVE  collections'[c].of \in Metrics \cup Natives
               /\ collections'[c].type \in DOMAIN types'
    <3> HIDE DEF t
    <3> QED
      BY <1>4, <1>8, <1>9 DEF TypeOK
  <2>3. ASSUME NEW u \in DOMAIN types' PROVE types'[u] \subseteq Labels \cup {InputField}
    <3> HIDE DEF t
    <3> QED
      BY <1>4, <1>7, <1>9 DEF TypeOK, Native
  <2>4. /\ config' \in Configs /\ phase' = "native" /\ todo' \subseteq Metrics \cup Natives
        /\ request' \in Seq(Name) /\ Len(request') <= 1
        /\ (request' = << >>) = (served' = << >>)
        /\ labels' \in [Metrics -> LabelMaps]
    BY <1>1, <1>4 DEF TypeOK
  <2> QED
    BY <1>2, <2>1, <2>2, <2>3, <2>4 DEF TypeOK
<1>11. BuiltSoFar'
  <2>1. ~Duplicates(WalkedMetrics)'
    BY <1>1, <1>3, <1>4, Steady DEF BuiltSoFar, Duplicates
  <2>2. ~Unfillable(WalkedMetrics)'
    BY <1>1, <1>3, <1>4, Steady DEF BuiltSoFar, Unfillable
  <2>3. ~NativeTaken(k) /\ Fits(q)
    BY <1>1, <1>5, <1>6 DEF NativeTaken, Fits
  <2>4. (\A m \in WalkedNatives : ~NativeTaken(m) /\ Fits(config.native[m]))'
    BY <1>1, <1>3, <1>4, <2>3, Steady DEF BuiltSoFar
  <2>5. (DOMAIN collections = (UNION {Claims(m) : m \in WalkedMetrics}) \cup WalkedNatives)'
    BY <1>1, <1>3, <1>5, <1>8, Steady
  <2>6. (\A m \in Metrics :
          labels[m] = IF m \in WalkedMetrics /\ IsHistogram(m)
                      THEN <<LabelsOf(m) \cup {"le"}>> ELSE config.metrics[m].labels)'
    BY <1>1, <1>2, <1>3, <1>4, Steady DEF BuiltSoFar
  <2> QED
    BY <2>1, <2>2, <2>4, <2>5, <2>6 DEF BuiltSoFar
<1>12. CollectionsKept'
  <2>1. ASSUME NEW m \in WalkedNatives \cup {k}
        PROVE  /\ collections'[m].of = m
               /\ collections'[m].type \in {TypeName(m), Result(TypeName(m))}
    BY <1>1, <1>4, <1>5, <1>8 DEF CollectionsKept
  <2>2. ASSUME ~Ambiguous, NEW m \in Metrics, NEW op \in Claims(m)
        PROVE  collections'[op] = Built(m)[op]
    <3>1. op \in DOMAIN collections
      BY <1>5
    <3>2. collections[op] = Built(m)[op]
      BY <1>1, <1>3, <1>4, <2>2 DEF CollectionsKept
    <3> QED
      BY <1>8, <3>1, <3>2
  <2> QED
    BY <1>1, <1>2, <1>3, <2>1, <2>2, Steady DEF CollectionsKept
<1>13. TypesKept'
  <2> SUFFICES ASSUME TypesTold
               PROVE  TypesKept'
    BY <1>2 DEF TypesKept
  <2> DEFINE I == UNION {Items(m) : m \in Metrics}
  <2>1. /\ t \notin DOMAIN types
        /\ t = Result(TypeName(k)) =>
             TypeName(k) \in OtherTypes(Metrics) \cup {TypeName(c) : c \in WalkedNatives \cup I}
    BY <1>1, NativeTypeNew
  <2>2. /\ DOMAIN types = OtherTypes(Metrics) \cup {TypeName(op) : op \in I}
                            \cup {collections[m].type : m \in WalkedNatives}
        /\ \A m \in Metrics : \A u \in DOMAIN TypesBuilt(m) : types[u] = TypesBuilt(m)[u]
        /\ \A m \in WalkedNatives :
             /\ types[collections[m].type] = config.native[m].labels
             /\ collections[m].type = Result(TypeName(m)) =>
                  TypeName(m) \in OtherTypes(Metrics) \cup {TypeName(c) : c \in
                    (WalkedNatives \cup I) \ {m}}
    BY <1>1, <1>3, <1>4 DEF TypesKept
  <2>3. I' = I /\ OtherTypes(Metrics)' = OtherTypes(Metrics)
    BY <1>1, <1>2, Steady
  <2>4. \A m \in WalkedNatives : collections'[m] = collections[m] /\ m # k
    BY <1>3, <1>5, <1>8
  <2>5. collections'[k].type = t
    BY <1>8
  <2> HIDE DEF t
  <2>6. DOMAIN types' = OtherTypes(Metrics) \cup {TypeName(op) : op \in I}
                          \cup {collections'[m].type : m \in WalkedNatives \cup {k}}
    BY <1>9, <2>2, <2>4, <2>5
  <2>7. ASSUME NEW m \in Metrics, NEW u \in DOMAIN TypesBuilt(m)
        PROVE  types'[u] = TypesBuilt(m)[u]
    <3>1. DOMAIN TypesBuilt(m) = RowTypes(m) \cup InputTypes(m)
      BY <1>4, BuiltKnown
    <3>2. u \in DOMAIN types
      BY <2>2, <3>1 DEF RowTypes, OtherTypes
    <3> QED
      BY <1>9, <2>1, <2>2, <3>2
  <2>8. ASSUME NEW m \in WalkedNatives \cup {k}
        PROVE  types'[collections'[m].type] = config.native[m].labels
    BY <1>9, <2>1, <2>2, <2>4, <2>5
  <2>9. ASSUME NEW m \in WalkedNatives \cup {k}, collections'[m].type = Result(TypeName(m))
        PROVE  TypeName(m) \in OtherTypes(Metrics) \cup {TypeName(c) : c \in
                 (WalkedNatives \cup {k} \cup I) \ {m}}
    <3>1. k \notin I
      <4>1. \A m_1 \in Metrics : Items(m_1) \subseteq Claims(m_1)
        BY DEF Claims
      <4> QED
        BY <1>5, <1>6, <4>1
    <3>2. CASE m = k
      BY <1>3, <2>1, <2>5, <2>9, <3>1, <3>2
    <3>3. CASE m \in WalkedNatives
      BY <2>2, <2>4, <2>9, <3>3
    <3> QED
      BY <3>2, <3>3
  <2>10. (DOMAIN types = OtherTypes(WalkedMetrics)
             \cup {TypeName(op) : op \in UNION {Items(m) : m \in WalkedMetrics}}
             \cup {collections[m].type : m \in WalkedNatives})'
    <3>1. /\ UNION {Items(m) : m \in WalkedMetrics}' = I
          /\ OtherTypes(WalkedMetrics)' = OtherTypes(Metrics)
      BY <1>1, <1>3, Steady DEF OtherTypes
    <3>2. {collections[m].type : m \in WalkedNatives}' =
            {collections'[m].type : m \in WalkedNatives \cup {k}}
      BY <1>3
    <3> HIDE DEF I
    <3> QED
      BY <2>6, <3>1, <3>2
  <2>11. (\A m \in WalkedMetrics : \A u \in DOMAIN TypesBuilt(m) : types[u] = TypesBuilt(m)[u])'
    BY <1>1, <1>3, <2>7, Steady
  <2>12. (\A m \in WalkedNatives : types[collections[m].type] = config.native[m].labels)'
    BY <1>1, <1>3, <2>8
  <2>13. (\A m \in WalkedNatives :
           collections[m].type = Result(TypeName(m)) =>
             TypeName(m) \in OtherTypes(Metrics) \cup {TypeName(c) : c \in
               (WalkedNatives \cup UNION {Items(n) : n \in Metrics}) \ {m}})'
    BY <1>1, <1>3, <2>3, <2>9
  <2> QED
    BY <2>10, <2>11, <2>12, <2>13 DEF TypesKept
<1>14. Reasons' /\ Answering'
  <2>1. request = << >>
    BY <1>1, NotAsked
  <2> QED
    BY <1>1, <2>1 DEF Reasons, Answering
<1> QED
  BY <1>10, <1>11, <1>12, <1>13, <1>14 DEF IInv

LEMMA BuildNativeInv ==
  ASSUME IInv, NEW k \in Natives, BuildNative(k)
  PROVE  IInv'
<1> DEFINE q == config.native[k]
<1>1. /\ phase = "native" /\ k \in todo /\ todo' = todo \ {k}
      /\ UNCHANGED <<config, request, served>>
      /\ \/ (Taken(k) \/ (q.reserved /\ ~config.promptql) \/ ~q.typed) /\ Stop("refused")
         \/ phase' # "refused"
  BY DEF BuildNative
<1>2. CASE (Taken(k) \/ (q.reserved /\ ~config.promptql) \/ ~q.typed) /\ Stop("refused")
  <2>1. ~NativesFit
    <3>1. CASE Taken(k)
      <4>1. DOMAIN collections = (UNION {Claims(m) : m \in Metrics}) \cup WalkedNatives
        BY <1>1 DEF IInv, BuiltSoFar, WalkedMetrics
      <4>2. k \notin WalkedNatives
        BY <1>1 DEF WalkedNatives
      <4>3. NativeTaken(k)
        BY <3>1, <4>1, <4>2 DEF Taken, NativeTaken
      <4> QED
        BY <4>3 DEF NativesFit
    <3>2. CASE (q.reserved /\ ~config.promptql) \/ ~q.typed
      BY <3>2 DEF NativesFit, Fits
    <3> QED
      BY <1>2, <3>1, <3>2
  <2> QED
    BY <1>1, <1>2, <2>1, StopInv
<1>3. CASE phase' # "refused"
  BY <1>3, NativeBuiltInv
<1> QED
  BY <1>1, <1>2, <1>3

LEMMA ServeInv ==
  ASSUME IInv, NEW c \in DOMAIN collections \cup {PromQLQuery}, Serve(c)
  PROVE  IInv'
<1>1. /\ phase = "ready" /\ request' = <<c>> /\ served' = Dispatch(c)
      /\ config' = config /\ phase' = phase /\ todo' = todo
      /\ collections' = collections /\ types' = types /\ labels' = labels
  BY DEF Serve
<1>2. /\ Metrics' = Metrics /\ Natives' = Natives
      /\ Ambiguous' = Ambiguous /\ NativesFit' = NativesFit
      /\ TypesTold' = TypesTold
  BY <1>1, Steady
<1>3. WalkedMetrics' = WalkedMetrics /\ WalkedNatives' = WalkedNatives
  BY <1>1, <1>2 DEF WalkedMetrics, WalkedNatives
<1>4. c \in Name
  <2>1. {"promql", "query"} \subseteq Words
    BY SchemaAssumption
  <2>2. PromQLQuery \in Name
    BY <2>1 DEF PromQLQuery, Name
  <2> QED
    BY <2>2 DEF IInv, TypeOK
<1>5. Dispatch(c) # << >>
  BY DEF Dispatch, ExplainCollection, OnMetric, Other
<1>6. TypeOK'
  <2>1. /\ request' \in Seq(Name) /\ Len(request') <= 1
        /\ (request' = << >>) = (served' = << >>)
    BY <1>1, <1>4, <1>5
  <2> QED
    BY <1>1, <1>2, <2>1 DEF IInv, TypeOK
<1>7. BuiltSoFar' /\ CollectionsKept' /\ TypesKept'
  BY <1>1, <1>3, BuilderStays DEF IInv
<1>8. Reasons'
  BY <1>1 DEF Reasons
<1>9. Answering'
  <2>1. Dispatch(c)' = Dispatch(c)
    BY <1>1, <1>2 DEF Dispatch, ExplainCollection, OnMetric, Other
  <2>2. DOMAIN request' = {1} /\ request'[1] = c
    BY <1>1
  <2> QED
    BY <1>1, <2>1, <2>2 DEF Answering
<1> QED
  BY <1>6, <1>7, <1>8, <1>9 DEF IInv

LEMMA InitInv == Init => IInv
<1> SUFFICES ASSUME Init PROVE IInv
  OBVIOUS
<1>1. /\ config \in Configs /\ phase = "metrics" /\ todo = Metrics
      /\ collections = Nothing /\ types = [t \in Defaults |-> {}]
      /\ labels = [k \in Metrics |-> config.metrics[k].labels]
      /\ request = << >> /\ served = << >>
  BY DEF Init
<1>2. WalkedMetrics = {} /\ WalkedNatives = {}
  BY <1>1 DEF WalkedMetrics, WalkedNatives
<1>3. DOMAIN collections = {} /\ DOMAIN types = Defaults /\ OtherTypes({}) = Defaults
  BY <1>1 DEF Nothing, OtherTypes
<1>4. TypeOK
  <2>1. \A k \in Metrics : config.metrics[k].labels \in LabelMaps
    BY <1>1, MetricKnown
  <2>2. labels \in [Metrics -> LabelMaps]
    BY <1>1, <2>1
  <2>3. request \in Seq(Name) /\ Len(request) <= 1
    BY <1>1
  <2>4. \A t \in DOMAIN types : types[t] \subseteq Labels \cup {InputField}
    BY <1>1
  <2> QED
    BY <1>1, <1>3, <2>2, <2>3, <2>4 DEF TypeOK
<1>5. BuiltSoFar
  <2>1. ~Duplicates(WalkedMetrics) /\ ~Unfillable(WalkedMetrics)
    BY <1>2 DEF Duplicates, Unfillable
  <2> QED
    BY <1>1, <1>2, <1>3, <2>1 DEF BuiltSoFar
<1>6. CollectionsKept /\ TypesKept
  BY <1>1, <1>2, <1>3 DEF CollectionsKept, TypesKept
<1>7. Reasons /\ Answering
  BY <1>1 DEF Reasons, Answering
<1> QED
  BY <1>4, <1>5, <1>6, <1>7 DEF IInv

LEMMA NextInv == IInv /\ [Next]_vars => IInv'
<1> SUFFICES ASSUME IInv, [Next]_vars PROVE IInv'
  OBVIOUS
<1>1. ASSUME NEW k \in Metrics, BuildMetric(k) PROVE IInv'
  BY <1>1, BuildMetricInv
<1>2. ASSUME NEW k \in Natives, BuildNative(k) PROVE IInv'
  BY <1>2, BuildNativeInv
<1>3. CASE MetricsDone \/ NativeDone
  BY <1>3, WalkDoneInv
<1>4. ASSUME NEW c \in DOMAIN collections \cup {PromQLQuery}, Serve(c) PROVE IInv'
  BY <1>4, ServeInv
<1>5. CASE UNCHANGED vars
  <2>1. /\ config' = config /\ request' = request /\ served' = served
        /\ collections' = collections /\ types' = types /\ labels' = labels
        /\ phase' = phase /\ todo' = todo
    BY <1>5 DEF vars
  <2>2. Metrics' = Metrics /\ Natives' = Natives
        /\ Ambiguous' = Ambiguous /\ NativesFit' = NativesFit
    BY <2>1, Steady
  <2>3. WalkedMetrics' = WalkedMetrics /\ WalkedNatives' = WalkedNatives
    BY <2>1, <2>2 DEF WalkedMetrics, WalkedNatives
  <2>4. TypeOK'
    BY <2>1, <2>2 DEF IInv, TypeOK
  <2>5. Duplicates(Metrics)' = Duplicates(Metrics) /\ Unfillable(Metrics)' = Unfillable(Metrics)
    BY <2>1, <2>2, Steady DEF Duplicates, Unfillable
  <2>6. Reasons'
    BY <2>1, <2>2, <2>5 DEF IInv, Reasons
  <2>7. BuiltSoFar' /\ CollectionsKept' /\ TypesKept'
    <3>1. CASE phase \in {"metrics", "native", "ready"}
      BY <2>1, <2>3, <3>1, BuilderStays DEF IInv
    <3>2. CASE phase \notin {"metrics", "native", "ready"}
      BY <2>1, <3>2 DEF BuiltSoFar, CollectionsKept, TypesKept
    <3> QED
      BY <3>1, <3>2
  <2>8. \A c : Dispatch(c)' = Dispatch(c)
    BY <2>1, <2>2 DEF Dispatch, ExplainCollection, OnMetric, Other
  <2>9. Answering'
    BY <2>1, <2>8 DEF IInv, Answering
  <2> QED
    BY <2>4, <2>6, <2>7, <2>9 DEF IInv
<1>6. CASE Stopped
  BY <1>5, <1>6 DEF Stopped
<1> QED
  BY <1>1, <1>2, <1>3, <1>4, <1>5, <1>6 DEF Next

(* Whatever the configuration and the order of the walks, what the builder *)
(* has built is what it has walked, and stays as it was built              *)
(* (buildMetrics, buildNativeQueries, execQuery).                          *)
THEOREM InductiveInvariant == Spec => []IInv
BY InitInv, NextInv, PTL DEF Spec

(* The variables keep their types.                                         *)
THEOREM TypeCorrect == Spec => []TypeOK
<1>1. IInv => TypeOK
  BY DEF IInv
<1> QED
  BY <1>1, InductiveInvariant, PTL

(* The connector starts only on metrics and native queries whose           *)
(* operations have names of their own, and refuses no others, unless       *)
(* promptql has made the names ambiguous (checkDuplicatedOperation).       *)
THEOREM StartsOnlyUnlessDuplicate == Spec => []StartsUnlessDuplicate
<1>1. IInv => StartsUnlessDuplicate
  <2> SUFFICES ASSUME IInv PROVE StartsUnlessDuplicate
    OBVIOUS
  <2>1. ASSUME phase = "ready" PROVE ~Duplicates(Metrics) /\ NativesFit
    <3>1. WalkedMetrics = Metrics /\ WalkedNatives = Natives
      BY <2>1 DEF WalkedMetrics, WalkedNatives
    <3> QED
      BY <2>1, <3>1 DEF IInv, BuiltSoFar, NativesFit
  <2> QED
    BY <2>1 DEF IInv, Reasons, StartsUnlessDuplicate
<1> QED
  BY <1>1, InductiveInvariant, PTL

(* What a request for a collection of metric k is dispatched to.           *)
LEMMA FoundAgain ==
  ASSUME config \in Configs, NEW k \in Metrics, NEW c \in Claims(k),
         c \in Extras(k) => c \notin Metrics,
         c \in Items(k) \ {k} => IsPart(c),
         IsPart(c) /\ Front(c) \in Metrics => k = Front(c)
  PROVE  \E promql, fn : /\ ExplainCollection(c) = OnMetric(k, promql, fn)
                         /\ <<promql, fn>> = MeantBy(c, k)
<1>1. k \in Name /\ TypeOf(k) \in Types
  BY MetricKnown
<1>2. Parts \cup RangeFns \cup {"quantile"} \subseteq Words
  BY SchemaAssumption
<1>3. ASSUME NEW p \in Parts \cup RangeFns \cup {"quantile"}
      PROVE  LET d == Append(k, p)
             IN /\ d # k /\ Len(d) > 1 /\ d[Len(d)] = p /\ Last(d) = p /\ Front(d) = k
  BY <1>1, <1>2, <1>3, Extended
<1>4. CASE c \in Items(k)
  <2>1. MeantBy(c, k) = <<c, "">>
    BY <1>4 DEF MeantBy
  <2>2. CASE IsHistogram(k)
    <3>1. PICK p \in Parts : c = Append(k, p)
      BY <1>4, <2>2 DEF Items
    <3>2. c # k /\ Front(c) = k
      BY <1>3, <3>1
    <3>3. ExplainCollection(c) = OnMetric(k, c, "")
      BY <1>4, <3>2 DEF ExplainCollection
    <3> QED
      BY <2>1, <3>3
  <2>3. CASE ~IsHistogram(k)
    <3>1. c = k
      BY <1>4, <2>3 DEF Items
    <3>2. Front(c) # c
      <4>1. k \in Seq(Words) /\ Len(k) \in Nat /\ k # << >>
        BY <1>1 DEF Name
      <4>2. Len(k) > 0 /\ Len(k) - 1 \in Nat
        BY <4>1
      <4>3. Len(Front(k)) = Len(k) - 1
        <5> DEFINE n == Len(k) - 1
        <5>1. n \in Nat /\ n <= Len(k)
          BY <4>2
        <5> HIDE DEF n
        <5>2. Len(SubSeq(k, 1, n)) = n
          BY <4>1, <5>1, PrefixLen
        <5> USE DEF n
        <5> QED
          BY <5>2 DEF Front
      <4> QED
        BY <3>1, <4>1, <4>3
    <3>3. ~(IsPart(c) /\ Front(c) \in Metrics)
      BY <3>1, <3>2
    <3>4. ExplainCollection(c) = OnMetric(k, c, "")
      BY <3>1, <3>3 DEF ExplainCollection
    <3> QED
      BY <2>1, <3>4
  <2> QED
    BY <2>2, <2>3
<1>5. CASE c \in Extras(k) /\ c \notin Items(k)
  <2>1. c \notin Metrics
    BY <1>5
  <2>2. CASE IsHistogram(k)
    <3>1. c = Append(k, "quantile")
      BY <1>5, <2>2 DEF Extras
    <3>2. Len(c) > 1 /\ c[Len(c)] = "quantile" /\ Last(c) = "quantile" /\ Front(c) = k
      BY <1>3, <3>1
    <3>3. ~IsPart(c) /\ ~EndsIn(c, RangeFns) /\ EndsIn(c, {"quantile"})
      BY <3>2 DEF IsPart, EndsIn, Parts, RangeFns
    <3>4. ExplainCollection(c) = OnMetric(k, Append(k, "bucket"), "quantile")
      BY <2>1, <3>2, <3>3 DEF ExplainCollection
    <3>5. MeantBy(c, k) = <<Append(k, "bucket"), "quantile">>
      BY <1>5, <3>2 DEF MeantBy, RangeFns
    <3> QED
      BY <3>4, <3>5
  <2>3. CASE ~IsHistogram(k)
    <3>1. PICK f \in RangeFns : c = Append(k, f)
      BY <1>5, <2>3 DEF Extras
    <3>2. Len(c) > 1 /\ c[Len(c)] = f /\ Last(c) = f /\ Front(c) = k
      BY <1>3, <3>1
    <3>3. ~IsPart(c) /\ EndsIn(c, RangeFns)
      BY <3>2 DEF IsPart, EndsIn, Parts, RangeFns
    <3>4. ExplainCollection(c) = OnMetric(k, k, f)
      BY <2>1, <3>2, <3>3 DEF ExplainCollection
    <3>5. MeantBy(c, k) = <<k, f>>
      BY <1>5, <3>2 DEF MeantBy
    <3> QED
      BY <3>4, <3>5
  <2> QED
    BY <2>2, <2>3
<1> QED
  BY <1>4, <1>5 DEF Claims

(* The labels a metric is served with are those of the types of its rows.  *)
LEMMA LabelsEnough ==
  ASSUME BuiltSoFar, phase = "ready", config \in Configs, NEW k \in Metrics,
         NEW t \in RowTypes(k)
  PROVE  TypesBuilt(k)[t] \subseteq UNION Range(labels[k])
<1>1. labels[k] = IF IsHistogram(k) THEN <<LabelsOf(k) \cup {"le"}>>
                  ELSE config.metrics[k].labels
  BY DEF BuiltSoFar, WalkedMetrics
<1>2. TypesBuilt(k)[t] \subseteq LabelsOf(k) \cup (IF IsHistogram(k) THEN {"le"} ELSE {})
  BY DEF TypesBuilt
<1>3. CASE IsHistogram(k)
  <2> DEFINE L == LabelsOf(k) \cup {"le"}
  <2> HIDE DEF L
  <2>1. UNION Range(<<L>>) = L
    BY DEF Range
  <2> USE DEF L
  <2> QED
    BY <1>1, <1>2, <1>3, <2>1
<1>4. CASE ~IsHistogram(k)
  BY <1>1, <1>2, <1>4 DEF LabelsOf
<1> QED
  BY <1>3, <1>4

(* A collection of the schema is served as it was built, if its name leads *)
(* back to what it was built of and tells its type: the request runs on    *)
(* that metric or native query, asks for the series and the function the   *)
(* name stands for, and has a label for each field of the object type      *)
(* (buildMetricsItem, explainQueryCollection).                             *)
THEOREM CollectionsServedAsBuilt == Spec => []ServedAsBuilt
<1>1. IInv => ServedAsBuilt
  <2> SUFFICES ASSUME IInv, NEW i \in DOMAIN request,
                      request[i] # PromQLQuery, Reachable(request[i]), ~Ambiguous, TypesTold
               PROVE  LET c == request[i]
                          d == served[i]
                      IN /\ d.of = collections[c].of
                         /\ d.kind = IF c \in Natives THEN "native" ELSE "metric"
                         /\ d.kind = "metric" => <<d.promql, d.fn>> = MeantBy(c, d.of)
                         /\ types[collections[c].type] \subseteq UNION Range(d.labels)
    BY DEF ServedAsBuilt
  <2> DEFINE c == request[i]
             d == served[i]
  <2>1. /\ phase = "ready" /\ c \in DOMAIN collections /\ served = Dispatch(c)
        /\ c \notin ApiFunctions
    BY DEF IInv, Answering, Reachable
  <2>2. i = 1
    <3>1. request \in Seq(Name) /\ Len(request) <= 1
      BY DEF IInv, TypeOK
    <3> QED
      BY <3>1
  <2>3. /\ WalkedMetrics = Metrics /\ WalkedNatives = Natives
        /\ BuiltSoFar /\ CollectionsKept /\ TypesKept /\ config \in Configs
    BY <2>1 DEF WalkedMetrics, WalkedNatives, IInv, TypeOK
  <2>4. Reachable(c) /\ c # PromQLQuery
    OBVIOUS
  <2> HIDE DEF c
  <2>5. CASE c \in Natives
    <3>1. d = [Other("native")[1] EXCEPT !.of = c, !.labels = <<config.native[c].labels>>]
      BY <2>1, <2>2, <2>4, <2>5 DEF Dispatch
    <3>2. d.of = c /\ d.kind = "native" /\ d.labels = <<config.native[c].labels>>
      BY <3>1 DEF Other
    <3>3. collections[c].of = c /\ types[collections[c].type] = config.native[c].labels
      BY <2>1, <2>3, <2>5 DEF CollectionsKept, TypesKept
    <3>4. UNION Range(d.labels) = config.native[c].labels
      <4> DEFINE L == config.native[c].labels
      <4> HIDE DEF L
      <4>1. UNION Range(<<L>>) = L
        BY DEF Range
      <4> USE DEF L
      <4> QED
        BY <3>2, <4>1
    <3> QED
      BY <2>5, <3>2, <3>3, <3>4 DEF c
  <2>6. CASE c \notin Natives
    <3>1. PICK k \in Metrics : c \in Claims(k)
      BY <2>1, <2>3, <2>6 DEF BuiltSoFar
    <3>2. collections[c] = Built(k)[c]
      BY <2>1, <2>3, <3>1 DEF CollectionsKept
    <3>3. /\ collections[c].of = k
          /\ collections[c].type \in RowTypes(k)
          /\ RowTypes(k) \subseteq DOMAIN TypesBuilt(k)
      BY <2>3, <3>1, <3>2, BuiltKnown
    <3>4. served = ExplainCollection(c)
      BY <2>1, <2>4, <2>6 DEF Dispatch
    <3>5. /\ c \in Extras(k) => c \notin Metrics
          /\ c \in Items(k) \ {k} => IsPart(c)
          /\ IsPart(c) /\ Front(c) \in Metrics => k = Front(c)
      BY <2>4, <2>6, <3>3 DEF Reachable
    <3>6. PICK promql, fn : /\ ExplainCollection(c) = OnMetric(k, promql, fn)
                            /\ <<promql, fn>> = MeantBy(c, k)
      BY <2>3, <3>1, <3>5, FoundAgain
    <3>7. d = [kind |-> "metric", of |-> k, promql |-> promql, fn |-> fn, labels |-> labels[k]]
      BY <2>2, <3>4, <3>6 DEF OnMetric
    <3>8. types[collections[c].type] = TypesBuilt(k)[collections[c].type]
      BY <2>1, <2>3, <3>3 DEF TypesKept
    <3>9. types[collections[c].type] \subseteq UNION Range(labels[k])
      BY <2>1, <2>3, <3>3, <3>8, LabelsEnough
    <3> QED
      BY <2>6, <3>3, <3>6, <3>7, <3>9 DEF c
  <2> QED
    BY <2>5, <2>6
<1> QED
  BY <1>1, InductiveInvariant, PTL
=============================================================================
