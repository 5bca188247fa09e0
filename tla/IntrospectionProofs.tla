------------------------ MODULE IntrospectionProofs ------------------------
(***************************************************************************)
(* Proofs about Introspection for every set of metric names, every report  *)
(* of Prometheus, every number of coroutines and of runs of the command.   *)
(***************************************************************************)
EXTENDS Introspection, TLAPS

LEMMA TypeFromType ==
  ASSUME NEW s \in Seq(Types) PROVE TypeFrom(s) \subseteq AllowedTypes
BY DEF TypeFrom, Position

LEMMA TypeOfType ==
  ASSUME NEW s \in Seq(Types), TypeFrom(s) # {}
  PROVE  TypeOf(s) \in TypeFrom(s) /\ TypeOf(s) \in AllowedTypes
BY TypeFromType DEF TypeOf

LEMMA TypeFromNothing == TypeFrom(<< >>) = {}
BY DEF TypeFrom, Position

LEMMA DerivedType ==
  ASSUME NEW S \in SUBSET Names, NEW r PROVE DerivedOf(S, r) \subseteq Names
BY IntrospectionAssumption DEF DerivedOf

LEMMA IntrospectedType == ASSUME NEW r PROVE Introspected(r) \subseteq Names
BY IntrospectionAssumption DEF Introspected

(* A record of metrics with another map in it. *)
LEMMA WithMetrics ==
  ASSUME NEW c \in Configs, NEW S \in SUBSET Names, NEW f \in [S -> Types]
  PROVE  /\ [c EXCEPT !.metrics = f] \in Configs
         /\ [c EXCEPT !.metrics = f].metrics = f
         /\ Settings([c EXCEPT !.metrics = f]) = Settings(c)
<1>1. f \in Metrics
  BY DEF Metrics
<1> QED
  BY <1>1 DEF Configs, Settings

LEMMA DefaultsType ==
  ZeroConfig \in Configs /\ DefaultConfig \in Configs
<1>1. << >> \in [{} -> Types]
  OBVIOUS
<1>2. << >> \in Metrics
  BY <1>1 DEF Metrics
<1> QED
  BY <1>2 DEF ZeroConfig, DefaultConfig, Configs

(* What is written has the types the connector knows. *)
LEMMA SequentialType ==
  ASSUME NEW c \in Configs, NEW r \in [Names -> Seq(Types)]
  PROVE  /\ Sequential(c, r) \in Configs
         /\ Settings(Sequential(c, r)) = Settings(c)
<1> DEFINE S == Introspected(r) \cup KeptFrom(c, r)
           f == [k \in S |-> IF k \in Introspected(r) THEN TypeOf(r[k]) ELSE c.metrics[k]]
<1>1. S \subseteq Names
  BY IntrospectionAssumption, IntrospectedType DEF KeptFrom
<1>2. ASSUME NEW k \in S PROVE f[k] \in Types
  <2>1. CASE k \in Introspected(r)
    BY <2>1, <1>1, TypeOfType DEF Introspected, Types
  <2>2. CASE k \notin Introspected(r)
    BY <2>2 DEF KeptFrom, Types
  <2> QED
    BY <2>1, <2>2
<1>3. f \in [S -> Types]
  BY <1>2
<1>4. Sequential(c, r) = IF ~c.enabled THEN c ELSE [c EXCEPT !.metrics = f]
  BY DEF Sequential
<1> HIDE DEF S, f
<1>5. CASE c.enabled
  <2>1. Sequential(c, r) = [c EXCEPT !.metrics = f]
    BY <1>4, <1>5
  <2> QED
    BY <1>1, <1>3, <2>1, WithMetrics
<1>6. CASE ~c.enabled
  BY <1>4, <1>6
<1> QED
  BY <1>5, <1>6
-----------------------------------------------------------------------------
LEMMA NoMemoryKeeps ==
  ASSUME IInv, Stop PROVE IInv'
<1> USE DEF IInv
<1>1. /\ coroutines' = 0 /\ base' = ZeroConfig /\ conf' = ZeroConfig
      /\ info' = [k \in Names |-> << >>] /\ existed' = {}
      /\ worker' = [k \in Names |-> "none"] /\ interrupted' = FALSE
      /\ phase' = "idle" /\ prom' = prom /\ file' = file
      /\ started' = started /\ settings' = settings
      /\ torn' = (torn \/ phase = "partial")
  BY DEF Stop, NoMemory
<1>2. TypeOK'
  <2>1. info' \in [Names -> Seq(Types)] /\ existed' \subseteq Names
          /\ worker' \in [Names -> {"none", "running", "labels", "ok", "err"}]
          /\ \A k \in Names : worker'[k] = "none"
    BY <1>1
  <2>2. base' \in Configs /\ conf' \in Configs
    BY <1>1, DefaultsType
  <2>3. torn' \in BOOLEAN
    BY <1>1 DEF TypeOK
  <2>4. phase' \in Phases /\ coroutines' \in Coroutines \cup {0} /\ interrupted' \in BOOLEAN
    BY <1>1 DEF Phases
  <2> QED
    BY <1>1, <2>1, <2>2, <2>3, <2>4 DEF TypeOK
<1>4. StartsFresh' /\ WorkersSoFar' /\ SequentialResult' /\ WorkersWell'
  BY <1>1 DEF StartsFresh, WorkersSoFar, SequentialResult, WorkersWell
<1>5. SettingsRead' /\ SettingsKept'
  BY <1>1 DEF SettingsRead, SettingsKept
<1> QED
  BY <1>2, <1>4, <1>5

LEMMA PromChangesKeeps ==
  ASSUME IInv, PromChanges PROVE IInv'
<1>1. PICK k \in Names : \E infos \in InfoLists[k] :
        prom' = [prom EXCEPT ![k] = infos]
  BY DEF PromChanges
<1>2. prom' \in [Names -> Seq(Types)]
  <2>1. InfoLists[k] \in SUBSET Seq(Types)
    BY IntrospectionAssumption
  <2>2. prom \in [Names -> Seq(Types)]
    BY DEF IInv, TypeOK
  <2> QED
    BY <1>1, <2>1, <2>2
<1>3. TypeOK'
  BY <1>1, <1>2 DEF IInv, TypeOK, PromChanges, memory
<1>4. UNCHANGED <<file, phase, memory, started, settings, torn>>
  BY DEF PromChanges
<1>5. /\ StartsFresh' /\ SequentialResult' /\ WorkersWell'
      /\ SettingsRead' /\ SettingsKept'
  BY <1>4 DEF IInv, memory, StartsFresh, SequentialResult, WorkersWell,
              SettingsRead, SettingsKept
<1>6. WorkersSoFar'
  BY <1>4 DEF IInv, memory, WorkersSoFar, Added, Examined
<1> QED
  BY <1>3, <1>5, <1>6 DEF IInv

LEMMA ReadKeeps ==
  ASSUME IInv, Read PROVE IInv'
<1> USE DEF IInv
<1>1. /\ phase = "idle" /\ file.tag \notin {Empty, Broken} /\ coroutines' \in Coroutines
      /\ conf' = base' /\ phase' = IF base'.enabled THEN "fetch" ELSE "validate"
      /\ base' = IF file.tag = Absent THEN DefaultConfig ELSE file.conf
      /\ prom' = prom /\ file' = file /\ info' = info /\ existed' = existed
      /\ worker' = worker /\ interrupted' = interrupted /\ settings' = settings
      /\ started' = "none" /\ torn' = torn
  BY DEF Read
<1>2. /\ base' \in Configs
      /\ ~torn => Settings(base') = settings
  BY <1>1, DefaultsType DEF TypeOK, SettingsRead, SettingsKept, Absent, Empty, Broken
<1>4. TypeOK'
  BY <1>1, <1>2 DEF TypeOK, Phases
<1>5. StartsFresh' /\ WorkersSoFar' /\ WorkersWell'
  BY <1>1 DEF StartsFresh, WorkersSoFar, WorkersWell
<1>6. SequentialResult'
  BY <1>1 DEF SequentialResult, Sequential
<1>7. SettingsRead' /\ SettingsKept'
  BY <1>1, <1>2 DEF SettingsRead, SettingsKept, Settings
<1> QED
  BY <1>4, <1>5, <1>6, <1>7

(* When the goroutines begin, none has added or marked anything. *)
LEMMA FetchKeeps ==
  ASSUME IInv, Fetch PROVE IInv'
<1> USE DEF IInv
<1> DEFINE f == [k \in {} |-> TypeOf(info'[k])]
<1>1. /\ phase = "fetch" /\ info' = prom /\ phase' = "introspect"
      /\ conf' = [conf EXCEPT !.metrics = << >>]
      /\ prom' = prom /\ file' = file /\ coroutines' = coroutines /\ base' = base
      /\ existed' = existed /\ worker' = worker /\ interrupted' = interrupted
      /\ started' = started /\ settings' = settings /\ torn' = torn
  BY DEF Fetch
<1>2. worker' = [k \in Names |-> "none"] /\ existed' = {}
  BY <1>1 DEF StartsFresh
<1>3. Added' = {} /\ Examined' = {}
  BY <1>2, IntrospectedType DEF Added, Examined
<1>4. conf' = [base' EXCEPT !.metrics = f]
  <2>1. << >> = f
    OBVIOUS
  <2> QED
    BY <1>1, <2>1 DEF SettingsRead
<1>5. conf' = [base EXCEPT !.metrics = [k \in Added |-> TypeOf(info[k])]]'
  BY <1>3, <1>4
<1>6. DerivedOf(Examined, info)' = {}
  BY <1>3 DEF DerivedOf
<1>7. conf' \in Configs
  <2>1. f \in [{} -> Types]
    OBVIOUS
  <2>2. {} \in SUBSET Names /\ base' \in Configs
    BY <1>1 DEF TypeOK
  <2> HIDE DEF f, IInv
  <2> QED
    BY <1>4, <2>1, <2>2, WithMetrics
<1>9. TypeOK'
  BY <1>1, <1>2, <1>7 DEF TypeOK, Phases
<1>10. WorkersSoFar'
  BY <1>1, <1>2, <1>3, <1>5, <1>6 DEF WorkersSoFar
<1>11. (StartsFresh /\ SequentialResult /\ WorkersWell /\ SettingsRead /\ SettingsKept)'
  BY <1>1 DEF StartsFresh, SequentialResult, WorkersWell, SettingsRead, SettingsKept
<1> QED
  BY <1>9, <1>10, <1>11

(* A step of a worker that leaves the rest of the command alone. *)
LEMMA WorkerStep ==
  ASSUME IInv, phase = "introspect", WorkersSoFar',
         UNCHANGED <<prom, file, phase, coroutines, base, info, interrupted, started, settings, torn>>,
         NEW k \in Names, info[k] # << >>,
         NEW s \in {"running", "labels", "ok", "err"},
         worker' = [worker EXCEPT ![k] = s],
         existed' \subseteq Names,
         conf' \in Configs
  PROVE  IInv'
<1> USE DEF IInv
<1>2. worker' \in [Names -> {"none", "running", "labels", "ok", "err"}]
        /\ \A m \in Names : worker'[m] # "none" => info'[m] # << >>
  BY DEF TypeOK
<1>3. TypeOK'
  BY <1>2 DEF TypeOK
<1>4. (StartsFresh /\ SequentialResult /\ WorkersWell /\ SettingsRead /\ SettingsKept)'
  BY DEF StartsFresh, SequentialResult, WorkersWell, SettingsRead, SettingsKept
<1> QED
  BY <1>3, <1>4

LEMMA LaunchKeeps ==
  ASSUME IInv, NEW k \in Names, Launch(k) PROVE IInv'
<1> USE DEF IInv
<1>1. /\ phase = "introspect" /\ info[k] # << >> /\ worker[k] = "none"
      /\ worker' = [worker EXCEPT ![k] = "running"]
      /\ UNCHANGED <<prom, file, phase, coroutines, base, conf, info, existed,
                     interrupted, started, settings, torn>>
  BY DEF Launch
<1>2. Added' = Added /\ Examined' = Examined
  BY <1>1, IntrospectedType DEF TypeOK, Added, Examined, Introspected
<1>3. DerivedOf(Examined, info)' = DerivedOf(Examined, info)
  BY <1>1, <1>2 DEF DerivedOf
<1>4. WorkersSoFar'
  <2>1. \A m \in Names : worker'[m] \in {"labels", "err"} => m \in Introspected(info)'
    BY <1>1 DEF TypeOK, WorkersSoFar, Introspected
  <2>2. conf' = [base EXCEPT !.metrics = [m \in Added |-> TypeOf(info[m])]]'
    BY <1>1, <1>2 DEF WorkersSoFar
  <2> QED
    BY <1>1, <1>2, <1>3, <2>1, <2>2 DEF WorkersSoFar
<1>5. existed' \subseteq Names /\ conf' \in Configs
  BY <1>1 DEF TypeOK
<1> QED
  BY <1>1, <1>4, <1>5, WorkerStep

LEMMA DerivedOfMore ==
  ASSUME NEW S, NEW r, NEW k
  PROVE  DerivedOf(S \cup {k}, r) = DerivedOf(S, r) \cup
           UNION {IF MarksDerived(t) THEN Derived[k] ELSE {} : t \in TypeFrom(r[k])}
BY DEF DerivedOf

LEMMA ExamineKeeps ==
  ASSUME IInv, NEW k \in Names, Examine(k) PROVE IInv'
<1> USE DEF IInv
<1>1. /\ worker[k] = "running"
      /\ UNCHANGED <<prom, file, phase, coroutines, base, conf, info,
                     interrupted, started, settings, torn>>
  BY DEF Examine
<1>2. phase = "introspect" /\ info[k] # << >>
  BY <1>1 DEF TypeOK, Phases, StartsFresh, WorkersWell
<1>3. k \notin Added /\ k \notin Examined
  BY <1>1 DEF Added, Examined
<1>4. CASE k \notin Introspected(info)
  <2>1. worker' = [worker EXCEPT ![k] = "ok"] /\ existed' = existed
    BY <1>4 DEF Examine, Introspected
  <2>2. Added' = Added /\ Examined' = Examined
    BY <1>1, <1>4, <2>1, IntrospectedType DEF TypeOK, Added, Examined, Introspected
  <2>3. DerivedOf(Examined, info)' = DerivedOf(Examined, info)
    BY <1>1, <2>2 DEF DerivedOf
  <2>4. \A m \in Names : worker'[m] \in {"labels", "err"} => m \in Introspected(info)'
    BY <1>1, <1>2, <2>1 DEF TypeOK, WorkersSoFar, Introspected
  <2>5. conf' = [base EXCEPT !.metrics = [m \in Added |-> TypeOf(info[m])]]'
    BY <1>1, <1>2, <2>2 DEF WorkersSoFar
  <2>6. WorkersSoFar'
    BY <1>1, <1>2, <2>1, <2>2, <2>3, <2>4, <2>5 DEF WorkersSoFar
  <2>7. existed' \subseteq Names /\ conf' \in Configs
    BY <1>1, <2>1 DEF TypeOK
  <2> QED
    BY <1>1, <1>2, <2>1, <2>6, <2>7, WorkerStep
<1>5. CASE k \in Introspected(info)
  <2>1. /\ worker' = [worker EXCEPT ![k] = "labels"]
        /\ existed' = existed \cup
             UNION {IF MarksDerived(t) THEN Derived[k] ELSE {} : t \in TypeFrom(info[k])}
    BY <1>5 DEF Examine, Introspected
  <2>2. Added' = Added /\ Examined' = Examined \cup {k}
    BY <1>1, <1>5, <2>1, IntrospectedType DEF TypeOK, Added, Examined, Introspected
  <2>3. existed' = Added \cup DerivedOf(Examined \cup {k}, info)
    BY <1>2, <2>1, DerivedOfMore DEF WorkersSoFar
  <2>4. existed' = (Added \cup DerivedOf(Examined, info))'
    BY <1>1, <2>2, <2>3 DEF DerivedOf
  <2>5. \A m \in Names : worker'[m] \in {"labels", "err"} => m \in Introspected(info)'
    BY <1>1, <1>2, <1>5, <2>1 DEF TypeOK, WorkersSoFar, Introspected
  <2>6. conf' = [base EXCEPT !.metrics = [m \in Added |-> TypeOf(info[m])]]'
    BY <1>1, <1>2, <2>2 DEF WorkersSoFar
  <2>7. WorkersSoFar'
    BY <1>1, <1>2, <2>4, <2>5, <2>6 DEF WorkersSoFar
  <2>8. existed' \subseteq Names /\ conf' \in Configs
    <3>1. Examined \cup {k} \subseteq Names /\ Added \subseteq Names
      BY IntrospectedType DEF Examined, Added
    <3> QED
      BY <1>1, <2>3, <3>1, DerivedType DEF TypeOK
  <2> QED
    BY <1>1, <1>2, <2>1, <2>7, <2>8, WorkerStep
<1> QED
  BY <1>4, <1>5

LEMMA SetMetadataMetricKeeps ==
  ASSUME IInv, NEW k \in Names, SetMetadataMetric(k) PROVE IInv'
<1> USE DEF IInv
<1> DEFINE f == [m \in Added |-> TypeOf(info[m])]
           g == [m \in Added \cup {k} |-> TypeOf(info[m])]
<1>1. /\ worker[k] = "labels" /\ worker' = [worker EXCEPT ![k] = "ok"]
      /\ existed' = existed \cup {k}
      /\ conf' = [conf EXCEPT !.metrics =
                    [m \in DOMAIN @ \cup {k} |-> IF m = k THEN TypeOf(info[k]) ELSE @[m]]]
      /\ UNCHANGED <<prom, file, phase, coroutines, base, info, interrupted,
                     started, settings, torn>>
  BY DEF SetMetadataMetric
<1>2. phase = "introspect" /\ info[k] # << >>
  BY <1>1 DEF TypeOK, Phases, StartsFresh, WorkersWell
<1>3. k \in Introspected(info) /\ k \notin Added
  BY <1>1, <1>2 DEF WorkersSoFar, Added
<1>4. Added' = Added \cup {k} /\ Examined' = Examined
  BY <1>1, <1>3, IntrospectedType DEF TypeOK, Added, Examined, Introspected
<1>5. Added \cup {k} \subseteq Names
  BY IntrospectedType DEF Added
<1>6. g \in [Added \cup {k} -> Types]
  BY <1>3, <1>5, TypeOfType DEF Added, Introspected, TypeOK, Types
<1>7. f \in [Added -> Types]
  BY <1>5, TypeOfType DEF Added, Introspected, TypeOK, Types
<1>8. conf' = [base EXCEPT !.metrics = g]
  <2>1. conf = [base EXCEPT !.metrics = f] /\ conf.metrics = f /\ conf \in Configs
    <3>1. conf = [base EXCEPT !.metrics = f]
      BY <1>2 DEF WorkersSoFar
    <3>2. base \in Configs /\ Added \in SUBSET Names
      BY <1>5 DEF TypeOK
    <3> HIDE DEF f, IInv
    <3> QED
      BY <1>7, <3>1, <3>2, WithMetrics
  <2>2. [m \in DOMAIN f \cup {k} |-> IF m = k THEN TypeOf(info[k]) ELSE f[m]] = g
    BY <1>3
  <2>3. conf' = [conf EXCEPT !.metrics = g]
    BY <1>1, <2>1, <2>2
  <2> HIDE DEF f, g
  <2> QED
    BY <2>1, <2>3 DEF TypeOK, Configs
<1>9. conf' = [base EXCEPT !.metrics = [m \in Added |-> TypeOf(info[m])]]'
  BY <1>1, <1>4, <1>8
<1>10. DerivedOf(Examined, info)' = DerivedOf(Examined, info)
  BY <1>1, <1>4 DEF DerivedOf
<1>11. \A m \in Names : worker'[m] \in {"labels", "err"} => m \in Introspected(info)'
  BY <1>1, <1>2 DEF TypeOK, WorkersSoFar, Introspected
<1>12. WorkersSoFar'
  BY <1>1, <1>2, <1>4, <1>9, <1>10, <1>11 DEF WorkersSoFar
<1>13. existed' \subseteq Names /\ conf' \in Configs
  <2>1. base \in Configs /\ existed' \subseteq Names
    BY <1>1 DEF TypeOK
  <2> HIDE DEF g, IInv
  <2> QED
    BY <1>5, <1>6, <1>8, <2>1, WithMetrics
<1> QED
  BY <1>1, <1>2, <1>12, <1>13, WorkerStep

LEMMA LabelsFailKeeps ==
  ASSUME IInv, NEW k \in Names, LabelsFail(k) PROVE IInv'
<1> USE DEF IInv
<1>1. /\ worker[k] = "labels" /\ worker' = [worker EXCEPT ![k] = "err"]
      /\ UNCHANGED <<prom, file, phase, coroutines, base, conf, info, existed,
                     interrupted, started, settings, torn>>
  BY DEF LabelsFail
<1>2. phase = "introspect" /\ info[k] # << >>
  BY <1>1 DEF TypeOK, Phases, StartsFresh, WorkersWell
<1>3. Added' = Added /\ Examined' = Examined
  BY <1>1, IntrospectedType DEF TypeOK, Added, Examined, Introspected
<1>4. DerivedOf(Examined, info)' = DerivedOf(Examined, info)
  BY <1>1, <1>3 DEF DerivedOf
<1>5. \A m \in Names : worker'[m] \in {"labels", "err"} => m \in Introspected(info)'
  BY <1>1, <1>2 DEF TypeOK, WorkersSoFar, Introspected
<1>6. conf' = [base EXCEPT !.metrics = [m \in Added |-> TypeOf(info[m])]]'
  BY <1>1, <1>2, <1>3 DEF WorkersSoFar
<1>7. WorkersSoFar'
  BY <1>1, <1>2, <1>3, <1>4, <1>5, <1>6 DEF WorkersSoFar
<1>8. existed' \subseteq Names /\ conf' \in Configs
  BY <1>1 DEF TypeOK
<1> QED
  BY <1>1, <1>2, <1>7, <1>8, WorkerStep

(* Once all workers are done and none has failed, every metric of the      *)
(* report is in memory, and the merge adds what a sequential run keeps.    *)
LEMMA MergeMakesSequential ==
  ASSUME IInv, MergeExisting PROVE conf' = Sequential(base, info)
<1> USE DEF IInv
<1> DEFINE I    == Introspected(info)
           kept == Existing \ existed
           f    == [k \in I |-> TypeOf(info[k])]
           g    == [m \in I \cup kept |-> IF m \in I THEN TypeOf(info[m]) ELSE base.metrics[m]]
<1>1. /\ phase = "introspect" /\ WorkersDone /\ \A k \in Names : worker[k] # "err"
      /\ conf' = [conf EXCEPT !.metrics =
                    [m \in DOMAIN @ \cup kept |-> IF m \in kept THEN base.metrics[m] ELSE @[m]]]
  BY DEF MergeExisting
<1>2. I \subseteq Names /\ \A k \in I : worker[k] = "ok"
  BY <1>1, IntrospectedType, TypeFromNothing DEF WorkersDone, Introspected
<1>3. Added = I /\ Examined = I
  BY <1>2 DEF Added, Examined
<1>4. existed = Claimed(info)
  BY <1>1, <1>3 DEF WorkersSoFar, Claimed
<1>5. kept = KeptFrom(base, info)
  BY <1>4 DEF Existing, KeptFrom
<1>6. kept \cap I = {}
  BY <1>4 DEF Claimed
<1>7. conf = [base EXCEPT !.metrics = f] /\ base.enabled /\ base \in Configs
  BY <1>1, <1>3 DEF WorkersSoFar, SettingsRead, TypeOK
<1>8. [m \in DOMAIN f \cup kept |-> IF m \in kept THEN base.metrics[m] ELSE f[m]] = g
  BY <1>6
<1>9. Sequential(base, info) = [base EXCEPT !.metrics = g]
  BY <1>5, <1>7 DEF Sequential
<1> HIDE DEF f, g, kept, I, IInv
<1>10. conf.metrics = f
  BY <1>7 DEF Configs
<1>11. conf' = [conf EXCEPT !.metrics = g]
  BY <1>1, <1>8, <1>10
<1> QED
  BY <1>7, <1>9, <1>11 DEF Configs

LEMMA MergeExistingKeeps ==
  ASSUME IInv, MergeExisting PROVE IInv'
<1> USE DEF IInv
<1>1. /\ phase = "introspect" /\ phase' = "validate" /\ \A k \in Names : worker[k] # "err"
      /\ WorkersDone
      /\ UNCHANGED <<prom, file, coroutines, base, info, existed, worker,
                     interrupted, started, settings, torn>>
  BY DEF MergeExisting
<1>2. conf' = Sequential(base, info)
  BY MergeMakesSequential
<1>3. conf' \in Configs
  <2>1. base \in Configs /\ info \in [Names -> Seq(Types)]
    BY DEF TypeOK
  <2> QED
    BY <1>2, <2>1, SequentialType
<1>5. TypeOK'
  BY <1>1, <1>3 DEF TypeOK, Phases
<1>6. WorkersWell'
  BY <1>1 DEF WorkersWell, WorkersDone, TypeOK
<1>7. SequentialResult'
  BY <1>1, <1>2 DEF SequentialResult
<1>8. (StartsFresh /\ WorkersSoFar /\ SettingsRead /\ SettingsKept)'
  BY <1>1 DEF StartsFresh, WorkersSoFar, SettingsRead, SettingsKept
<1> QED
  BY <1>5, <1>6, <1>7, <1>8

LEMMA ValidateKeeps ==
  ASSUME IInv, Validate PROVE IInv'
<1> USE DEF IInv
<1>1. /\ phase = "validate" /\ phase' = "write"
      /\ UNCHANGED <<prom, file, coroutines, base, conf, info, existed, worker,
                     interrupted, started, settings, torn>>
  BY DEF Validate, memory
<1>3. TypeOK'
  BY <1>1 DEF TypeOK, Phases
<1>4. SequentialResult' /\ WorkersWell'
  BY <1>1 DEF SequentialResult, WorkersWell
<1>5. (StartsFresh /\ WorkersSoFar /\ SettingsRead /\ SettingsKept)'
  BY <1>1 DEF StartsFresh, WorkersSoFar, SettingsRead, SettingsKept
<1> QED
  BY <1>3, <1>4, <1>5

LEMMA TruncateKeeps ==
  ASSUME IInv, Truncate PROVE IInv'
<1> USE DEF IInv
<1>1. /\ phase = "write" /\ phase' = "truncated" /\ file' = [tag |-> Empty]
      /\ UNCHANGED <<prom, coroutines, base, conf, info, existed, worker,
                     interrupted, started, settings, torn>>
  BY DEF Truncate, memory
<1>2. TypeOK'
  BY <1>1 DEF TypeOK, Phases
<1>3. SequentialResult' /\ WorkersWell'
  BY <1>1 DEF SequentialResult, WorkersWell
<1>4. (StartsFresh /\ WorkersSoFar)'
  BY <1>1 DEF StartsFresh, WorkersSoFar
<1>5. (SettingsRead /\ SettingsKept)'
  BY <1>1 DEF SettingsRead, SettingsKept, Absent, Empty
<1> QED
  BY <1>2, <1>3, <1>4, <1>5

(* What a cut off write leaves is a configuration. *)
LEMMA PartsType ==
  ASSUME NEW c \in Configs PROVE Parts(c) \subseteq Configs
<1> DEFINE Some(S) == [k \in S |-> c.metrics[k]]
<1>1. ASSUME NEW S \in SUBSET DOMAIN c.metrics
      PROVE  [c EXCEPT !.metrics = Some(S), !.native = {}, !.promptql = FALSE] \in Configs
  <2>1. PICK D \in SUBSET Names : c.metrics \in [D -> Types]
    BY DEF Configs, Metrics
  <2>2. S \in SUBSET Names /\ Some(S) \in [S -> Types]
    BY <2>1
  <2>3. Some(S) \in Metrics
    BY <2>2 DEF Metrics
  <2> HIDE DEF Some
  <2> QED
    BY <2>3 DEF Configs
<1>2. ASSUME NEW N \in SUBSET c.native
      PROVE  [c EXCEPT !.native = N, !.promptql = FALSE] \in Configs
  <2>1. N \in SUBSET Names
    BY DEF Configs
  <2> QED
    BY <2>1 DEF Configs
<1>3. [ZeroConfig EXCEPT !.enabled = c.enabled] \in Configs /\ ZeroConfig \in Configs
  BY DefaultsType DEF Configs
<1> QED
  BY <1>1, <1>2, <1>3 DEF Parts

LEMMA WritePartKeeps ==
  ASSUME IInv, WritePart PROVE IInv'
<1> USE DEF IInv
<1>1. /\ phase = "truncated" /\ phase' = "partial"
      /\ file' \in {[tag |-> Broken]} \cup [tag : {"config"}, conf : Parts(conf)]
      /\ UNCHANGED <<prom, coroutines, base, conf, info, existed, worker,
                     interrupted, started, settings, torn>>
  BY DEF WritePart, memory
<1>2. file' \in [tag : {Broken}] \cup [tag : {"config"}, conf : Configs]
  <2>1. conf \in Configs
    BY DEF TypeOK
  <2> QED
    BY <1>1, <2>1, PartsType
<1>3. TypeOK'
  BY <1>1, <1>2 DEF TypeOK, Phases
<1>4. SequentialResult' /\ WorkersWell'
  BY <1>1 DEF SequentialResult, WorkersWell
<1>5. (StartsFresh /\ WorkersSoFar)'
  BY <1>1 DEF StartsFresh, WorkersSoFar
<1>6. (SettingsRead /\ SettingsKept)'
  BY <1>1, <1>2 DEF SettingsRead, SettingsKept, Absent, Broken
<1> QED
  BY <1>3, <1>4, <1>5, <1>6

(* The written configuration has the settings of the one that was read,    *)
(* which are the user's.                                                   *)
LEMMA WriteBytesKeeps ==
  ASSUME IInv, WriteBytes PROVE IInv'
<1> USE DEF IInv
<1>1. /\ coroutines' = 0 /\ base' = ZeroConfig /\ conf' = ZeroConfig
      /\ info' = [k \in Names |-> << >>] /\ existed' = {}
      /\ worker' = [k \in Names |-> "none"] /\ interrupted' = FALSE
      /\ phase \in {"truncated", "partial"} /\ phase' = "idle" /\ prom' = prom
      /\ file' = [tag |-> "config", conf |-> conf]
      /\ started' = started /\ settings' = settings /\ torn' = torn
  BY DEF WriteBytes, NoMemory
<1>2. ~torn => Settings(conf) = settings
  <2>1. conf = Sequential(base, info) /\ (~torn => Settings(base) = settings)
    BY <1>1 DEF SequentialResult, SettingsRead
  <2>2. base \in Configs /\ info \in [Names -> Seq(Types)]
    BY DEF TypeOK
  <2> QED
    BY <2>1, <2>2, SequentialType
<1>3. TypeOK'
  <2>1. info' \in [Names -> Seq(Types)] /\ existed' \subseteq Names
          /\ worker' \in [Names -> {"none", "running", "labels", "ok", "err"}]
          /\ \A k \in Names : worker'[k] = "none"
    BY <1>1
  <2>2. base' \in Configs /\ conf' \in Configs
    BY <1>1, DefaultsType
  <2>3. torn' \in BOOLEAN
    BY <1>1 DEF TypeOK
  <2>4. phase' \in Phases /\ coroutines' \in Coroutines \cup {0} /\ interrupted' \in BOOLEAN
    BY <1>1 DEF Phases
  <2>5. file' \in [tag : {"config"}, conf : Configs]
    BY <1>1 DEF TypeOK
  <2>6. /\ prom' \in [Names -> Seq(Types)]
        /\ settings' \in {"merge", "replace"} \X BOOLEAN \X (SUBSET Names) \X BOOLEAN
        /\ started' \in {"none", "ok", "duplicate", "no file", "unreadable"}
    BY <1>1 DEF TypeOK
  <2> HIDE DEF IInv
  <2> QED
    BY <2>1, <2>2, <2>3, <2>4, <2>5, <2>6 DEF TypeOK
<1>5. StartsFresh' /\ WorkersSoFar' /\ SequentialResult' /\ WorkersWell'
  BY <1>1 DEF StartsFresh, WorkersSoFar, SequentialResult, WorkersWell
<1>6. SettingsRead' /\ SettingsKept'
  BY <1>1, <1>2 DEF SettingsRead, SettingsKept, Absent
<1> QED
  BY <1>3, <1>5, <1>6

(* Steps that change neither the command's result nor the file. *)
LEMMA OtherStepsKeep ==
  ASSUME IInv,
         UNCHANGED <<prom, file, phase, coroutines, base, conf, info, existed, worker, settings, torn>>,
         interrupted' \in BOOLEAN,
         started' \in {"none", "ok", "duplicate", "no file", "unreadable"}
  PROVE  IInv'
<1> USE DEF IInv
<1>2. TypeOK'
  BY DEF TypeOK
<1>3. SequentialResult' /\ WorkersWell'
  BY DEF SequentialResult, WorkersWell
<1>4. StartsFresh' /\ WorkersSoFar'
  <2>1. Added' = Added /\ Examined' = Examined
    BY DEF Added, Examined
  <2>2. DerivedOf(Examined, info)' = DerivedOf(Examined, info)
    BY <2>1 DEF DerivedOf
  <2>3. StartsFresh'
    BY DEF StartsFresh
  <2>4. WorkersSoFar'
    BY <2>1, <2>2 DEF WorkersSoFar
  <2> QED
    BY <2>3, <2>4
<1>5. SettingsRead' /\ SettingsKept'
  BY DEF SettingsRead, SettingsKept
<1> QED
  BY <1>2, <1>3, <1>4, <1>5
-----------------------------------------------------------------------------
LEMMA InitInvariant == Init => IInv
<1> SUFFICES ASSUME Init PROVE IInv
  OBVIOUS
<1>1. prom \in [Names -> Seq(Types)]
  <2>1. \A k \in Names : InfoLists[k] \subseteq Seq(Types)
    BY IntrospectionAssumption
  <2>2. prom \in [Names -> UNION {InfoLists[k] : k \in Names}]
    BY DEF Init
  <2> QED
    BY <2>1, <2>2
<1>2. file \in [tag : {Absent}] \cup [tag : {"config"}, conf : Configs]
  BY IntrospectionAssumption DEF Init
<1>3. file \in [tag : {Absent, Empty, Broken}] \cup [tag : {"config"}, conf : Configs]
  BY <1>2
<1>4. settings \in {"merge", "replace"} \X BOOLEAN \X (SUBSET Names) \X BOOLEAN
  <2>1. \A c \in Configs : Settings(c) \in {"merge", "replace"} \X BOOLEAN \X (SUBSET Names) \X BOOLEAN
    BY DEF Settings, Configs
  <2>2. file.tag # Absent => file.conf \in Configs
    BY <1>2 DEF Absent
  <2> QED
    BY <2>1, <2>2, DefaultsType DEF Init
<1>5. base \in Configs /\ conf \in Configs
  BY DefaultsType DEF Init
<1>6. TypeOK
  <2>1. /\ info \in [Names -> Seq(Types)] /\ existed \subseteq Names
        /\ worker \in [Names -> {"none", "running", "labels", "ok", "err"}]
        /\ \A k \in Names : worker[k] = "none"
    BY DEF Init
  <2>2. /\ phase \in Phases /\ coroutines \in Coroutines \cup {0}
        /\ interrupted \in BOOLEAN /\ torn \in BOOLEAN
        /\ started \in {"none", "ok", "duplicate", "no file", "unreadable"}
    BY DEF Init, Phases
  <2> QED
    BY <1>1, <1>3, <1>4, <1>5, <2>1, <2>2 DEF TypeOK
<1>7. StartsFresh
  BY DEF Init, StartsFresh
<1>9. WorkersSoFar /\ SequentialResult /\ WorkersWell
  BY DEF Init, WorkersSoFar, SequentialResult, WorkersWell
<1>8. SettingsRead /\ SettingsKept
  BY DEF Init, SettingsRead, SettingsKept, Absent
<1> QED
  BY <1>6, <1>7, <1>8, <1>9 DEF IInv

LEMMA NextInvariant == IInv /\ [Next]_vars => IInv'
<1> SUFFICES ASSUME IInv, [Next]_vars PROVE IInv'
  OBVIOUS
<1>1. CASE Read
  BY <1>1, ReadKeeps
<1>2. CASE FetchFails \/ WaitFails \/ ValidateFails \/ Crash
  BY <1>2, NoMemoryKeeps DEF FetchFails, WaitFails, ValidateFails, Crash
<1>3. CASE Fetch
  BY <1>3, FetchKeeps
<1>4. CASE \E k \in Names : Worker(k)
  BY <1>4, LaunchKeeps, ExamineKeeps, SetMetadataMetricKeeps, LabelsFailKeeps DEF Worker
<1>5. CASE MergeExisting
  BY <1>5, MergeExistingKeeps
<1>6. CASE Validate
  BY <1>6, ValidateKeeps
<1>7. CASE Truncate
  BY <1>7, TruncateKeeps
<1>8. CASE WriteBytes
  BY <1>8, WriteBytesKeeps
<1>13. CASE WritePart
  BY <1>13, WritePartKeeps
<1>9. CASE PromChanges
  BY <1>9, PromChangesKeeps
<1>10. CASE Interrupt
  <2>1. started \in {"none", "ok", "duplicate", "no file", "unreadable"}
    BY DEF IInv, TypeOK
  <2> QED
    BY <1>10, <2>1, OtherStepsKeep DEF Interrupt
<1>11. CASE Start
  <2>1. interrupted \in BOOLEAN
    BY DEF IInv, TypeOK
  <2> QED
    BY <1>11, <2>1, OtherStepsKeep DEF Start, memory
<1>12. CASE UNCHANGED vars
  <2>1. /\ interrupted \in BOOLEAN
        /\ started \in {"none", "ok", "duplicate", "no file", "unreadable"}
    BY DEF IInv, TypeOK
  <2> QED
    BY <1>12, <2>1, OtherStepsKeep DEF vars, memory
<1> QED
  BY <1>1, <1>2, <1>3, <1>4, <1>5, <1>6, <1>7, <1>8, <1>9, <1>10, <1>11, <1>12, <1>13
  DEF Next, Command

(* In every reachable state the memory of the command is what the report,  *)
(* the file and the progress of the goroutines make of it, in whatever     *)
(* order they have run, and no interruption or restart mixes two commands  *)
(* (introspectSchema, updateMetricsMetadata).                              *)
THEOREM InductiveInvariant == Spec => []IInv
BY InitInvariant, NextInvariant, PTL DEF Spec

(* The types of all variables (updateCommand). *)
THEOREM TypeCorrect == Spec => []TypeOK
<1>1. IInv => TypeOK
  BY DEF IInv
<1> QED
  BY <1>1, InductiveInvariant, PTL

(* The workers' result is that of a sequential run, whatever their number  *)
(* and order (updateMetricsMetadata).                                      *)
THEOREM ResultIsSequential == Spec => []SequentialResult
<1>1. IInv => SequentialResult
  BY DEF IInv
<1> QED
  BY <1>1, InductiveInvariant, PTL

(* As long as no write has ended inside the file, no run, crash or write   *)
(* that never began loses the user's settings (introspectSchema,           *)
(* writeConfigFile).                                                       *)
THEOREM SettingsSurvive == Spec => []SettingsKept
<1>1. IInv => SettingsKept
  BY DEF IInv
<1> QED
  BY <1>1, InductiveInvariant, PTL

(* Whatever is written of a configuration is the sequential run's, and a   *)
(* command one of whose workers has failed leaves the file as it is        *)
(* (updateMetricsMetadata, writeConfigFile).                               *)
THEOREM OnlyResultsWritten == Spec => ResultsWritten
<1> DEFINE Seqn == Sequential(base, info)
           Good == /\ phase \in {"write", "truncated", "partial"}
                   /\ \A k \in Names : worker[k] # "err"
                   /\ file' \in {[tag |-> Empty], [tag |-> Broken]} \cup
                        [tag : {"config"}, conf : Parts(Seqn) \cup {Seqn}]
<1>1. ASSUME IInv, [Next]_vars, file' # file PROVE Good
  <2>1. Truncate \/ WritePart \/ WriteBytes
    BY <1>1 DEF Next, Command, Worker, Read, FetchFails, WaitFails, ValidateFails, Crash,
       Stop, Fetch, Launch, Examine, SetMetadataMetric, LabelsFail, MergeExisting,
       Validate, PromChanges, Interrupt, Start, vars, memory
  <2>2. phase \in {"write", "truncated", "partial"}
    BY <2>1 DEF Truncate, WritePart, WriteBytes
  <2>3. conf = Seqn /\ \A k \in Names : worker[k] # "err"
    BY <1>1, <2>2 DEF IInv, SequentialResult, WorkersWell
  <2> HIDE DEF Seqn
  <2>4. CASE Truncate
    BY <2>2, <2>3, <2>4 DEF Truncate
  <2>5. CASE WritePart
    BY <2>2, <2>3, <2>5 DEF WritePart
  <2>6. CASE WriteBytes
    BY <2>2, <2>3, <2>6 DEF WriteBytes
  <2> QED
    BY <2>1, <2>4, <2>5, <2>6
<1>2. IInv /\ [Next]_vars => [file' # file => Good]_vars
  BY <1>1
<1> QED
  BY <1>2, InductiveInvariant, PTL DEF Spec, ResultsWritten
-----------------------------------------------------------------------------
(* What a second run keeps of the first one's result is what the first one *)
(* has kept.                                                               *)
LEMMA SequentialTwice ==
  ASSUME NEW c \in Configs, NEW r \in [Names -> Seq(Types)]
  PROVE  Sequential(Sequential(c, r), r) = Sequential(c, r)
<1> DEFINE I == Introspected(r)
           K == KeptFrom(c, r)
           f == [k \in I \cup K |-> IF k \in I THEN TypeOf(r[k]) ELSE c.metrics[k]]
           d == [c EXCEPT !.metrics = f]
           g == [k \in I \cup KeptFrom(d, r) |-> IF k \in I THEN TypeOf(r[k]) ELSE d.metrics[k]]
<1>1. CASE ~c.enabled
  BY <1>1 DEF Sequential
<1>2. CASE c.enabled
  <2>1. Sequential(c, r) = d
    BY <1>2 DEF Sequential
  <2>2. d.metrics = f /\ d.behavior = c.behavior /\ d.enabled
    BY <1>2 DEF Configs
  <2>3. Sequential(d, r) = [d EXCEPT !.metrics = g]
    BY <2>2 DEF Sequential
  <2>4. KeptFrom(d, r) = K
    <3>1. CASE c.behavior = "merge"
      <4>1. KeptFrom(d, r) =
              ({k \in I \cup K : f[k] \in AllowedTypes} \cap Passing) \ Claimed(r)
        BY <2>2, <3>1 DEF KeptFrom
      <4>2. I \subseteq Claimed(r)
        BY DEF Claimed
      <4>3. \A k \in K : k \in Passing /\ k \notin Claimed(r) /\ c.metrics[k] \in AllowedTypes
        BY <3>1 DEF KeptFrom
      <4>4. \A k \in K : f[k] \in AllowedTypes
        BY <4>2, <4>3
      <4> HIDE DEF f, I, K
      <4> QED
        BY <4>1, <4>2, <4>3, <4>4
    <3>2. CASE c.behavior # "merge"
      BY <2>2, <3>2 DEF KeptFrom
    <3> QED
      BY <3>1, <3>2
  <2>5. g = f
    BY <2>2, <2>4
  <2>6. [d EXCEPT !.metrics = f] = d
    <3> HIDE DEF f
    <3> QED
      BY DEF Configs
  <2> QED
    BY <2>1, <2>3, <2>5, <2>6
<1> QED
  BY <1>1, <1>2

(* A run on its own result changes nothing (updateMetricsMetadata).         *)
THEOREM UpdateIsIdempotent == Spec => []Idempotent
<1>1. IInv => Idempotent
  BY SequentialTwice DEF IInv, TypeOK, Idempotent, SequentialResult
<1> QED
  BY <1>1, InductiveInvariant, PTL
=============================================================================
