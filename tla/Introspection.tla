---------------------------- MODULE Introspection ----------------------------
(***************************************************************************)
(* The `update` command (configuration/update.go) and what reads its       *)
(* result: it reads configuration.yaml, asks Prometheus for its metrics,   *)
(* fetches the labels of each metric in a bounded group of goroutines that *)
(* share Config.Metadata.Metrics and existedMetrics under a lock, merges   *)
(* the metrics of the old file, validates the native queries and writes    *)
(* the file back.  `Start` is the connector reading the file at startup    *)
(* (connector.go, BuildConnectorSchema in connector/metadata/schema.go).   *)
(*                                                                         *)
(* A configuration is reduced to what these steps read and write: the      *)
(* generator's behavior and switch, the type of each metric, and the names *)
(* of the native queries.  The include and exclude patterns are the set    *)
(* Passing of the names they let through.                                  *)
(***************************************************************************)
EXTENDS Integers, FiniteSets, Sequences

CONSTANTS
  Names,       (* metric names                                            *)
  Derived,     (* Derived[k]: the members of Names that are k_sum,         *)
               (* k_count or k_bucket                                      *)
  Ranges,      (* Ranges[k]: those that are k_rate, k_increase or k_irate  *)
  Quantiles,   (* Quantiles[k]: those that are k_quantile                  *)
  Passing,     (* names accepted by include and not hit by exclude         *)
  InfoLists,   (* InfoLists[k]: the lists of types Prometheus may report   *)
               (* for name k                                              *)
  Coroutines,  (* values that the -c argument is run with                   *)
  Files        (* what the configuration directory may hold at first       *)

Histograms   == {"histogram", "gaugehistogram"}
AllowedTypes == {"counter", "gauge"} \cup Histograms
Types        == AllowedTypes \cup {"summary"}

Metrics == UNION {[S -> Types] : S \in SUBSET Names}

Configs == [behavior : {"merge", "replace"}, enabled : BOOLEAN,
            metrics : Metrics, native : SUBSET Names, promptql : BOOLEAN]

(* A missing file, one that was truncated and never written, and one whose *)
(* write was cut off where it is no YAML, or before the URL.               *)
Absent == "absent"
Empty  == "empty"
Broken == "broken"

(* An empty file is valid YAML: it decodes to the zero Configuration. *)
ZeroConfig == [behavior |-> "replace", enabled |-> FALSE,
               metrics |-> << >>, native |-> {}, promptql |-> FALSE]

DefaultConfig == [ZeroConfig EXCEPT !.enabled = TRUE]

ASSUME IntrospectionAssumption ==
  /\ IsFiniteSet(Names)
  /\ Derived \in [Names -> SUBSET Names]
  /\ Ranges \in [Names -> SUBSET Names]
  /\ Quantiles \in [Names -> SUBSET Names]
  /\ Passing \subseteq Names
  /\ InfoLists \in [Names -> SUBSET Seq(Types)]
  /\ Coroutines \subseteq Int
  /\ Files \subseteq [tag : {Absent}] \cup [tag : {"config"}, conf : Configs]

VARIABLES
  prom,        (* prom[k]: the types Prometheus reports for name k now     *)
  file,        (* configuration.yaml: [tag |-> "config", conf |-> ...], or *)
               (* [tag |-> "absent"], "empty" or "broken"                  *)
  phase,       (* where the update command is                              *)
  coroutines,  (* the -c argument of the running command                   *)
  base,        (* the configuration the running command has read           *)
  conf,        (* uc.Config, which the command changes in memory           *)
  info,        (* metricsInfo, as fetched by this command                  *)
  existed,     (* the keys of uc.existedMetrics                            *)
  worker,      (* worker[k]: the goroutine of name k                       *)
  interrupted, (* SIGINT was received: the command's context is done       *)
  started,     (* outcome of the connector's last start, until a command   *)
               (* reads the file again                                     *)
  settings,    (* history: what the user set in the file, which nobody     *)
               (* edits during a behavior                                  *)
  torn         (* history: a write has ended inside the file               *)

memory == <<coroutines, base, conf, info, existed, worker, interrupted>>
vars   == <<prom, file, phase, memory, started, settings, torn>>

Phases == {"idle", "fetch", "introspect", "validate", "write", "truncated",
           "partial"}

LimitAsGiven == coroutines

(* coroutines: int(math.Max(1, float64(args.Coroutines))) *)
Limit == IF coroutines < 1 THEN 1 ELSE coroutines

Running == {k \in Names : worker[k] \in {"running", "labels"}}

(* What update has no business changing. *)
Settings(c) == <<c.behavior, c.enabled, c.native, c.promptql>>

(* introspectMetric takes the first info of an allowed type. *)
Position(infos) ==
  {i \in DOMAIN infos : infos[i] \in AllowedTypes /\
     \A j \in 1 .. (i - 1) : infos[j] \notin AllowedTypes}

TypeFrom(infos) == {infos[i] : i \in Position(infos)}

TypeOf(infos) == CHOOSE t \in TypeFrom(infos) : TRUE

(* The names of the operations BuildConnectorSchema makes of a metric. *)
Operations(k, type) == IF type \in Histograms THEN Derived[k] ELSE {k}

(* The names it gives to further collections of the metric for PromptQL. *)
Extras(c, k) ==
  IF ~c.promptql THEN {}
  ELSE IF c.metrics[k] = "counter" THEN Ranges[k]
  ELSE IF c.metrics[k] \in Histograms THEN Quantiles[k]
  ELSE {}

(* checkDuplicatedOperation finds a name taken, in whatever order the      *)
(* builder walks the metrics and, after them, the native queries.          *)
Clash(c) ==
  LET M == DOMAIN c.metrics IN
  \/ \E k, m \in M : k # m /\
       Operations(k, c.metrics[k]) \cap Operations(m, c.metrics[m]) # {}
  \/ \E k \in M : (Operations(k, c.metrics[k]) \cup Extras(c, k)) \cap c.native # {}

(* The further collections are put without a check: one of them and a      *)
(* metric of its name clash only if the metric comes second in the walk.   *)
WalkClash(c) ==
  LET M == DOMAIN c.metrics IN
  \E k, m \in M : k # m /\ Operations(k, c.metrics[k]) \cap Extras(c, m) # {}

IsReport(p) == \A k \in Names : p[k] \in InfoLists[k]

(* What the beginning of the YAML of c decodes to, when it has the URL and *)
(* is cut where it is YAML: connection_settings, generator, metrics, native *)
(* queries and runtime are written in this order, and what is missing is   *)
(* zero.                                                                   *)
Parts(c) ==
  {ZeroConfig, [ZeroConfig EXCEPT !.enabled = c.enabled]}
    \cup {[c EXCEPT !.metrics = [k \in S |-> c.metrics[k]],
                    !.native = {}, !.promptql = FALSE] : S \in SUBSET DOMAIN c.metrics}
    \cup {[c EXCEPT !.native = N, !.promptql = FALSE] : N \in SUBSET c.native}

NoMemory ==
  /\ coroutines' = 0
  /\ base' = ZeroConfig
  /\ conf' = ZeroConfig
  /\ info' = [k \in Names |-> << >>]
  /\ existed' = {}
  /\ worker' = [k \in Names |-> "none"]
  /\ interrupted' = FALSE
-----------------------------------------------------------------------------
Init ==
  /\ prom \in {p \in [Names -> UNION {InfoLists[k] : k \in Names}] : IsReport(p)}
  /\ file \in Files
  /\ phase = "idle"
  /\ coroutines = 0
  /\ base = ZeroConfig
  /\ conf = ZeroConfig
  /\ info = [k \in Names |-> << >>]
  /\ existed = {}
  /\ worker = [k \in Names |-> "none"]
  /\ interrupted = FALSE
  /\ started = "none"
  /\ settings = Settings(IF file.tag = Absent THEN DefaultConfig ELSE file.conf)
  /\ torn = FALSE

(* Targets come and go, and change what they export.  A change after the  *)
(* workers are done is the same as one before the next command.           *)
PromChanges ==
  /\ phase \in {"idle", "fetch", "introspect"}
  /\ \E k \in Names : \E infos \in InfoLists[k] :
       LET p == [prom EXCEPT ![k] = infos] IN
       IsReport(p) /\ p # prom /\ prom' = p
  /\ UNCHANGED <<file, phase, memory, started, settings, torn>>

ReadEmptyAsAbsent ==
  /\ phase = "idle"
  /\ file.tag # Broken
  /\ coroutines' \in Coroutines
  /\ base' = IF file.tag = "config" THEN file.conf ELSE DefaultConfig
  /\ conf' = base'
  /\ phase' = IF base'.enabled THEN "fetch" ELSE "validate"
  /\ started' = "none"
  /\ UNCHANGED <<prom, file, info, existed, worker, interrupted, settings, torn>>

(* ReadConfiguration and NewClient: the zero configuration that an empty   *)
(* file decodes to has no URL, and the command stops there, as on a file   *)
(* that is no YAML.  A part of a file that decodes is read as any other.   *)
Read ==
  /\ phase = "idle"
  /\ file.tag \notin {Empty, Broken}
  /\ coroutines' \in Coroutines
  /\ base' = IF file.tag = Absent THEN DefaultConfig ELSE file.conf
  /\ conf' = base'
  /\ phase' = IF base'.enabled THEN "fetch" ELSE "validate"
  /\ started' = "none"
  /\ UNCHANGED <<prom, file, info, existed, worker, interrupted, settings, torn>>

(* The command returns an error, or the process is killed: the file stays  *)
(* as it is and the memory is gone.  In phase truncated that is an empty   *)
(* file, in phase partial a part of one: a kill or a full disk inside the  *)
(* write, after O_TRUNC.                                                   *)
Stop ==
  /\ phase' = "idle"
  /\ torn' = (torn \/ phase = "partial")
  /\ NoMemory
  /\ UNCHANGED <<prom, file, started, settings>>

Crash == phase # "idle" /\ Stop

(* The first request, or an invalid exclude_labels pattern, fails. *)
FetchFails == phase = "fetch" /\ Stop

FetchKeepingMetrics ==
  /\ phase = "fetch"
  /\ ~interrupted
  /\ info' = prom
  /\ phase' = "introspect"
  /\ UNCHANGED <<prom, file, coroutines, base, conf, existed, worker,
                 interrupted, started, settings, torn>>

(* Client.Metadata returns; Metrics is emptied and the workers start. *)
Fetch ==
  /\ phase = "fetch"
  /\ ~interrupted
  /\ info' = prom
  /\ conf' = [conf EXCEPT !.metrics = << >>]
  /\ phase' = "introspect"
  /\ UNCHANGED <<prom, file, coroutines, base, existed, worker, interrupted,
                 started, settings, torn>>

LaunchAll(k) ==
  /\ phase = "introspect"
  /\ worker[k] = "none"
  /\ Cardinality(Running) < Limit
  /\ worker' = [worker EXCEPT ![k] = "running"]
  /\ UNCHANGED <<prom, file, phase, coroutines, base, conf, info, existed,
                 interrupted, started, settings, torn>>

(* eg.Go over the metrics that have infos; the limit blocks it. *)
Launch(k) ==
  /\ phase = "introspect"
  /\ info[k] # << >>
  /\ worker[k] = "none"
  /\ Cardinality(Running) < Limit
  /\ worker' = [worker EXCEPT ![k] = "running"]
  /\ UNCHANGED <<prom, file, phase, coroutines, base, conf, info, existed,
                 interrupted, started, settings, torn>>

MarksDerived(type) == type \in {"gauge", "gaugehistogram"}

(* The start of introspectMetric: the filters, the choice of the type, and *)
(* SetMetricExists of the three derived names.                             *)
Examine(k) ==
  /\ worker[k] = "running"
  /\ IF k \notin Passing \/ TypeFrom(info[k]) = {}
     THEN /\ worker' = [worker EXCEPT ![k] = "ok"]
          /\ UNCHANGED existed
     ELSE /\ worker' = [worker EXCEPT ![k] = "labels"]
          /\ existed' = existed \cup
               UNION {IF MarksDerived(t) THEN Derived[k] ELSE {} :
                        t \in TypeFrom(info[k])}
  /\ UNCHANGED <<prom, file, phase, coroutines, base, conf, info, interrupted,
                 started, settings, torn>>

(* getAllLabelsOfMetric answers, then SetMetadataMetric under the lock. *)
SetMetadataMetric(k) ==
  /\ worker[k] = "labels"
  /\ ~interrupted
  /\ worker' = [worker EXCEPT ![k] = "ok"]
  /\ existed' = existed \cup {k}
  /\ conf' = [conf EXCEPT !.metrics =
       [m \in DOMAIN @ \cup {k} |->
          IF m = k THEN TypeOf(info[k]) ELSE @[m]]]
  /\ UNCHANGED <<prom, file, phase, coroutines, base, info, interrupted,
                 started, settings, torn>>

(* The label request fails; the group has no context to cancel, and the    *)
(* other workers go on.                                                    *)
LabelsFail(k) ==
  /\ worker[k] = "labels"
  /\ worker' = [worker EXCEPT ![k] = "err"]
  /\ UNCHANGED <<prom, file, phase, coroutines, base, conf, info, existed,
                 interrupted, started, settings, torn>>

WorkersDone ==
  \A k \in Names : info[k] # << >> => worker[k] \in {"ok", "err"}

(* eg.Wait returns the error of a worker. *)
WaitFails ==
  /\ phase = "introspect"
  /\ WorkersDone
  /\ \E k \in Names : worker[k] = "err"
  /\ Stop

(* existingMetrics, which updateMetricsMetadata collects before the workers. *)
Existing ==
  IF base.behavior = "merge"
  THEN {k \in DOMAIN base.metrics : base.metrics[k] \in AllowedTypes} \cap Passing
  ELSE {}

MergeOverwriting ==
  /\ phase = "introspect"
  /\ WorkersDone
  /\ \A k \in Names : worker[k] # "err"
  /\ conf' = [conf EXCEPT !.metrics =
       [m \in DOMAIN @ \cup Existing |->
          IF m \in Existing THEN base.metrics[m] ELSE @[m]]]
  /\ phase' = "validate"
  /\ UNCHANGED <<prom, file, coroutines, base, info, existed, worker,
                 interrupted, started, settings, torn>>

MergeInSpiteOfErrors ==
  /\ phase = "introspect"
  /\ WorkersDone
  /\ LET kept == Existing \ existed IN
     conf' = [conf EXCEPT !.metrics =
       [m \in DOMAIN @ \cup kept |->
          IF m \in kept THEN base.metrics[m] ELSE @[m]]]
  /\ phase' = "validate"
  /\ UNCHANGED <<prom, file, coroutines, base, info, existed, worker,
                 interrupted, started, settings, torn>>

(* eg.Wait returns nil, and the existing metrics are merged. *)
MergeExisting ==
  /\ phase = "introspect"
  /\ WorkersDone
  /\ \A k \in Names : worker[k] # "err"
  /\ LET kept == Existing \ existed IN
     conf' = [conf EXCEPT !.metrics =
       [m \in DOMAIN @ \cup kept |->
          IF m \in kept THEN base.metrics[m] ELSE @[m]]]
  /\ phase' = "validate"
  /\ UNCHANGED <<prom, file, coroutines, base, info, existed, worker,
                 interrupted, started, settings, torn>>

(* validateNativeQueries: a name taken by a metric is an error. *)
Validate ==
  /\ phase = "validate"
  /\ conf.native \cap DOMAIN conf.metrics = {}
  /\ conf.native # {} => ~interrupted
  /\ phase' = "write"
  /\ UNCHANGED <<prom, file, memory, started, settings, torn>>

(* A taken name, an invalid query, or a request that fails. *)
ValidateFails ==
  /\ phase = "validate"
  /\ conf.native # {}
  /\ Stop

(* os.WriteFile opens the file with O_TRUNC, then writes the bytes. *)
Truncate ==
  /\ phase = "write"
  /\ file' = [tag |-> Empty]
  /\ phase' = "truncated"
  /\ UNCHANGED <<prom, memory, started, settings, torn>>

(* The write has put a beginning of the bytes into the file. *)
WritePart ==
  /\ phase = "truncated"
  /\ file' \in {[tag |-> Broken]} \cup [tag : {"config"}, conf : Parts(conf)]
  /\ phase' = "partial"
  /\ UNCHANGED <<prom, memory, started, settings, torn>>

(* The rest of the bytes, or all of them at once. *)
WriteBytes ==
  /\ phase \in {"truncated", "partial"}
  /\ file' = [tag |-> "config", conf |-> conf]
  /\ phase' = "idle"
  /\ NoMemory
  /\ UNCHANGED <<prom, started, settings, torn>>

(* SIGINT: signal.NotifyContext cancels the context of the requests. *)
Interrupt ==
  /\ phase # "idle"
  /\ ~interrupted
  /\ interrupted' = TRUE
  /\ UNCHANGED <<prom, file, phase, coroutines, base, conf, info, existed,
                 worker, started, settings, torn>>

(* The connector starts: ReadConfiguration, BuildConnectorSchema, NewClient. *)
(* It may do so while a command runs, which matters only inside a write.   *)
Start ==
  /\ phase \in {"idle", "truncated", "partial"}
  /\ started' \in
       IF file.tag = Absent THEN {"no file"}
       ELSE IF file.tag \in {Empty, Broken} THEN {"unreadable"}
       ELSE IF Clash(file.conf) THEN {"duplicate"}
       ELSE IF WalkClash(file.conf) THEN {"ok", "duplicate"}
       ELSE {"ok"}
  /\ UNCHANGED <<prom, file, phase, memory, settings, torn>>

Worker(k) == Launch(k) \/ Examine(k) \/ SetMetadataMetric(k) \/ LabelsFail(k)

Command ==
  \/ Read \/ FetchFails \/ Fetch \/ WaitFails \/ MergeExisting
  \/ Validate \/ ValidateFails \/ Truncate \/ WritePart \/ WriteBytes
  \/ \E k \in Names : Worker(k)

Next == Command \/ PromChanges \/ Crash \/ Interrupt \/ Start

Spec == Init /\ [][Next]_vars

(* What an interrupted command does by itself, with no answer from outside: *)
(* requests on a done context return an error.                             *)
Unwind ==
  interrupted /\
    ( \/ FetchFails \/ WaitFails \/ MergeExisting \/ Validate \/ ValidateFails
      \/ Truncate \/ WritePart \/ WriteBytes
      \/ \E k \in Names : Launch(k) \/ Examine(k) \/ LabelsFail(k) )

FairSpec == Spec /\ WF_vars(Unwind)
-----------------------------------------------------------------------------
TypeOK ==
  /\ prom \in [Names -> Seq(Types)]
  /\ file \in [tag : {Absent, Empty, Broken}] \cup [tag : {"config"}, conf : Configs]
  /\ phase \in Phases
  /\ coroutines \in Coroutines \cup {0}
  /\ base \in Configs
  /\ conf \in Configs
  /\ info \in [Names -> Seq(Types)]
  /\ existed \subseteq Names
  /\ worker \in [Names -> {"none", "running", "labels", "ok", "err"}]
  /\ \A k \in Names : worker[k] # "none" => info[k] # << >>
  /\ interrupted \in BOOLEAN
  /\ settings \in {"merge", "replace"} \X BOOLEAN \X (SUBSET Names) \X BOOLEAN
  /\ torn \in BOOLEAN
  /\ started \in {"none", "ok", "duplicate", "no file", "unreadable"}

(* What one goroutine after the other, in any fixed order, makes of the    *)
(* configuration c and the report r of Prometheus.                         *)
Introspected(r) == {k \in Passing : TypeFrom(r[k]) # {}}

DerivedOf(S, r) ==
  UNION {Derived[k] : k \in {m \in S : \E t \in TypeFrom(r[m]) : MarksDerived(t)}}

Claimed(r) == Introspected(r) \cup DerivedOf(Introspected(r), r)

KeptFrom(c, r) ==
  IF c.behavior = "merge"
  THEN ({k \in DOMAIN c.metrics : c.metrics[k] \in AllowedTypes} \cap Passing)
         \ Claimed(r)
  ELSE {}

Sequential(c, r) ==
  IF ~c.enabled THEN c
  ELSE [c EXCEPT !.metrics =
          [k \in Introspected(r) \cup KeptFrom(c, r) |->
             IF k \in Introspected(r)
             THEN TypeOf(r[k])
             ELSE c.metrics[k]]]

(* Whatever the interleaving of the workers, once they are waited for the  *)
(* configuration in memory is the one a sequential run would produce from  *)
(* the file that was read and the report that was fetched.                 *)
SequentialResult ==
  phase \in {"validate", "write", "truncated", "partial"} => conf = Sequential(base, info)

(* Nothing but a write of writeConfigFile changes the file, and what is   *)
(* written, all of it or as much as the disk takes, is the result of a     *)
(* sequential run: a command of which any goroutine has failed, in         *)
(* whatever order the others end, does not even empty the file.            *)
ResultsWritten ==
  [][file' # file =>
       /\ phase \in {"write", "truncated", "partial"}
       /\ \A k \in Names : worker[k] # "err"
       /\ file' \in {[tag |-> Empty], [tag |-> Broken]} \cup
                   [tag : {"config"},
                    conf : Parts(Sequential(base, info)) \cup {Sequential(base, info)}]]_vars

(* Unless a write has ended inside the file, then through any number of    *)
(* runs, failures, kills and emptied files, a file that holds a            *)
(* configuration holds the user's own settings and native queries: a file  *)
(* emptied by an interrupted write is not taken for a missing one and      *)
(* regenerated.  (A part of a file that decodes is another matter: the     *)
(* next run reads it and writes it back without what it has lost.)         *)
SettingsKept ==
  file.tag = "config" /\ ~torn /\ phase # "partial" => Settings(file.conf) = settings

(* Running the command again on its own result, with the same report,      *)
(* changes nothing, in merge and in replace mode.                          *)
Idempotent == phase = "write" => Sequential(conf, info) = conf

(* A file the connector starts on is still one after `update` succeeded:   *)
(* the command checks names ("That name may exist in the metrics           *)
(* collection"), and schema.go refuses a "duplicated operation name".      *)
StartsAfterUpdate == phase = "idle" /\ ~torn => started # "duplicate"

(* The metrics whose goroutine has put them into memory, and those whose   *)
(* goroutine has marked the derived names.                                 *)
Added    == {k \in Introspected(info) : worker[k] = "ok"}
Examined == {k \in Introspected(info) : worker[k] \in {"labels", "ok", "err"}}

(* A command starts with nothing of an earlier one in memory. *)
StartsFresh ==
  phase \in {"idle", "fetch"} =>
    /\ info = [k \in Names |-> << >>]
    /\ existed = {}
    /\ worker = [k \in Names |-> "none"]

(* What the workers have done so far is what they do in any order. *)
WorkersSoFar ==
  phase = "introspect" =>
    /\ conf = [base EXCEPT !.metrics = [k \in Added |-> TypeOf(info[k])]]
    /\ existed = Added \cup DerivedOf(Examined, info)
    /\ \A k \in Names : worker[k] \in {"labels", "err"} => k \in Introspected(info)

WorkersWell ==
  phase \in {"validate", "write", "truncated", "partial"} =>
    \A k \in Names : worker[k] \in {"none", "ok"}

(* A running command has the settings of the file it has read, the user's  *)
(* unless it was torn, and a torn file is not a missing one.               *)
SettingsRead ==
  /\ phase \in {"fetch", "introspect"} => base.enabled
  /\ phase = "fetch" => conf = base
  /\ phase # "idle" /\ ~torn => Settings(base) = settings
  /\ file.tag = Absent => settings = Settings(DefaultConfig)

(* The inductive invariant of the update command: its workers' shared maps *)
(* are what the report and the goroutines' progress make of them, and what *)
(* a later step writes or reads is complete (updateMetricsMetadata,        *)
(* introspectMetric, writeConfigFile).                                     *)
IInv ==
  /\ TypeOK
  /\ StartsFresh /\ WorkersSoFar /\ SequentialResult /\ WorkersWell
  /\ SettingsRead /\ SettingsKept

(* After SIGINT the command ends, whatever Prometheus does: every request  *)
(* has the signal's context.                                               *)
InterruptEnds == interrupted ~> phase = "idle"
=============================================================================
