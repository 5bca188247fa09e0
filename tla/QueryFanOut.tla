----------------------------- MODULE QueryFanOut -----------------------------
(***************************************************************************)
(* One NDC query request inside the connector: Query, execQuerySync and    *)
(* execQueryAsync (connector/query.go) run one execQuery per variable set, *)
(* and every execQuery runs the sections of                                *)
(* QueryCollectionExecutor.Execute: the rows query, then the aggregates,   *)
(* then the groups.  A section with several upstream queries runs them in  *)
(* an errgroup of its own (connector/internal/aggregate.go), so errgroups  *)
(* nest: the goroutines of the outer group each own an inner group.        *)
(*                                                                         *)
(* golang.org/x/sync/errgroup is modelled from its use here: Go blocks     *)
(* until a slot is free, the first error is kept and cancels the group's   *)
(* context, later errors are dropped, Wait returns once every goroutine    *)
(* has returned.  A section with one upstream query is called inline by    *)
(* the code; it behaves as a group of one.                                 *)
(***************************************************************************)
EXTENDS Naturals, FiniteSets

CONSTANTS
  NVars,        (* number of elements of request.Variables               *)
  Limits,       (* the values runtime.ConcurrencyLimit may have          *)
  RowCalls,     (* upstream query for the rows: a singleton, or empty    *)
  AggCalls,     (* upstream queries, one per aggregate column            *)
  GroupCalls    (* upstream queries, one per aggregate of the groups     *)

Calls == RowCalls \cup AggCalls \cup GroupCalls

(* Explain makes no query for the rows when aggregates or groups are asked *)
(* for.                                                                    *)
ASSUME FanOutAssumption ==
  /\ NVars \in Nat
  /\ Limits \subseteq Nat
  /\ IsFiniteSet(Calls)
  /\ Cardinality(RowCalls) <= 1
  /\ RowCalls \cap AggCalls = {}
  /\ RowCalls \cap GroupCalls = {}
  /\ AggCalls \cap GroupCalls = {}
  /\ RowCalls = {} \/ AggCalls \cup GroupCalls = {}

(* Query replaces an absent or empty variable list by one empty set. *)
Jobs == 1 .. (IF NVars = 0 THEN 1 ELSE NVars)

(* What the arguments and the predicate of a variable set lead to:        *)
(*   invalid  execQuery returns an error before any upstream query,       *)
(*   empty    it returns zero rows without asking Prometheus              *)
(*            (limit <= 0, or a predicate that no series satisfies),      *)
(*   run      it asks Prometheus.                                         *)
Kinds == {"run", "empty", "invalid"}

NoError == "none"
Errors  == {"cause", "canceled"}

VARIABLES
  limit,      (* runtime.ConcurrencyLimit, fixed at startup               *)
  kind,       (* kind[i]: what variable set i leads to                    *)
  stage,      (* stage[i]: where execQuery of variable set i is           *)
  call,       (* call[i][c]: where upstream query c of variable set i is  *)
  got,        (* got[i]: the answers execQuery i has collected            *)
  innerErr,   (* innerErr[i]: the error kept by the group of i's section  *)
  outerErr,   (* the error kept by the group (or the loop) over variables *)
  rowSets,    (* rowSets[i]: the i-th row set of the response, Zero at first *)
  response,   (* "none", "ok" or "error"                                  *)
  clientGone  (* the context of the HTTP request is done                  *)

vars == <<limit, kind, stage, call, got, innerErr, outerErr, rowSets,
          response, clientGone>>

(* What make([]schema.RowSet, n) leaves where nothing was stored cannot be *)
(* told from a row set without rows.                                      *)
Zero == {}

Sections == {"rows", "aggs", "groups"}

SectionCalls == [rows |-> RowCalls, aggs |-> AggCalls, groups |-> GroupCalls]

Sync == Cardinality(Jobs) = 1 \/ limit <= 1

OuterSlots == IF Sync THEN 1 ELSE limit

InnerSlotsUnlimited(s) == Cardinality(SectionCalls[s])

(* A limit of 0 means as many as there are aggregates. *)
InnerSlots(s) == IF limit = 0 THEN Cardinality(SectionCalls[s]) ELSE limit

Active == {i \in Jobs : stage[i] \in Sections \cup {"started"}}
Open(i) == {c \in Calls : call[i][c] \in {"open", "sent"}}

CtxDoneDetached(i) == clientGone \/ innerErr[i] # NoError

(* The context handed to the upstream queries of variable set i. *)
CtxDone(i) ==
  \/ clientGone
  \/ ~Sync /\ outerErr # NoError
  \/ innerErr[i] # NoError

KeepLast(old, new) == new

Keep(old, new) == IF old = NoError THEN new ELSE old
-----------------------------------------------------------------------------
Init ==
  /\ limit \in Limits
  /\ kind \in [Jobs -> Kinds]
  /\ stage = [i \in Jobs |-> "waiting"]
  /\ call = [i \in Jobs |-> [c \in Calls |-> "idle"]]
  /\ got = [i \in Jobs |-> {}]
  /\ innerErr = [i \in Jobs |-> NoError]
  /\ outerErr = NoError
  /\ rowSets = [i \in Jobs |-> Zero]
  /\ response = "none"
  /\ clientGone = FALSE

LaunchAfterError(i) ==
  /\ response = "none"
  /\ stage[i] = "waiting"
  /\ \A j \in 1 .. (i - 1) : stage[j] # "waiting"
  /\ Cardinality(Active) < OuterSlots
  /\ stage' = [stage EXCEPT ![i] = "started"]
  /\ UNCHANGED <<limit, kind, call, got, innerErr, outerErr, rowSets,
                 response, clientGone>>

(* eg.Go in request order, blocking on the limit; it goes on launching    *)
(* after an error.  The sequential loop is the case of one slot, and      *)
(* stops at the first error.                                              *)
Launch(i) ==
  /\ response = "none"
  /\ stage[i] = "waiting"
  /\ \A j \in 1 .. (i - 1) : stage[j] # "waiting"
  /\ Cardinality(Active) < OuterSlots
  /\ Sync => outerErr = NoError
  /\ stage' = [stage EXCEPT ![i] = "started"]
  /\ UNCHANGED <<limit, kind, call, got, innerErr, outerErr, rowSets,
                 response, clientGone>>

ReturnAppended(i, answers) ==
  /\ stage' = [stage EXCEPT ![i] = "ok"]
  /\ rowSets' =
       [rowSets EXCEPT ![Cardinality({j \in Jobs : stage[j] = "ok"}) + 1] = answers]
  /\ UNCHANGED outerErr

(* execQuery i returns a row set, stored at the index of its variables. *)
Return(i, answers) ==
  /\ stage' = [stage EXCEPT ![i] = "ok"]
  /\ rowSets' = [rowSets EXCEPT ![i] = answers]
  /\ UNCHANGED outerErr

(* execQuery i returns an error. *)
Fail(i, err) ==
  /\ stage' = [stage EXCEPT ![i] = "failed"]
  /\ outerErr' = Keep(outerErr, err)
  /\ UNCHANGED rowSets

(* Arguments, predicate and the explained query are evaluated. *)
Begin(i) ==
  /\ stage[i] = "started"
  /\ \/ kind[i] = "invalid" /\ Fail(i, "cause")
     \/ kind[i] = "empty" /\ Return(i, {})
     \/ /\ kind[i] = "run"
        /\ stage' = [stage EXCEPT ![i] = "rows"]
        /\ UNCHANGED <<outerErr, rowSets>>
  /\ UNCHANGED <<limit, kind, call, got, innerErr, response, clientGone>>

(* eg.Go of the section's group; map iteration gives no order. *)
OpenCall(i, c) ==
  /\ stage[i] \in Sections
  /\ c \in SectionCalls[stage[i]]
  /\ call[i][c] = "idle"
  /\ Cardinality(Open(i)) < InnerSlots(stage[i])
  /\ call' = [call EXCEPT ![i][c] = "open"]
  /\ UNCHANGED <<limit, kind, stage, got, innerErr, outerErr, rowSets,
                 response, clientGone>>

(* The HTTP request leaves; net/http sends nothing on a done context. *)
Send(i, c) ==
  /\ call[i][c] = "open"
  /\ ~CtxDone(i)
  /\ call' = [call EXCEPT ![i][c] = "sent"]
  /\ UNCHANGED <<limit, kind, stage, got, innerErr, outerErr, rowSets,
                 response, clientGone>>

CallFails(i, c, err) ==
  /\ call' = [call EXCEPT ![i][c] = "err"]
  /\ innerErr' = [innerErr EXCEPT ![i] = Keep(@, err)]
  /\ UNCHANGED <<limit, kind, stage, got, outerErr, rowSets, response,
                 clientGone>>

(* Prometheus answers, and the answer is stored under the call's key. *)
Answer(i, c) ==
  /\ call[i][c] = "sent"
  /\ call' = [call EXCEPT ![i][c] = "ok"]
  /\ got' = [got EXCEPT ![i] = @ \cup {<<i, c>>}]
  /\ UNCHANGED <<limit, kind, stage, innerErr, outerErr, rowSets, response,
                 clientGone>>

(* Prometheus answers with an error, or the answer cannot be used. *)
CallError(i, c) ==
  /\ call[i][c] = "sent"
  /\ CallFails(i, c, "cause")

(* The call returns the context's error. *)
Interrupt(i, c) ==
  /\ call[i][c] \in {"open", "sent"}
  /\ CtxDone(i)
  /\ CallFails(i, c, "canceled")

NextStage == [rows |-> "aggs", aggs |-> "groups"]

(* eg.Wait of the section returns: go on, or give up on this variable set. *)
EndSection(i) ==
  /\ stage[i] \in Sections
  /\ \A c \in SectionCalls[stage[i]] : call[i][c] \in {"ok", "err"}
  /\ \/ innerErr[i] # NoError /\ Fail(i, innerErr[i])
     \/ /\ innerErr[i] = NoError
        /\ stage[i] = "groups"
        /\ Return(i, got[i])
     \/ /\ innerErr[i] = NoError
        /\ stage[i] # "groups"
        /\ stage' = [stage EXCEPT ![i] = NextStage[@]]
        /\ UNCHANGED <<outerErr, rowSets>>
  /\ UNCHANGED <<limit, kind, call, got, innerErr, response, clientGone>>

Returned(i) == stage[i] \in {"ok", "failed"}

MayRespondEarly == outerErr # NoError \/ \A i \in Jobs : Returned(i)

(* Wait of the outer group, or the end of the sequential loop. *)
MayRespond ==
  \/ \A i \in Jobs : Returned(i)
  \/ Sync /\ outerErr # NoError

RespondPartially ==
  /\ response = "none"
  /\ MayRespond
  /\ response' = IF \A i \in Jobs : stage[i] # "ok" THEN "error" ELSE "ok"
  /\ UNCHANGED <<limit, kind, stage, call, got, innerErr, outerErr, rowSets,
                 clientGone>>

Respond ==
  /\ response = "none"
  /\ MayRespond
  /\ response' = IF outerErr # NoError THEN "error" ELSE "ok"
  /\ UNCHANGED <<limit, kind, stage, call, got, innerErr, outerErr, rowSets,
                 clientGone>>

(* The client disconnects, and the server cancels the request's context. *)
ClientLeaves ==
  /\ response = "none"
  /\ ~clientGone
  /\ clientGone' = TRUE
  /\ UNCHANGED <<limit, kind, stage, call, got, innerErr, outerErr, rowSets,
                 response>>

Done == response # "none" /\ UNCHANGED vars

Next ==
  \/ \E i \in Jobs : Launch(i) \/ Begin(i) \/ EndSection(i)
  \/ \E i \in Jobs, c \in Calls :
       OpenCall(i, c) \/ Send(i, c) \/ Answer(i, c) \/ CallError(i, c)
         \/ Interrupt(i, c)
  \/ Respond
  \/ ClientLeaves
  \/ Done

(* What the connector itself does.  Prometheus owes it no answer: Answer   *)
(* and CallError are not fair, the client's default is no timeout.         *)
Program ==
  \/ \E i \in Jobs : Launch(i) \/ Begin(i) \/ EndSection(i)
  \/ \E i \in Jobs, c \in Calls :
       OpenCall(i, c) \/ Send(i, c) \/ Interrupt(i, c)
  \/ Respond

Spec == Init /\ [][Next]_vars
FairSpec == Spec /\ WF_vars(Program)
-----------------------------------------------------------------------------
TypeOK ==
  /\ limit \in Limits
  /\ kind \in [Jobs -> Kinds]
  /\ stage \in [Jobs -> Sections \cup {"waiting", "started", "ok", "failed"}]
  /\ call \in [Jobs -> [Calls -> {"idle", "open", "sent", "ok", "err"}]]
  /\ got \in [Jobs -> SUBSET (Jobs \X Calls)]
  /\ innerErr \in [Jobs -> Errors \cup {NoError}]
  /\ outerErr \in Errors \cup {NoError}
  /\ rowSets \in [Jobs -> SUBSET (Jobs \X Calls)]
  /\ response \in {"none", "ok", "error"}
  /\ clientGone \in BOOLEAN

(* The row set variable set i is owed. *)
Expected(i) == IF kind[i] = "empty" THEN {} ELSE {i} \X Calls

(* A successful response holds, at the index of each variable set, all and *)
(* only the answers to the queries of that variable set, whatever order    *)
(* the goroutines finished in (execQueryAsync, rowSets[index] = *result).  *)
ResponseComplete ==
  response = "ok" => \A i \in Jobs : rowSets[i] = Expected(i)

(* An error response reports what went wrong, never a "context canceled"   *)
(* that the connector's own cancellation of sibling queries produced       *)
(* (two levels of errgroup: the error of a cancelled variable set reaches  *)
(* the outer group after the error that cancelled it).                     *)
RootCause ==
  response = "error" /\ ~clientGone => outerErr = "cause"

(* Once the response is decided no goroutine of the request is left and no *)
(* upstream query is in flight (both groups are waited for).               *)
Quiescent ==
  response # "none" => \A i \in Jobs : stage[i] \notin Sections /\ Open(i) = {}

InFlight == {p \in Jobs \X Calls : call[p[1]][p[2]] = "sent"}

(* What one variable set may have open, in whichever section it is. *)
MostOpen == IF limit = 0 THEN Cardinality(Calls) ELSE limit

(* Nested groups multiply: at most ConcurrencyLimit variable sets, each    *)
(* with at most ConcurrencyLimit upstream queries of one section.          *)
NestedBound == Cardinality(InFlight) <= OuterSlots * MostOpen

(* After a variable set has failed, no further upstream query is sent for  *)
(* any other variable set.                                                 *)
NoSendAfterError ==
  [][outerErr # NoError => InFlight' \subseteq InFlight]_vars

(* A failure in any upstream query, or a client that left, ends the whole  *)
(* request even if Prometheus never answers the queries in flight: the     *)
(* cancelled contexts reach every sibling at both levels.                  *)
FailFast ==
  (clientGone \/ outerErr # NoError \/ \E i \in Jobs : innerErr[i] # NoError)
    ~> response # "none"
-----------------------------------------------------------------------------
(* The conjuncts of the inductive invariant. *)

(* Answers are collected under the variable set and the key they belong to. *)
AnswersKept == \A i \in Jobs : got[i] = {i} \X {c \in Calls : call[i][c] = "ok"}

(* A group without an error has no failed call, and a goroutine's call is  *)
(* one of the section that execQuery is in.                                *)
CallsPlaced ==
  \A i \in Jobs, c \in Calls :
    /\ innerErr[i] = NoError => call[i][c] # "err"
    /\ call[i][c] \in {"open", "sent"} =>
         stage[i] \in Sections /\ c \in SectionCalls[stage[i]]

(* The sections behind execQuery are answered. *)
SectionsDone ==
  \A i \in Jobs :
    /\ stage[i] \in {"aggs", "groups"} => \A c \in RowCalls : call[i][c] = "ok"
    /\ stage[i] = "groups" => \A c \in AggCalls : call[i][c] = "ok"
    /\ stage[i] \in Sections => kind[i] = "run"

JobsReturned ==
  \A i \in Jobs :
    /\ stage[i] = "ok" => rowSets[i] = Expected(i) /\ kind[i] # "invalid"
    /\ stage[i] # "ok" => rowSets[i] = Zero
    /\ stage[i] = "failed" => outerErr # NoError

(* Cancellations have a reason recorded before them. *)
CancelHasReason ==
  /\ outerErr = "canceled" => clientGone
  /\ \A i \in Jobs :
       innerErr[i] = "canceled" => clientGone \/ outerErr # NoError

(* The sequential loop runs one execQuery at a time, and none after an error. *)
OneAtATime ==
  Sync => /\ \A i, j \in Active : i = j
          /\ outerErr # NoError => Active = {}

ResponseDecided ==
  /\ response = "ok" => outerErr = NoError /\ \A i \in Jobs : Returned(i)
  /\ response = "error" => outerErr # NoError
  /\ response # "none" => Active = {}

(* The slots of both levels suffice for what is running. *)
SlotsKept ==
  /\ Cardinality(Active) <= OuterSlots
  /\ \A i \in Jobs : Cardinality(Open(i)) <= MostOpen

(* What every interleaving of the goroutines of both levels preserves of a *)
(* request (queries and groups in connector/query.go and                   *)
(* connector/internal/aggregate.go).                                       *)
RequestInv ==
  /\ TypeOK
  /\ AnswersKept
  /\ CallsPlaced
  /\ SectionsDone
  /\ JobsReturned
  /\ CancelHasReason
  /\ OneAtATime
  /\ ResponseDecided

(* The inductive invariant of the request: that, and the slots in use.     *)
IInv == RequestInv /\ SlotsKept
-----------------------------------------------------------------------------
Contract == INSTANCE QueryContract WITH
  served <- {i \in Jobs : stage[i] = "ok"},
  failure <- outerErr

(* Goroutines, limits, nesting and cancellation implement the engine's     *)
(* contract: all or nothing, positional, and no self-inflicted             *)
(* cancellation reported (Query, query.go).                                *)
ImplementsContract == Contract!Spec
=============================================================================
