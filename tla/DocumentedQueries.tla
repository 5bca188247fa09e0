------------------------- MODULE DocumentedQueries -------------------------
(***************************************************************************)
(* What the README says of the queries of a collection, put to the queries *)
(* that the connector makes of four requests served side by side, as they  *)
(* come from the engine: for the rows of a metric's collection that        *)
(* compare no time, for rows at an exact time within a range, for groups,  *)
(* and for the collection of a native query.  execQuery (query.go)         *)
(* dispatches the first three to CollectionQuery and the last to           *)
(* NativeQuery; they share nothing.                                        *)
(***************************************************************************)
EXTENDS NativeQuery

CONSTANTS
  RowsRequests,   (* requests of CollectionQuery, by what they ask for     *)
  ExactRequests,
  GroupRequests

VARIABLES
  rRequest, rStage, rOutcome, rPos, rTime, rValue,
  rRange, rFunctions, rOffsetUsed, rQuery, rCalls,
  eRequest, eStage, eOutcome, ePos, eTime, eValue,
  eRange, eFunctions, eOffsetUsed, eQuery, eCalls,
  gRequest, gStage, gOutcome, gPos, gTime, gValue,
  gRange, gFunctions, gOffsetUsed, gQuery, gCalls

rowsVars  == <<rRequest, rStage, rOutcome, rPos, rTime,
               rValue, rRange, rFunctions, rOffsetUsed, rQuery, rCalls>>
exactVars == <<eRequest, eStage, eOutcome, ePos, eTime,
               eValue, eRange, eFunctions, eOffsetUsed, eQuery, eCalls>>
groupVars == <<gRequest, gStage, gOutcome, gPos, gTime,
               gValue, gRange, gFunctions, gOffsetUsed, gQuery, gCalls>>

R == INSTANCE CollectionQuery WITH
       Requests <- RowsRequests, request <- rRequest, stage <- rStage,
       outcome <- rOutcome, pos <- rPos, time <- rTime, value <- rValue,
       range <- rRange, functions <- rFunctions, offsetUsed <- rOffsetUsed,
       query <- rQuery, calls <- rCalls

E == INSTANCE CollectionQuery WITH
       Requests <- ExactRequests, request <- eRequest, stage <- eStage,
       outcome <- eOutcome, pos <- ePos, time <- eTime, value <- eValue,
       range <- eRange, functions <- eFunctions, offsetUsed <- eOffsetUsed,
       query <- eQuery, calls <- eCalls

G == INSTANCE CollectionQuery WITH
       Requests <- GroupRequests, request <- gRequest, stage <- gStage,
       outcome <- gOutcome, pos <- gPos, time <- gTime, value <- gValue,
       range <- gRange, functions <- gFunctions, offsetUsed <- gOffsetUsed,
       query <- gQuery, calls <- gCalls
-----------------------------------------------------------------------------
QueriesInit == Init /\ R!Init /\ E!Init /\ G!Init

QueriesNext ==
  \/ Next   /\ UNCHANGED <<rowsVars, exactVars, groupVars>>
  \/ R!Next /\ UNCHANGED <<vars, exactVars, groupVars>>
  \/ E!Next /\ UNCHANGED <<vars, rowsVars, groupVars>>
  \/ G!Next /\ UNCHANGED <<vars, rowsVars, exactVars>>

QueriesSpec == QueriesInit /\ [][QueriesNext]_<<vars, rowsVars, exactVars, groupVars>>
-----------------------------------------------------------------------------
(* README, "timestamp column" and "Common arguments": a query is read over *)
(* a range if it compares no time, rows, groups and native queries alike;  *)
(* `_eq` is an instant query at the exact time; `value` is the result of   *)
(* the query; and the offset is applied to it.  Stated of all four once    *)
(* they have ended (query, queryRangeMatrix, ExplainHistogramQuantile,     *)
(* buildQueryStringByFunction, and queryRange of native queries).          *)
AsDocumented ==
  stage = "done" /\ rStage = "done" /\ eStage = "done" /\ gStage = "done" =>
    /\ R!RowsByDefault /\ R!ValueOfResult
    /\ E!ExactTimestamp
    /\ G!GroupsByDefault /\ G!OffsetApplied
    /\ RangeByDefault
=============================================================================
