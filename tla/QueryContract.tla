---------------------------- MODULE QueryContract ----------------------------
(***************************************************************************)
(* What the engine may rely on when it sends a query request with          *)
(* variables: variable sets are served one by one in some order, the       *)
(* response is all or nothing, and an error is reported only if something  *)
(* failed, as a cancellation only if the client itself went away.          *)
(* Nothing is said of goroutines, limits or upstream queries.              *)
(***************************************************************************)
CONSTANTS Jobs, Calls

VARIABLES kind, served, failure, rowSets, response, clientGone

cvars == <<kind, served, failure, rowSets, response, clientGone>>

Owed(i) == IF kind[i] = "empty" THEN {} ELSE {i} \X Calls

Init ==
  /\ kind \in [Jobs -> {"run", "empty", "invalid"}]
  /\ served = {}
  /\ failure = "none"
  /\ rowSets = [i \in Jobs |-> {}]
  /\ response = "none"
  /\ clientGone = FALSE

Serve(i) ==
  /\ response = "none"
  /\ i \notin served
  /\ kind[i] # "invalid"
  /\ served' = served \cup {i}
  /\ rowSets' = [rowSets EXCEPT ![i] = Owed(i)]
  /\ UNCHANGED <<kind, failure, response, clientGone>>

Break ==
  /\ response = "none"
  /\ failure = "none"
  /\ failure' \in {"cause"} \cup IF clientGone THEN {"canceled"} ELSE {}
  /\ UNCHANGED <<kind, served, rowSets, response, clientGone>>

Respond ==
  /\ response = "none"
  /\ \/ failure # "none" /\ response' = "error"
     \/ failure = "none" /\ served = Jobs /\ response' = "ok"
  /\ UNCHANGED <<kind, served, failure, rowSets, clientGone>>

ClientLeaves ==
  /\ response = "none"
  /\ ~clientGone
  /\ clientGone' = TRUE
  /\ UNCHANGED <<kind, served, failure, rowSets, response>>

Next ==
  \/ \E i \in Jobs : Serve(i)
  \/ Break
  \/ Respond
  \/ ClientLeaves

Spec == Init /\ [][Next]_cvars
=============================================================================
