-------------------------- MODULE QueryFanOutProofs --------------------------
(***************************************************************************)
(* Proofs about QueryFanOut for every number of variable sets, every       *)
(* concurrency limit and every set of upstream queries.                    *)
(***************************************************************************)
EXTENDS QueryFanOut, FiniteSetTheorems, TLAPS

LEMMA JobsFinite == IsFiniteSet(Jobs) /\ Jobs \subseteq Nat /\ Jobs # {}
<1> DEFINE n == IF NVars = 0 THEN 1 ELSE NVars
<1>1. n \in Nat /\ n >= 1
  BY FanOutAssumption
<1>2. Jobs = 1 .. n
  BY DEF Jobs
<1>3. IsFiniteSet(1 .. n)
  BY <1>1, FS_Interval
<1> QED
  BY <1>1, <1>2, <1>3

(* A slot of one leaves room only if nothing is active. *)
LEMMA OneSlotFree ==
  ASSUME Cardinality(Active) < OuterSlots, Sync
  PROVE  Active = {}
<1>1. IsFiniteSet(Active)
  BY JobsFinite, FS_Subset DEF Active
<1>2. Cardinality(Active) \in Nat
  BY <1>1, FS_CardinalityType
<1>3. Cardinality(Active) = 0
  BY <1>2 DEF OuterSlots
<1> QED
  BY <1>1, <1>3, FS_EmptySet

LEMMA InitInv == Init => RequestInv
<1> SUFFICES ASSUME Init PROVE RequestInv
  OBVIOUS
<1>1. TypeOK
  BY DEF Init, TypeOK, NoError, Zero
<1>2. AnswersKept /\ CallsPlaced /\ SectionsDone /\ JobsReturned
  BY DEF Init, AnswersKept, CallsPlaced, SectionsDone, JobsReturned, Sections
<1>3. CancelHasReason /\ OneAtATime /\ ResponseDecided
  BY DEF Init, CancelHasReason, OneAtATime, ResponseDecided, Active,
         Sections, NoError
<1> QED
  BY <1>1, <1>2, <1>3 DEF RequestInv

LEMMA LaunchInv ==
  ASSUME RequestInv, NEW i \in Jobs, Launch(i)
  PROVE  RequestInv'
<1>1. TypeOK'
  BY DEF RequestInv, TypeOK, Launch, Sections, Errors, NoError, Zero, Expected
<1>2. AnswersKept'
  BY DEF RequestInv, TypeOK, AnswersKept, Launch
<1>3. CallsPlaced'
  BY DEF RequestInv, TypeOK, CallsPlaced, Launch, Sections, Errors, NoError
<1>4. SectionsDone'
  BY DEF RequestInv, TypeOK, SectionsDone, Launch, Sections, Calls
<1>5. JobsReturned'
  BY DEF RequestInv, TypeOK, JobsReturned, Launch, Sections, Errors, NoError, Expected, Zero
<1>6. CancelHasReason'
  BY DEF RequestInv, TypeOK, CancelHasReason, Launch, Errors, NoError
<1>7. OneAtATime'
  <2>1. Sync' <=> Sync
    BY DEF Launch, Sync
  <2>2. ASSUME Sync PROVE Active' = {i} /\ outerErr' = NoError
    <3>1. Active = {} /\ outerErr = NoError
      BY <2>2, OneSlotFree DEF Launch
    <3> QED
      BY <3>1 DEF Launch, Active, RequestInv, TypeOK
  <2> QED
    BY <2>1, <2>2 DEF OneAtATime
<1>8. ResponseDecided'
  BY DEF RequestInv, TypeOK, ResponseDecided, Launch, Active, Returned, Sections, Errors, NoError
<1> QED
  BY <1>1, <1>2, <1>3, <1>4, <1>5, <1>6, <1>7, <1>8 DEF RequestInv

LEMMA BeginInv ==
  ASSUME RequestInv, NEW i \in Jobs, Begin(i)
  PROVE  RequestInv'
<1>1. TypeOK'
  BY DEF RequestInv, TypeOK, Begin, Fail, Return, Keep, Kinds, Sections, Errors, NoError, Zero, Expected
<1>2. AnswersKept'
  BY DEF RequestInv, TypeOK, AnswersKept, Begin, Fail, Return, Keep, Kinds
<1>3. CallsPlaced'
  BY DEF RequestInv, TypeOK, CallsPlaced, Begin, Fail, Return, Keep, Kinds, Sections, Errors, NoError
<1>4. SectionsDone'
  BY DEF RequestInv, TypeOK, SectionsDone, Begin, Fail, Return, Keep, Kinds, Sections, Calls
<1>5. JobsReturned'
  <2>1. CASE Fail(i, "cause")
    BY <2>1 DEF RequestInv, TypeOK, JobsReturned, Begin, Fail, Keep, NoError, Expected
  <2>2. CASE kind[i] = "empty" /\ Return(i, {})
    BY <2>2 DEF RequestInv, TypeOK, JobsReturned, Begin, Return, Expected
  <2>3. CASE stage' = [stage EXCEPT ![i] = "rows"] /\ UNCHANGED <<outerErr, rowSets>>
    BY <2>3 DEF RequestInv, TypeOK, JobsReturned, Begin, Expected
  <2> QED
    BY <2>1, <2>2, <2>3 DEF Begin
<1>6. CancelHasReason'
  BY DEF RequestInv, TypeOK, CancelHasReason, Begin, Fail, Return, Keep, Kinds, Errors, NoError
<1>7. OneAtATime'
  <2>1. Sync' <=> Sync
    BY DEF Begin, Sync
  <2>2. Active' \subseteq Active
    BY DEF RequestInv, TypeOK, Begin, Fail, Return, Keep, Active, Sections
  <2>3. outerErr' # outerErr => Active' = Active \ {i}
    BY DEF RequestInv, TypeOK, Begin, Fail, Return, Keep, Active, Sections
  <2>4. i \in Active
    BY DEF Begin, Active, Sections
  <2> QED
    BY <2>1, <2>2, <2>3, <2>4 DEF RequestInv, OneAtATime
<1>8. ResponseDecided'
  BY DEF RequestInv, TypeOK, ResponseDecided, Begin, Fail, Return, Keep, Kinds, Active, Returned, Sections, Errors, NoError
<1> QED
  BY <1>1, <1>2, <1>3, <1>4, <1>5, <1>6, <1>7, <1>8 DEF RequestInv

LEMMA EndSectionInv ==
  ASSUME RequestInv, NEW i \in Jobs, EndSection(i)
  PROVE  RequestInv'
<1>0. stage[i] # "groups" =>
        stage[i] \in {"rows", "aggs"} /\ NextStage[stage[i]] \in {"aggs", "groups"}
  BY DEF EndSection, Sections, NextStage
<1>a. got[i] \in SUBSET (Jobs \X Calls)
  BY DEF RequestInv, TypeOK
<1>1. TypeOK'
  <2>1. CASE Fail(i, innerErr[i])
    BY <2>1 DEF RequestInv, TypeOK, EndSection, Fail, Keep
  <2>2. CASE Return(i, got[i])
    BY <2>2, <1>a DEF RequestInv, TypeOK, EndSection, Return
  <2>3. CASE /\ stage[i] # "groups"
             /\ stage' = [stage EXCEPT ![i] = NextStage[@]]
             /\ UNCHANGED <<outerErr, rowSets>>
    BY <2>3, <1>0 DEF RequestInv, TypeOK, EndSection, Sections
  <2> QED
    BY <2>1, <2>2, <2>3 DEF EndSection
<1>2. AnswersKept'
  BY DEF RequestInv, TypeOK, AnswersKept, EndSection, Fail, Return, Keep, NextStage, SectionCalls
<1>3. CallsPlaced'
  BY DEF RequestInv, TypeOK, CallsPlaced, EndSection, Fail, Return, Keep, NextStage, SectionCalls, Sections, Errors, NoError
<1>4. SectionsDone'
  <2>1. CASE Fail(i, innerErr[i])
    BY <2>1 DEF RequestInv, TypeOK, SectionsDone, EndSection, Fail, Sections
  <2>2. CASE Return(i, got[i])
    BY <2>2 DEF RequestInv, TypeOK, SectionsDone, EndSection, Return, Sections
  <2>3. CASE /\ innerErr[i] = NoError
             /\ stage[i] # "groups"
             /\ stage' = [stage EXCEPT ![i] = NextStage[@]]
    <3>1. \A c \in SectionCalls[stage[i]] : c \in Calls => call[i][c] = "ok"
      BY <2>3 DEF RequestInv, CallsPlaced, EndSection
    <3>2. stage[i] = "rows" => \A c \in RowCalls : call[i][c] = "ok"
      BY <3>1 DEF SectionCalls, Calls
    <3>3. stage[i] = "aggs" => \A c \in AggCalls : call[i][c] = "ok"
      BY <3>1 DEF SectionCalls, Calls
    <3> QED
      BY <2>3, <3>2, <3>3 DEF RequestInv, TypeOK, SectionsDone, EndSection, NextStage, Sections
  <2> QED
    BY <2>1, <2>2, <2>3 DEF EndSection
<1>5. JobsReturned'
  <2>1. CASE innerErr[i] # NoError /\ Fail(i, innerErr[i])
    BY <2>1 DEF RequestInv, TypeOK, JobsReturned, EndSection, Fail, Keep, Sections, Expected
  <2>2. CASE innerErr[i] = NoError /\ stage[i] = "groups" /\ Return(i, got[i])
    <3>1. \A c \in Calls : call[i][c] = "ok"
      BY <2>2 DEF RequestInv, CallsPlaced, SectionsDone, EndSection, SectionCalls, Calls
    <3>2. got[i] = {i} \X Calls
      BY <3>1 DEF RequestInv, AnswersKept
    <3>3. kind[i] = "run"
      BY <2>2 DEF RequestInv, SectionsDone, Sections
    <3> QED
      BY <2>2, <3>2, <3>3 DEF RequestInv, TypeOK, JobsReturned, EndSection, Return, Expected
  <2>3. CASE /\ stage[i] # "groups"
             /\ stage' = [stage EXCEPT ![i] = NextStage[@]]
             /\ UNCHANGED <<outerErr, rowSets>>
    BY <2>3, <1>0 DEF RequestInv, TypeOK, JobsReturned, EndSection, Sections, Expected
  <2> QED
    BY <2>1, <2>2, <2>3 DEF EndSection
<1>6. CancelHasReason'
  BY DEF RequestInv, TypeOK, CancelHasReason, EndSection, Fail, Return, Keep, NextStage, SectionCalls, Errors, NoError
<1>7. OneAtATime'
  <2>1. Sync' <=> Sync
    BY DEF EndSection, Sync
  <2>2. Active' \subseteq Active
    BY DEF RequestInv, TypeOK, EndSection, Fail, Return, Keep, NextStage, Active, Sections
  <2>3. outerErr' # outerErr => Active' = Active \ {i}
    BY DEF RequestInv, TypeOK, EndSection, Fail, Return, Keep, NextStage, Active, Sections
  <2>4. i \in Active
    BY DEF EndSection, Active, Sections
  <2> QED
    BY <2>1, <2>2, <2>3, <2>4 DEF RequestInv, OneAtATime
<1>8. ResponseDecided'
  BY DEF RequestInv, TypeOK, ResponseDecided, EndSection, Fail, Return, Keep, NextStage, SectionCalls, Active, Returned, Sections, Errors, NoError
<1> QED
  BY <1>1, <1>2, <1>3, <1>4, <1>5, <1>6, <1>7, <1>8 DEF RequestInv

LEMMA OpenCallInv ==
  ASSUME RequestInv, NEW i \in Jobs, NEW c \in Calls, OpenCall(i, c)
  PROVE  RequestInv'
<1>1. TypeOK'
  BY DEF RequestInv, TypeOK, OpenCall, Sections, Errors, NoError, Zero, Expected
<1>2. AnswersKept'
  BY DEF RequestInv, TypeOK, AnswersKept, OpenCall
<1>3. CallsPlaced'
  BY DEF RequestInv, TypeOK, CallsPlaced, OpenCall, Sections, Errors, NoError
<1>4. SectionsDone'
  BY DEF RequestInv, TypeOK, SectionsDone, OpenCall, Sections, Calls
<1>5. JobsReturned'
  BY DEF RequestInv, TypeOK, JobsReturned, OpenCall, Sections, Errors, NoError, Expected, Zero
<1>6. CancelHasReason'
  BY DEF RequestInv, TypeOK, CancelHasReason, OpenCall, Errors, NoError
<1>7. OneAtATime'
  BY DEF RequestInv, TypeOK, OneAtATime, OpenCall, Active, Sections, Sync, Errors, NoError
<1>8. ResponseDecided'
  BY DEF RequestInv, TypeOK, ResponseDecided, OpenCall, Active, Returned, Sections, Errors, NoError
<1> QED
  BY <1>1, <1>2, <1>3, <1>4, <1>5, <1>6, <1>7, <1>8 DEF RequestInv

LEMMA SendInv ==
  ASSUME RequestInv, NEW i \in Jobs, NEW c \in Calls, Send(i, c)
  PROVE  RequestInv'
<1>1. TypeOK'
  BY DEF RequestInv, TypeOK, Send, Sections, Errors, NoError, Zero, Expected
<1>2. AnswersKept'
  BY DEF RequestInv, TypeOK, AnswersKept, Send
<1>3. CallsPlaced'
  BY DEF RequestInv, TypeOK, CallsPlaced, Send, Sections, Errors, NoError
<1>4. SectionsDone'
  BY DEF RequestInv, TypeOK, SectionsDone, Send, Sections, Calls
<1>5. JobsReturned'
  BY DEF RequestInv, TypeOK, JobsReturned, Send, Sections, Errors, NoError, Expected, Zero
<1>6. CancelHasReason'
  BY DEF RequestInv, TypeOK, CancelHasReason, Send, Errors, NoError
<1>7. OneAtATime'
  BY DEF RequestInv, TypeOK, OneAtATime, Send, Active, Sections, Sync, Errors, NoError
<1>8. ResponseDecided'
  BY DEF RequestInv, TypeOK, ResponseDecided, Send, Active, Returned, Sections, Errors, NoError
<1> QED
  BY <1>1, <1>2, <1>3, <1>4, <1>5, <1>6, <1>7, <1>8 DEF RequestInv

LEMMA AnswerInv ==
  ASSUME RequestInv, NEW i \in Jobs, NEW c \in Calls, Answer(i, c)
  PROVE  RequestInv'
<1>1. TypeOK'
  BY DEF RequestInv, TypeOK, Answer, Sections, Errors, NoError, Zero, Expected
<1>2. AnswersKept'
  BY DEF RequestInv, TypeOK, AnswersKept, Answer
<1>3. CallsPlaced'
  BY DEF RequestInv, TypeOK, CallsPlaced, Answer, Sections, Errors, NoError
<1>4. SectionsDone'
  BY DEF RequestInv, TypeOK, SectionsDone, Answer, Sections, Calls
<1>5. JobsReturned'
  BY DEF RequestInv, TypeOK, JobsReturned, Answer, Sections, Errors, NoError, Expected, Zero
<1>6. CancelHasReason'
  BY DEF RequestInv, TypeOK, CancelHasReason, Answer, Errors, NoError
<1>7. OneAtATime'
  BY DEF RequestInv, TypeOK, OneAtATime, Answer, Active, Sections, Sync, Errors, NoError
<1>8. ResponseDecided'
  BY DEF RequestInv, TypeOK, ResponseDecided, Answer, Active, Returned, Sections, Errors, NoError
<1> QED
  BY <1>1, <1>2, <1>3, <1>4, <1>5, <1>6, <1>7, <1>8 DEF RequestInv

LEMMA CallErrorInv ==
  ASSUME RequestInv, NEW i \in Jobs, NEW c \in Calls, CallError(i, c)
  PROVE  RequestInv'
<1>1. TypeOK'
  BY DEF RequestInv, TypeOK, CallError, CallFails, Keep, Sections, Errors, NoError, Zero, Expected
<1>2. AnswersKept'
  BY DEF RequestInv, TypeOK, AnswersKept, CallError, CallFails, Keep
<1>3. CallsPlaced'
  BY DEF RequestInv, TypeOK, CallsPlaced, CallError, CallFails, Keep, Sections, Errors, NoError
<1>4. SectionsDone'
  BY DEF RequestInv, TypeOK, SectionsDone, CallError, CallFails, Keep, Sections, Calls
<1>5. JobsReturned'
  BY DEF RequestInv, TypeOK, JobsReturned, CallError, CallFails, Keep, Sections, Errors, NoError, Expected, Zero
<1>6. CancelHasReason'
  BY DEF RequestInv, TypeOK, CancelHasReason, CallError, CallFails, Keep, Errors, NoError
<1>7. OneAtATime'
  BY DEF RequestInv, TypeOK, OneAtATime, CallError, CallFails, Keep, Active, Sections, Sync, Errors, NoError
<1>8. ResponseDecided'
  BY DEF RequestInv, TypeOK, ResponseDecided, CallError, CallFails, Keep, Active, Returned, Sections, Errors, NoError
<1> QED
  BY <1>1, <1>2, <1>3, <1>4, <1>5, <1>6, <1>7, <1>8 DEF RequestInv

LEMMA InterruptInv ==
  ASSUME RequestInv, NEW i \in Jobs, NEW c \in Calls, Interrupt(i, c)
  PROVE  RequestInv'
<1>1. TypeOK'
  BY DEF RequestInv, TypeOK, Interrupt, CallFails, Keep, CtxDone, Sections, Errors, NoError, Zero, Expected
<1>2. AnswersKept'
  BY DEF RequestInv, TypeOK, AnswersKept, Interrupt, CallFails, Keep, CtxDone
<1>3. CallsPlaced'
  BY DEF RequestInv, TypeOK, CallsPlaced, Interrupt, CallFails, Keep, CtxDone, Sections, Errors, NoError
<1>4. SectionsDone'
  BY DEF RequestInv, TypeOK, SectionsDone, Interrupt, CallFails, Keep, CtxDone, Sections, Calls
<1>5. JobsReturned'
  BY DEF RequestInv, TypeOK, JobsReturned, Interrupt, CallFails, Keep, CtxDone, Sections, Errors, NoError, Expected, Zero
<1>6. CancelHasReason'
  BY DEF RequestInv, TypeOK, CancelHasReason, Interrupt, CallFails, Keep, CtxDone, Errors, NoError
<1>7. OneAtATime'
  BY DEF RequestInv, TypeOK, OneAtATime, Interrupt, CallFails, Keep, CtxDone, Active, Sections, Sync, Errors, NoError
<1>8. ResponseDecided'
  BY DEF RequestInv, TypeOK, ResponseDecided, Interrupt, CallFails, Keep, CtxDone, Active, Returned, Sections, Errors, NoError
<1> QED
  BY <1>1, <1>2, <1>3, <1>4, <1>5, <1>6, <1>7, <1>8 DEF RequestInv

LEMMA RespondInv ==
  ASSUME RequestInv, Respond
  PROVE  RequestInv'
<1>1. TypeOK'
  BY DEF RequestInv, TypeOK, Respond
<1>2. AnswersKept' /\ CallsPlaced' /\ SectionsDone' /\ JobsReturned'
  BY DEF RequestInv, AnswersKept, CallsPlaced, SectionsDone, JobsReturned, Respond, Expected
<1>3. CancelHasReason' /\ OneAtATime'
  BY DEF RequestInv, CancelHasReason, OneAtATime, Respond, Active, Sync
<1>4. Active = {}
  BY DEF RequestInv, OneAtATime, Respond, MayRespond, Returned, Active, Sections
<1>5. outerErr = NoError => \A i \in Jobs : Returned(i)
  BY DEF Respond, MayRespond
<1>6. ResponseDecided'
  BY <1>4, <1>5 DEF ResponseDecided, Respond, Active, Returned, NoError
<1> QED
  BY <1>1, <1>2, <1>3, <1>6 DEF RequestInv

LEMMA ClientLeavesInv ==
  ASSUME RequestInv, ClientLeaves
  PROVE  RequestInv'
<1>1. TypeOK'
  BY DEF RequestInv, TypeOK, ClientLeaves
<1>2. AnswersKept' /\ CallsPlaced' /\ SectionsDone' /\ JobsReturned'
  BY DEF RequestInv, AnswersKept, CallsPlaced, SectionsDone, JobsReturned, ClientLeaves, Expected
<1>3. CancelHasReason' /\ OneAtATime' /\ ResponseDecided'
  BY DEF RequestInv, CancelHasReason, OneAtATime, ResponseDecided, ClientLeaves,
         Active, Sync, Returned
<1> QED
  BY <1>1, <1>2, <1>3 DEF RequestInv

LEMMA StutterInv ==
  ASSUME RequestInv, UNCHANGED vars
  PROVE  RequestInv'
BY DEF RequestInv, TypeOK, AnswersKept, CallsPlaced, SectionsDone, JobsReturned,
       CancelHasReason, OneAtATime, ResponseDecided, vars, Active, Sync,
       Returned, Expected

(* The invariant of a request: one lemma per action. *)
THEOREM RequestInvariant == Spec => []RequestInv
<1>1. RequestInv /\ [Next]_vars => RequestInv'
  <2> SUFFICES ASSUME RequestInv, [Next]_vars PROVE RequestInv'
    OBVIOUS
  <2>1. ASSUME NEW i \in Jobs, Launch(i) \/ Begin(i) \/ EndSection(i)
        PROVE  RequestInv'
    BY <2>1, LaunchInv, BeginInv, EndSectionInv
  <2>2. ASSUME NEW i \in Jobs, NEW c \in Calls,
               \/ OpenCall(i, c) \/ Send(i, c) \/ Answer(i, c)
               \/ CallError(i, c) \/ Interrupt(i, c)
        PROVE  RequestInv'
    BY <2>2, OpenCallInv, SendInv, AnswerInv, CallErrorInv, InterruptInv
  <2>3. CASE Respond
    BY <2>3, RespondInv
  <2>4. CASE ClientLeaves
    BY <2>4, ClientLeavesInv
  <2>5. CASE Done \/ UNCHANGED vars
    BY <2>5, StutterInv DEF Done
  <2> QED
    BY <2>1, <2>2, <2>3, <2>4, <2>5 DEF Next
<1> QED
  BY InitInv, <1>1, PTL DEF Spec

(* The slots: only Launch takes one of the outer group, only OpenCall one  *)
(* of an inner group.                                                      *)
LEMMA SlotsFinite ==
  /\ IsFiniteSet(Active) /\ Cardinality(Active) \in Nat
  /\ \A i \in Jobs : IsFiniteSet(Open(i)) /\ Cardinality(Open(i)) \in Nat
<1>1. IsFiniteSet(Active)
  BY JobsFinite, FS_Subset DEF Active
<1>2. ASSUME NEW i \in Jobs PROVE IsFiniteSet(Open(i))
  BY FanOutAssumption, FS_Subset DEF Open
<1> QED
  BY <1>1, <1>2, FS_CardinalityType

LEMMA MostOpenType == TypeOK => MostOpen \in Nat /\ OuterSlots \in Nat
<1>1. Cardinality(Calls) \in Nat
  BY FanOutAssumption, FS_CardinalityType
<1> QED
  BY <1>1, FanOutAssumption DEF TypeOK, MostOpen, OuterSlots

LEMMA SectionFits ==
  ASSUME TypeOK, NEW s \in Sections
  PROVE  InnerSlots(s) <= MostOpen
<1>1. SectionCalls[s] \subseteq Calls
  BY DEF Sections, SectionCalls, Calls
<1>2. Cardinality(SectionCalls[s]) <= Cardinality(Calls)
  BY <1>1, FanOutAssumption, FS_Subset
<1> QED
  BY <1>2, FanOutAssumption DEF InnerSlots, MostOpen, TypeOK

LEMMA FewerSlots ==
  ASSUME SlotsKept, limit' = limit, Active' \subseteq Active,
         \A i \in Jobs : Open(i)' \subseteq Open(i), TypeOK
  PROVE  SlotsKept'
<1>1. MostOpen' = MostOpen /\ OuterSlots' = OuterSlots
  BY DEF MostOpen, OuterSlots, Sync
<1>2. Cardinality(Active') <= Cardinality(Active) /\ Cardinality(Active') \in Nat
  BY SlotsFinite, FS_Subset, FS_CardinalityType
<1>3. ASSUME NEW i \in Jobs
      PROVE  Cardinality(Open(i)') <= Cardinality(Open(i)) /\ Cardinality(Open(i)') \in Nat
  BY SlotsFinite, FS_Subset, FS_CardinalityType
<1>4. Cardinality(Active') <= OuterSlots
  BY <1>2, SlotsFinite, MostOpenType DEF SlotsKept
<1>5. ASSUME NEW i \in Jobs PROVE Cardinality(Open(i)') <= MostOpen
  BY <1>3, SlotsFinite, MostOpenType DEF SlotsKept
<1> QED
  BY <1>1, <1>4, <1>5 DEF SlotsKept

LEMMA InitSlots == Init => SlotsKept
<1> SUFFICES ASSUME Init PROVE SlotsKept
  OBVIOUS
<1>1. Active = {} /\ \A i \in Jobs : Open(i) = {}
  BY DEF Init, Active, Open, Sections
<1>2. TypeOK
  BY InitInv DEF RequestInv
<1> QED
  BY <1>1, <1>2, MostOpenType, FS_EmptySet DEF SlotsKept

LEMMA LaunchSlots ==
  ASSUME RequestInv, SlotsKept, NEW i \in Jobs, Launch(i)
  PROVE  SlotsKept'
<1>1. Active' = Active \cup {i} /\ limit' = limit /\ call' = call
  BY DEF RequestInv, TypeOK, Launch, Active
<1>2. Cardinality(Active) < OuterSlots
  BY DEF Launch
<1>3. Cardinality(Active') <= Cardinality(Active) + 1 /\ Cardinality(Active') \in Nat
  <2>1. /\ IsFiniteSet(Active \cup {i})
        /\ Cardinality(Active \cup {i}) =
             IF i \in Active THEN Cardinality(Active) ELSE Cardinality(Active) + 1
    BY SlotsFinite, FS_AddElement
  <2> QED
    BY <1>1, <2>1, SlotsFinite
<1>4. MostOpen' = MostOpen /\ OuterSlots' = OuterSlots
  BY <1>1 DEF MostOpen, OuterSlots, Sync
<1>5. Cardinality(Active') <= OuterSlots
  BY <1>2, <1>3, SlotsFinite, MostOpenType DEF RequestInv
<1>6. \A j \in Jobs : Open(j)' = Open(j)
  BY <1>1 DEF Open
<1> QED
  BY <1>4, <1>5, <1>6 DEF SlotsKept

LEMMA OpenCallSlots ==
  ASSUME RequestInv, SlotsKept, NEW i \in Jobs, NEW c \in Calls, OpenCall(i, c)
  PROVE  SlotsKept'
<1>1. limit' = limit /\ stage' = stage /\ Active' = Active
  BY DEF OpenCall, Active
<1>2. MostOpen' = MostOpen /\ OuterSlots' = OuterSlots
  BY <1>1 DEF MostOpen, OuterSlots, Sync
<1>3. Open(i)' = Open(i) \cup {c} /\ \A j \in Jobs \ {i} : Open(j)' = Open(j)
  BY DEF RequestInv, TypeOK, OpenCall, Open
<1>4. Cardinality(Open(i)) < InnerSlots(stage[i]) /\ InnerSlots(stage[i]) <= MostOpen
  BY SectionFits DEF OpenCall, RequestInv
<1>5. Cardinality(Open(i)') <= Cardinality(Open(i)) + 1 /\ Cardinality(Open(i)') \in Nat
  <2>1. /\ IsFiniteSet(Open(i) \cup {c})
        /\ Cardinality(Open(i) \cup {c}) =
             IF c \in Open(i) THEN Cardinality(Open(i)) ELSE Cardinality(Open(i)) + 1
    BY SlotsFinite, FS_AddElement
  <2> QED
    BY <1>3, <2>1, SlotsFinite
<1>6. InnerSlots(stage[i]) \in Nat
  <2>1. SectionCalls[stage[i]] \subseteq Calls
    BY DEF OpenCall, Sections, SectionCalls, Calls
  <2>2. Cardinality(SectionCalls[stage[i]]) \in Nat
    BY <2>1, FanOutAssumption, FS_Subset, FS_CardinalityType
  <2> QED
    BY <2>2, FanOutAssumption DEF InnerSlots, RequestInv, TypeOK
<1>7. Cardinality(Open(i)') <= MostOpen
  BY <1>4, <1>5, <1>6, SlotsFinite, MostOpenType DEF RequestInv
<1> QED
  BY <1>1, <1>2, <1>3, <1>7 DEF SlotsKept

(* The inductive invariant, slots included: whatever the interleaving, no  *)
(* group runs more goroutines than its limit (errgroup.SetLimit at both    *)
(* levels).                                                                *)
THEOREM InductiveInvariant == Spec => []IInv
<1>1. RequestInv /\ SlotsKept /\ [Next]_vars => SlotsKept'
  <2> SUFFICES ASSUME RequestInv, SlotsKept, [Next]_vars PROVE SlotsKept'
    OBVIOUS
  <2>1. TypeOK
    BY DEF RequestInv
  <2>2. ASSUME NEW i \in Jobs, Begin(i) \/ EndSection(i) PROVE SlotsKept'
    <3>1. limit' = limit /\ call' = call
      BY <2>2 DEF Begin, EndSection
    <3>2. Active' \subseteq Active
      BY <2>2 DEF RequestInv, TypeOK, Begin, EndSection, Fail, Return, Active, NextStage, Sections
    <3>3. \A j \in Jobs : Open(j)' \subseteq Open(j)
      BY <3>1 DEF Open
    <3> QED
      BY <2>1, <3>1, <3>2, <3>3, FewerSlots
  <2>3. ASSUME NEW i \in Jobs, NEW c \in Calls,
               Send(i, c) \/ Answer(i, c) \/ CallError(i, c) \/ Interrupt(i, c)
        PROVE  SlotsKept'
    <3>1. limit' = limit /\ stage' = stage
      BY <2>3 DEF Send, Answer, CallError, Interrupt, CallFails
    <3>2. Active' \subseteq Active
      BY <3>1 DEF Active
    <3>3. /\ call[i][c] \in {"open", "sent"}
          /\ \E s \in {"sent", "ok", "err"} : call' = [call EXCEPT ![i][c] = s]
      BY <2>3 DEF Send, Answer, CallError, Interrupt, CallFails
    <3>4. \A j \in Jobs : Open(j)' \subseteq Open(j)
      BY <3>3, <2>1 DEF Open, TypeOK
    <3> QED
      BY <2>1, <3>1, <3>2, <3>4, FewerSlots
  <2>4. CASE Respond \/ ClientLeaves \/ Done \/ UNCHANGED vars
    <3>1. limit' = limit /\ stage' = stage /\ call' = call
      BY <2>4 DEF Respond, ClientLeaves, Done, vars
    <3>2. Active' \subseteq Active /\ \A j \in Jobs : Open(j)' \subseteq Open(j)
      BY <3>1 DEF Active, Open
    <3> QED
      BY <2>1, <3>1, <3>2, FewerSlots
  <2> QED
    BY <2>2, <2>3, <2>4, LaunchSlots, OpenCallSlots DEF Next
<1> QED
  BY InitSlots, RequestInvariant, <1>1, PTL DEF Spec, IInv

(* As many queries in flight as slots in the product of both limits: each  *)
(* is told from the others by its variable set and its slot there.         *)
LEMMA ProductBound ==
  ASSUME TypeOK, CallsPlaced, SlotsKept
  PROVE  NestedBound
<1> DEFINE K == 1 .. MostOpen
<1>1. MostOpen \in Nat /\ OuterSlots \in Nat
  BY MostOpenType
<1>2. IsFiniteSet(K) /\ Cardinality(K) = MostOpen
  BY <1>1, FS_Interval
<1>3. ASSUME NEW i \in Jobs
      PROVE  \E h : h \in [Open(i) -> K] /\ \A c, d \in Open(i) : h[c] = h[d] => c = d
  <2> DEFINE n == Cardinality(Open(i))
  <2>1. n \in Nat /\ n <= MostOpen /\ ExistsBijection(1 .. n, Open(i))
    BY SlotsFinite, FS_CardinalityType DEF SlotsKept
  <2> HIDE DEF n
  <2>2. PICK b \in [1 .. n -> Open(i)] : \A c \in Open(i) : \E k \in 1 .. n : b[k] = c
    BY <2>1 DEF ExistsBijection, Bijection, Surjection
  <2> DEFINE h == [c \in Open(i) |-> CHOOSE k \in 1 .. n : b[k] = c]
  <2>3. ASSUME NEW c \in Open(i) PROVE h[c] \in 1 .. n /\ b[h[c]] = c
    BY <2>2
  <2>4. h \in [Open(i) -> K]
    <3>1. \A k \in 1 .. n : k \in K
      BY <1>1, <2>1
    <3>2. \A c \in Open(i) : h[c] \in K
      BY <2>3, <3>1
    <3> HIDE DEF K
    <3> QED
      BY <3>2
  <2> HIDE DEF h
  <2> QED
    BY <2>3, <2>4
<1> DEFINE g == [i \in Jobs |-> CHOOSE h : h \in [Open(i) -> K]
                                  /\ \A c, d \in Open(i) : h[c] = h[d] => c = d]
<1>4. ASSUME NEW i \in Jobs
      PROVE  g[i] \in [Open(i) -> K] /\ \A c, d \in Open(i) : g[i][c] = g[i][d] => c = d
  <2> HIDE DEF K
  <2> QED
    BY <1>3
<1> HIDE DEF g
<1> DEFINE f == [p \in InFlight |-> <<p[1], g[p[1]][p[2]]>>]
<1>5. ASSUME NEW p \in InFlight
      PROVE  /\ p[1] \in Active /\ p[1] \in Jobs /\ p[2] \in Open(p[1])
             /\ p = <<p[1], p[2]>>
  BY DEF InFlight, CallsPlaced, Active, Open
<1>6. f \in [InFlight -> Active \X K]
  <2>1. ASSUME NEW p \in InFlight PROVE g[p[1]][p[2]] \in K
    <3> HIDE DEF K
    <3> QED
      BY <1>4, <1>5
  <2> HIDE DEF K
  <2> QED
    BY <1>5, <2>1
<1>7. ASSUME NEW p \in InFlight, NEW q \in InFlight, f[p] = f[q] PROVE p = q
  <2>1. p[1] = q[1] /\ g[p[1]][p[2]] = g[q[1]][q[2]]
    BY <1>7
  <2>2. p[2] = q[2]
    BY <1>4, <1>5, <2>1
  <2> QED
    BY <1>5, <2>1, <2>2
<1> HIDE DEF f, K
<1>8. f \in Injection(InFlight, Active \X K)
  BY <1>6, <1>7 DEF Injection, IsInjective
<1>9. /\ IsFiniteSet(Active \X K)
      /\ Cardinality(Active \X K) = Cardinality(Active) * MostOpen
  BY <1>2, SlotsFinite, FS_Product
<1>10. Cardinality(InFlight) <= Cardinality(Active) * MostOpen
  BY <1>8, <1>9, FS_Injection
<1>11. Cardinality(Active) * MostOpen <= OuterSlots * MostOpen
  BY <1>1, SlotsFinite, Z3 DEF SlotsKept
<1>12. /\ Cardinality(Active) * MostOpen \in Nat
       /\ OuterSlots * MostOpen \in Nat
       /\ Cardinality(InFlight) \in Nat
  BY <1>1, <1>8, <1>9, SlotsFinite, FS_Injection, FS_CardinalityType
<1> QED
  BY <1>10, <1>11, <1>12 DEF NestedBound

(* At no time are more upstream queries in flight than the product of the  *)
(* limits of the nested groups, for any limit and any number of variable   *)
(* sets and queries (execQueryAsync, aggregate.go).                        *)
THEOREM InFlightBounded == Spec => []NestedBound
<1>1. IInv => NestedBound
  BY ProductBound DEF IInv, RequestInv
<1> QED
  BY <1>1, InductiveInvariant, PTL

(* Every variable keeps its type in every reachable state of a request. *)
THEOREM TypeCorrect == Spec => []TypeOK
<1>1. RequestInv => TypeOK
  BY DEF RequestInv
<1> QED
  BY <1>1, RequestInvariant, PTL

(* A successful response holds at each index exactly the answers of the    *)
(* variable set of that index, for any number of variable sets, any        *)
(* concurrency limit and any interleaving of the goroutines.               *)
THEOREM ResponseIsComplete == Spec => []ResponseComplete
<1>1. RequestInv => ResponseComplete
  BY DEF RequestInv, ResponseComplete, ResponseDecided, JobsReturned, Returned
<1> QED
  BY <1>1, RequestInvariant, PTL

(* Unless the client left, an error response carries the failure that      *)
(* started the cancellation.                                               *)
THEOREM ErrorsAreRootCauses == Spec => []RootCause
<1>1. RequestInv => RootCause
  BY DEF RequestInv, TypeOK, RootCause, ResponseDecided, CancelHasReason, Errors, NoError
<1> QED
  BY <1>1, RequestInvariant, PTL

(* No goroutine of a request survives its response. *)
THEOREM NothingLeftBehind == Spec => []Quiescent
<1>1. RequestInv => Quiescent
  BY DEF RequestInv, Quiescent, ResponseDecided, CallsPlaced, Active, Open
<1> QED
  BY <1>1, RequestInvariant, PTL

(* After the first failed variable set no upstream query leaves for any    *)
(* other one: with several slots the group's context is done, with one     *)
(* slot no execQuery is running.                                           *)
THEOREM NoSendAfterFailure == Spec => NoSendAfterError
<1>1. RequestInv /\ [Next]_vars => [outerErr # NoError => InFlight' \subseteq InFlight]_vars
  <2> SUFFICES ASSUME RequestInv, Next, outerErr # NoError
               PROVE  InFlight' \subseteq InFlight
    OBVIOUS
  <2>1. ASSUME NEW i \in Jobs, NEW c \in Calls, Send(i, c) PROVE FALSE
    <3>1. stage[i] \in Sections /\ i \in Active
      BY <2>1 DEF RequestInv, CallsPlaced, Send, Active
    <3>2. ~Sync
      BY <3>1 DEF RequestInv, OneAtATime
    <3> QED
      BY <2>1, <3>2 DEF Send, CtxDone
  <2>2. ASSUME NEW i \in Jobs, NEW c \in Calls, NEW s \in {"open", "ok", "err"},
               call' = [call EXCEPT ![i][c] = s]
        PROVE  InFlight' \subseteq InFlight
    BY <2>2 DEF RequestInv, TypeOK, InFlight
  <2>3. UNCHANGED call => InFlight' = InFlight
    BY DEF InFlight
  <2>4. ASSUME NEW i \in Jobs, NEW c \in Calls,
               OpenCall(i, c) \/ Answer(i, c) \/ CallError(i, c) \/ Interrupt(i, c)
        PROVE  InFlight' \subseteq InFlight
    BY <2>4, <2>2 DEF OpenCall, Answer, CallError, Interrupt, CallFails
  <2>5. ASSUME NEW i \in Jobs, Launch(i) \/ Begin(i) \/ EndSection(i)
        PROVE  UNCHANGED call
    BY <2>5 DEF Launch, Begin, EndSection
  <2>6. Respond \/ ClientLeaves \/ Done => UNCHANGED call
    BY DEF Respond, ClientLeaves, Done, vars
  <2> QED
    BY <2>1, <2>3, <2>4, <2>5, <2>6 DEF Next
<1> QED
  BY <1>1, RequestInvariant, PTL DEF Spec, NoSendAfterError

(* A step of the request that leaves every execQuery unreturned, and every *)
(* variable the engine can see alone, is a stutter of the contract.        *)
LEMMA HiddenStep ==
  ASSUME {i \in Jobs : stage'[i] = "ok"} = {i \in Jobs : stage[i] = "ok"},
         UNCHANGED <<kind, outerErr, rowSets, response, clientGone>>
  PROVE  UNCHANGED Contract!cvars
BY DEF Contract!cvars

LEMMA FailRefines ==
  ASSUME RequestInv, NEW i \in Jobs, NEW err \in Errors, i \in Active,
         Fail(i, err), err = "canceled" => clientGone \/ outerErr # NoError,
         UNCHANGED <<kind, response, clientGone>>
  PROVE  Contract!Break \/ UNCHANGED Contract!cvars
<1>1. {j \in Jobs : stage'[j] = "ok"} = {j \in Jobs : stage[j] = "ok"}
  BY DEF Fail, Active, RequestInv, TypeOK, Sections
<1>2. UNCHANGED rowSets
  BY DEF Fail
<1>3. response = "none"
  BY DEF RequestInv, ResponseDecided
<1>4. CASE outerErr = NoError
  BY <1>1, <1>2, <1>3, <1>4 DEF Contract!Break, Fail, Keep, NoError, Errors
<1>5. CASE outerErr # NoError
  BY <1>1, <1>2, <1>5 DEF Contract!cvars, Fail, Keep
<1> QED
  BY <1>4, <1>5

LEMMA ReturnRefines ==
  ASSUME RequestInv, NEW i \in Jobs, i \in Active, kind[i] # "invalid",
         Return(i, Expected(i)), UNCHANGED <<kind, response, clientGone>>
  PROVE  Contract!Serve(i)
<1>1. {j \in Jobs : stage'[j] = "ok"} = {j \in Jobs : stage[j] = "ok"} \cup {i}
  BY DEF Return, RequestInv, TypeOK
<1>2. stage[i] # "ok" /\ response = "none"
  BY DEF RequestInv, ResponseDecided, Active, Sections
<1>3. Contract!Owed(i) = Expected(i)
  BY DEF Contract!Owed, Expected
<1> QED
  BY <1>1, <1>2, <1>3 DEF Contract!Serve, Return

LEMMA BeginRefines ==
  ASSUME RequestInv, NEW i \in Jobs, Begin(i)
  PROVE  [Contract!Next]_(Contract!cvars)
<1>1. i \in Active
  BY DEF Begin, Active
<1>2. CASE Fail(i, "cause")
  BY <1>1, <1>2, FailRefines DEF Begin, Errors, Contract!Next
<1>3. CASE kind[i] = "empty" /\ Return(i, {})
  BY <1>1, <1>3, ReturnRefines DEF Begin, Expected, Contract!Next
<1>4. CASE stage' = [stage EXCEPT ![i] = "rows"] /\ UNCHANGED <<outerErr, rowSets>>
  BY <1>1, <1>4, HiddenStep DEF Begin, RequestInv, TypeOK
<1> QED
  BY <1>2, <1>3, <1>4 DEF Begin

LEMMA EndSectionRefines ==
  ASSUME RequestInv, NEW i \in Jobs, EndSection(i)
  PROVE  [Contract!Next]_(Contract!cvars)
<1>1. i \in Active
  BY DEF EndSection, Active
<1>2. CASE innerErr[i] # NoError /\ Fail(i, innerErr[i])
  <2>1. innerErr[i] \in Errors
    BY <1>2 DEF RequestInv, TypeOK
  <2> QED
    BY <1>1, <1>2, <2>1, FailRefines
    DEF EndSection, RequestInv, CancelHasReason, Contract!Next
<1>3. CASE innerErr[i] = NoError /\ stage[i] = "groups" /\ Return(i, got[i])
  <2>1. \A c \in Calls : call[i][c] = "ok"
    BY <1>3 DEF RequestInv, CallsPlaced, SectionsDone, EndSection, SectionCalls, Calls
  <2>2. kind[i] = "run" /\ got[i] = Expected(i)
    <3>1. got[i] = {i} \X Calls
      BY <2>1 DEF RequestInv, AnswersKept
    <3>2. kind[i] = "run"
      BY <1>3 DEF RequestInv, SectionsDone, Sections
    <3> QED
      BY <3>1, <3>2 DEF Expected
  <2> QED
    BY <1>1, <1>3, <2>2, ReturnRefines DEF EndSection, Contract!Next
<1>4. CASE /\ stage[i] # "groups"
           /\ stage' = [stage EXCEPT ![i] = NextStage[@]]
           /\ UNCHANGED <<outerErr, rowSets>>
  <2>1. stage[i] # "ok" /\ NextStage[stage[i]] # "ok"
    BY <1>4 DEF EndSection, Sections, NextStage
  <2> QED
    BY <1>4, <2>1, HiddenStep DEF EndSection, RequestInv, TypeOK
<1> QED
  BY <1>2, <1>3, <1>4 DEF EndSection

(* Every step of the nested errgroups is a step, or a stutter, of the      *)
(* contract: it serves one variable set, breaks, responds, or is hidden.   *)
THEOREM RequestRefinesContract == Spec => ImplementsContract
<1>1. Init => Contract!Init
  BY DEF Init, Contract!Init, Kinds, Zero, NoError
<1>2. RequestInv /\ [Next]_vars => [Contract!Next]_(Contract!cvars)
  <2> SUFFICES ASSUME RequestInv, [Next]_vars PROVE [Contract!Next]_(Contract!cvars)
    OBVIOUS
  <2>1. ASSUME NEW i \in Jobs, Launch(i) PROVE UNCHANGED Contract!cvars
    BY <2>1, HiddenStep DEF Launch, RequestInv, TypeOK
  <2>2. ASSUME NEW i \in Jobs, Begin(i) \/ EndSection(i)
        PROVE  [Contract!Next]_(Contract!cvars)
    BY <2>2, BeginRefines, EndSectionRefines
  <2>3. ASSUME NEW i \in Jobs, NEW c \in Calls,
               \/ OpenCall(i, c) \/ Send(i, c) \/ Answer(i, c)
               \/ CallError(i, c) \/ Interrupt(i, c)
        PROVE  UNCHANGED Contract!cvars
    BY <2>3, HiddenStep
    DEF OpenCall, Send, Answer, CallError, Interrupt, CallFails
  <2>4. CASE Respond
    <3>1. outerErr = NoError => {i \in Jobs : stage[i] = "ok"} = Jobs
      BY <2>4 DEF RequestInv, JobsReturned, Respond, MayRespond, Returned
    <3> QED
      BY <2>4, <3>1 DEF Respond, Contract!Respond, Contract!Next, NoError
  <2>5. CASE ClientLeaves
    BY <2>5 DEF ClientLeaves, Contract!ClientLeaves, Contract!Next
  <2>6. CASE Done \/ UNCHANGED vars
    BY <2>6 DEF Done, vars, Contract!cvars
  <2> QED
    BY <2>1, <2>2, <2>3, <2>4, <2>5, <2>6 DEF Next
<1> QED
  BY <1>1, <1>2, RequestInvariant, PTL DEF Spec, ImplementsContract, Contract!Spec

=============================================================================
