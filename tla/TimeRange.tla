----------------------------- MODULE TimeRange -----------------------------
(***************************************************************************)
(* The range of a range query and its step (connector/metadata/utils.go).  *)
(* Times are minutes since Go's zero time, steps are seconds.              *)
(***************************************************************************)
EXTENDS Integers, Sequences

Hour == 60
Day  == 24 * Hour
Base == 30 * Day

(* Up to which length of a range which step is taken. *)
Steps ==
  << <<5, 1>>, <<Hour, 15>>, <<2 * Hour, 30>>, <<4 * Hour, 60>>,
     <<12 * Hour, 120>>, <<Day, 300>>, <<2 * Day, 600>>, <<4 * Day, 1200>>,
     <<7 * Day, 1800>>, <<Base, 3600>> >>

Ceiling(d, n) == -((-d) \div n)

(* evalStepFromRange: a range of up to 900 days gets a step that is at      *)
(* least as long as itself.                                                *)
EvalStep(d) ==
  IF d <= Base
  THEN LET i == CHOOSE i \in DOMAIN Steps :
                  /\ d <= Steps[i][1]
                  /\ \A j \in 1 .. i - 1 : d > Steps[j][1]
       IN Steps[i][2]
  ELSE IF d <= 30 * Base THEN 60 * Base * Ceiling(d, Base)
  ELSE 60 * 365 * Day

(* NewRange: a pointer is a sequence of at most one time, nil being << >>, *)
(* and a step of 0 is one to be evaluated.                                 *)
NewRange(start, end, step, now) ==
  LET from == IF start = << >> THEN 0 ELSE start[1]
      to   == IF end = << >> THEN now ELSE end[1]
  IN [start |-> from, end |-> to,
      step  |-> IF step = 0 THEN EvalStep(to - from) ELSE step]

(* A step fits n times at most into d minutes. *)
AtMost(d, step, n) ==
  IF step % 60 = 0 THEN d \div (step \div 60) <= n ELSE (60 * d) \div step <= n
=============================================================================
