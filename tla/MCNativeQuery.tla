--------------------------- MODULE MCNativeQuery ---------------------------
(* A small instance of NativeQuery: a template with one placeholder twice  *)
(* and another one, an argument that no declaration knows, one label, and  *)
(* predicates of up to two terms, some of them nested.                     *)
EXTENDS NativeQuery

MCTemplate == <<"up{", "job", "}", "host", "job">>

Time(op, b, ok) == [kind |-> "time", op |-> op, bound |-> b, ok |-> ok,
                    var |-> FALSE, text |-> "some"]
Value(op, b)    == [kind |-> "value", op |-> op, bound |-> b, ok |-> TRUE]
Label(op, a)    == [kind |-> "label", op |-> op, accept |-> a, ok |-> TRUE]
Null(of)        == [kind |-> "null", of |-> of]
Not(e)          == [kind |-> "not", term |-> e]
And(terms)      == [kind |-> "and", terms |-> terms]
Or(terms)       == [kind |-> "or", terms |-> terms]

Times == {Time("_eq", <<3>>, TRUE), Time("_gt", <<2>>, TRUE),
          Time("_gt", << >>, TRUE), Time("_lt", <<4>>, TRUE)}

Odd == {Time("_neq", <<3>>, TRUE), Time("_gt", <<2>>, FALSE),
        [kind |-> "other"], Value("_regex", <<1>>), Value("_lt", << >>),
        Label("_gt", <<{1}>>), Label("_nin", << >>), Null("own"), Null("none"),
        [Value("_gt", <<1>>) EXCEPT !.ok = FALSE], [Label("_in", <<{1}>>) EXCEPT !.ok = FALSE]}

Simple == {Value("_gt", <<1>>), Label("_in", <<{1}>>), Null("label")}

Units == Times \cup Simple \cup {Not(e) : e \in Simple \cup {Time("_gt", <<2>>, TRUE)}}

Twos == {<<d, e>> : d, e \in Units}

Small == {And(q) : q \in Twos \cup {<<e>> : e \in Units \cup Odd} \cup {<< >>}} \cup
         {Or(q)  : q \in Twos \cup {<<e>> : e \in Units \cup Odd} \cup {<< >>}}

MCNow == 1065000000

(* A range of d minutes until now, one after it, and a time of a variable. *)
Since(d) == Time("_gt", <<MCNow - d>>, TRUE)

Ranges == {0, 5, 6, 60, 61, 120, 121, 240, 241, 720, 721, 1440, 1441, 2880, 2881,
           5760, 5761, 10080, 10081, 43200, 43201, 86401, 1296000, 1296001, MCNow}

Until == Time("_lt", <<MCNow + 5>>, TRUE)

FromVariable == {[Time(op, <<3>>, TRUE) EXCEPT !.var = TRUE] : op \in {"_eq", "_gt"}}

Disjunction == Or(<<Value("_gt", <<1>>), Label("_in", <<{1}>>)>>)

(* Comparisons of the time in a not. *)
Untold ==
  {Time("_neq", <<3>>, TRUE), [Time("_regex", <<3>>, FALSE) EXCEPT !.text = "none"],
   [Time("_in", <<3>>, TRUE) EXCEPT !.text = "undecodable"]}

Nested ==
  {Not(e) : e \in Untold} \cup
  {Not(Disjunction), Not(And(<<Value("_regex", <<1>>)>>))} \cup
  {And(<<Disjunction, e>>) : e \in Times} \cup {And(<<Disjunction>>)} \cup
  {And(<<Not(Disjunction), Value("_gt", << >>), e>>) : e \in Times} \cup
  {And(<<Not(Disjunction), Value("_gt", << >>)>>)}

MCExpressions ==
  Units \cup Odd \cup Untold \cup Small \cup Nested \cup {Value("_gt", << >>), Until}
    \cup FromVariable \cup {Since(d) : d \in Ranges}
    \cup {And(<<Since(d), Until>>) : d \in Ranges}

MCPredicates == {<< >>} \cup {<<e>> : e \in Units \cup Odd \cup Small \cup Nested}

Arg(v) == <<[ok |-> TRUE, value |-> v]>>
Bad    == <<[ok |-> FALSE, value |-> << >>]>>

Args(job, host, other) ==
  [n \in Names |-> CASE n = "job" -> job [] n = "host" -> host [] OTHER -> other]

(* Values that hold placeholders, in a circle or not; unknown, missing and *)
(* undecodable arguments.                                                  *)
MCArguments ==
  {Args(Arg(<<"x">>), Arg(<<"x">>), << >>),
   Args(Arg(<<"x">>), << >>, << >>),
   Args(Arg(<<"host">>), Arg(<<"x">>), << >>),
   Args(Arg(<<"host", "x">>), Arg(<<"job">>), << >>),
   Args(Arg(<<"x">>), Arg(<<"other">>), Arg(<<"x">>)),
   Args(Arg(<<"}">>), Arg(<<"}">>), Bad),
   Args(Bad, Arg(<<"x">>), << >>)}

Good == Args(Arg(<<"x">>), Arg(<<"x">>), << >>)

Plainest ==
  [kind |-> "native", explain |-> FALSE, predicate |-> << >>, arguments |-> Good,
   step |-> [ok |-> TRUE, value |-> 5], timeout |-> [ok |-> TRUE],
   flat |-> [ok |-> TRUE, value |-> << >>],
   order |-> [ok |-> TRUE, by |-> << >>], offset |-> 0, limit |-> << >>,
   query |-> [ok |-> TRUE, value |-> <<"x">>],
   times |-> [f \in Fields |-> [ok |-> TRUE, value |-> << >>]],
   selection |-> TRUE]

Bounded1 == <<Time("_gt", <<2>>, TRUE)>>

By(c, d) == [column |-> c, descending |-> d]

(* All orders by a column or two. *)
MCOrders ==
  {<<By(c, d)>> : c \in Columns, d \in BOOLEAN} \cup
  {<<By(c, d), By(e, f)>> : c, e \in Columns, d, f \in BOOLEAN}

StepArguments == {[ok |-> TRUE, value |-> 0], [ok |-> TRUE, value |-> 5],
           [ok |-> FALSE, value |-> 0]}

Flats == [ok : {TRUE}, value : {<< >>, <<TRUE>>, <<FALSE>>}]
           \cup {[ok |-> FALSE, value |-> << >>]}

TimeArguments == [ok : {TRUE}, value : {<< >>, <<2>>}] \cup {[ok |-> FALSE, value |-> << >>]}

Raw == [Plainest EXCEPT !.kind = "raw"]

AllRequests ==
  {[Plainest EXCEPT !.predicate = p] : p \in MCPredicates} \cup
  {[Plainest EXCEPT !.predicate = Bounded1, !.arguments = a, !.step = s, !.timeout.ok = t,
                    !.explain = e] :
     a \in MCArguments, t \in BOOLEAN, s \in StepArguments, e \in BOOLEAN} \cup
  {[Plainest EXCEPT !.predicate = <<And(<<t, Value("_gt", <<1>>)>>)>>,
                    !.flat = f, !.offset = o, !.limit = l] :
     t \in {Time("_eq", <<3>>, TRUE), Time("_gt", <<2>>, TRUE)},
     f \in Flats, o \in 0 .. 2, l \in {<< >>, <<0>>, <<1>>}} \cup
  {[Plainest EXCEPT !.predicate = <<e>>, !.step = [ok |-> TRUE, value |-> 0]] :
     e \in {Since(d) : d \in Ranges} \cup {And(<<Since(d), Until>>) : d \in Ranges}
             \cup {Until}} \cup
  {[Plainest EXCEPT !.predicate = <<t>>, !.order.by = b, !.flat.value = <<f>>,
                    !.limit = l] :
     t \in {Time("_eq", <<3>>, TRUE), Time("_gt", <<2>>, TRUE)}, b \in MCOrders,
     f \in BOOLEAN, l \in {<< >>, <<2>>}} \cup
  {[Plainest EXCEPT !.predicate = <<t>>, !.order.ok = o, !.flat = f, !.explain = e] :
     t \in FromVariable \cup Times, o \in BOOLEAN, f \in Flats, e \in BOOLEAN} \cup
  {[Raw EXCEPT !.query.ok = k, !.step = s, !.timeout.ok = t, !.explain = e] :
     k, t, e \in BOOLEAN, s \in StepArguments} \cup
  {[Raw EXCEPT !.selection = n, !.flat = f, !.explain = e] :
     n, e \in BOOLEAN, f \in Flats} \cup
  {[Raw EXCEPT !.flat = f, !.times = t] :
     f \in Flats, t \in [Fields -> TimeArguments]}

(* The same set, which TLC keeps enumerated. *)
MCRequests == {r : r \in AllRequests}

P(t, v) == [time |-> t, value |-> v]

S(l, p) == [label |-> l, bare |-> FALSE, samples |-> p]

Bare(p) == [label |-> 0, bare |-> TRUE, samples |-> p]

MCAnswers ==
  {<< >>, <<S(1, <<P(3, 2)>>)>>, <<Bare(<<P(3, 0)>>)>>,
   <<S(1, <<P(3, 2)>>), S(2, <<P(3, 0)>>), Bare(<<P(3, 3)>>)>>,
   <<S(2, <<P(3, NaN)>>), S(0, <<P(3, 2)>>), S(1, <<P(3, 2)>>), S(2, <<P(3, 0)>>)>>,
   <<S(1, <<P(1, 2), P(2, 0), P(3, 3)>>)>>,
   <<S(2, <<P(1, 0), P(2, NaN), P(3, 2)>>), S(0, <<P(2, 1), P(3, 0)>>), S(1, <<P(1, 0)>>)>>}
=============================================================================
