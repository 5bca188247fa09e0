------------------------ MODULE MCDocumentedQueries ------------------------
(* One request each: a quantile's rows with a condition on the value, rows *)
(* with both an exact time and a bound, groups beside an aggregate with an *)
(* offset and a range function whose argument is null, and a native query  *)
(* with two arguments.                                                     *)
EXTENDS DocumentedQueries

MCNow == 9

Term(column, op, v) == [column |-> column, op |-> op, value |-> <<v>>, ok |-> TRUE]

Plainest ==
  [kind |-> "metric", limited |-> FALSE, terms |-> << >>, flaws |-> {}, offset |-> 0,
   quantile |-> TRUE, fns |-> << >>, labels |-> << >>, aggregates |-> {}, groups |-> << >>]

MCRowsRequests ==
  {[Plainest EXCEPT !.kind = "quantile", !.terms = <<Term("value", "_gt", 1)>>]}

MCExactRequests ==
  {[Plainest EXCEPT !.terms = <<Term("timestamp", "_eq", 5), Term("timestamp", "_gt", 2)>>]}

MCGroupRequests ==
  {[Plainest EXCEPT !.fns = <<[fn |-> "range", arg |-> "null"]>>, !.offset = 3,
                    !.aggregates = {"single"}, !.groups = <<{"star"}>>]}

MCTemplate == <<"up{", "job", "}", "host">>

MCNativeRequests ==
  {[kind |-> "native", explain |-> FALSE, predicate |-> << >>,
    arguments |-> [n \in Names |-> <<[ok |-> TRUE, value |-> <<"x">>]>>],
    step |-> [ok |-> TRUE, value |-> 5], timeout |-> [ok |-> TRUE],
    flat |-> [ok |-> TRUE, value |-> << >>],
    order |-> [ok |-> TRUE, by |-> << >>], offset |-> 0, limit |-> << >>,
    query |-> [ok |-> TRUE, value |-> << >>],
    times |-> [f \in Fields |-> [ok |-> TRUE, value |-> << >>]], selection |-> TRUE]}
=============================================================================
