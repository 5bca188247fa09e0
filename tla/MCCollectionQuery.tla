------------------------- MODULE MCCollectionQuery -------------------------
(* Small instances of CollectionQuery: all predicates of up to three terms *)
(* with a plain request, and all lists of up to three functions with every *)
(* kind of collection, offset, aggregates and groups.                      *)
EXTENDS CollectionQuery

MCNow == 9

Plain ==
  [kind |-> "metric", limited |-> FALSE, terms |-> << >>, flaws |-> {}, offset |-> 0,
   quantile |-> TRUE, fns |-> << >>, labels |-> << >>, aggregates |-> {}, groups |-> << >>]

UpTo(S, n) == UNION {[1..k -> S] : k \in 0..n}

Times == [column : {"timestamp"}, op : {"_eq", "_lt", "_gte"},
          value : {<< >>, <<2>>, <<5>>}, ok : {TRUE}]
OtherTerms ==
  {[column |-> "timestamp", op |-> "_eq", value |-> << >>, ok |-> FALSE],
   [column |-> "timestamp", op |-> "_neq", value |-> <<2>>, ok |-> TRUE],
   [column |-> "aggregate", op |-> "_eq", value |-> <<2>>, ok |-> TRUE],
   [column |-> "other", op |-> "_or", value |-> << >>, ok |-> TRUE]}
Comparisons ==
  [column : {"value"}, op : {"_neq", "_regex"}, value : {<< >>, <<1>>}, ok : {TRUE}]
    \cup {[column |-> "value", op |-> "_eq", value |-> << >>, ok |-> FALSE]}

MCTerms == UpTo(Times \cup OtherTerms, 3)
             \cup {Append(s, c) : s \in UpTo(Times, 1), c \in Comparisons}
             \cup {<<c, d>> : c \in Comparisons, d \in Comparisons}

PredicateRequests ==
  {[Plain EXCEPT !.terms = s, !.aggregates = a, !.groups = g] :
     s \in MCTerms, a \in {{}, {"single"}}, g \in {<< >>, <<{"star"}>>}}

MCFunctions == [fn : {"range", "input"}, arg : {"null", "range", "resolution"}]
  \cup {[fn |-> "instant", arg |-> "null"], [fn |-> "instant", arg |-> "value"],
        [fn |-> "range", arg |-> "bad"], [fn |-> "unknown", arg |-> "value"]}

Bound == [column |-> "timestamp", op |-> "_gt", value |-> <<2>>, ok |-> TRUE]
Above == [column |-> "value", op |-> "_gt", value |-> <<1>>, ok |-> TRUE]

FunctionRequests ==
  {[Plain EXCEPT !.kind = k, !.fns = f, !.offset = o, !.terms = s] :
     k \in {"metric", "counter"}, f \in UpTo(MCFunctions, 3), o \in {0, 3},
     s \in {<<Bound, Above>>}}

OtherRequests ==
  {[Plain EXCEPT !.kind = k, !.limited = b, !.terms = s, !.flaws = w, !.offset = o,
                 !.quantile = q, !.labels = l, !.aggregates = a, !.groups = g] :
     k \in Kinds, b \in BOOLEAN, s \in {<<Bound>>, <<Above>>},
     w \in {{}, {"argument"}, {"flat"}}, o \in {0, 3}, q \in BOOLEAN,
     l \in {<< >>, <<"condition", "empty", "error">>, <<"error", "empty">>},
     a \in {{}, {"column", "star"}, {"unsupported"}},
     g \in {<< >>, <<{}>>, <<{"single", "star"}>>, <<{"unsupported"}>>}}

MCRequests == PredicateRequests \cup FunctionRequests \cup OtherRequests
=============================================================================
