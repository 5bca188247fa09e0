--------------------------- MODULE MCIntrospection ---------------------------
(* Small instances of Introspection: a metric foo, the name foo_count that *)
(* a histogram foo would export, and the name foo_rate that exclude hits   *)
(* and that PromptQL gives to a collection of a counter foo.               *)
EXTENDS Introspection, TLC

CONSTANTS foo, foo_count, foo_rate

MCDerived   == (foo :> {foo_count}) @@ (foo_count :> {}) @@ (foo_rate :> {})
MCRanges    == (foo :> {foo_rate}) @@ (foo_count :> {}) @@ (foo_rate :> {})
MCQuantiles == (foo :> {}) @@ (foo_count :> {}) @@ (foo_rate :> {})

Lists(f, c, r) == (foo :> f) @@ (foo_count :> c) @@ (foo_rate :> r)

MCInfoLists == Lists({<< >>, <<"histogram">>, <<"summary", "gauge", "counter">>},
                     {<< >>, <<"counter">>}, {<<"gauge">>})

Conf(b, m, n) == [tag |-> "config",
                  conf |-> [behavior |-> b, enabled |-> TRUE, metrics |-> m,
                            native |-> n, promptql |-> FALSE]]

(* Files the connector starts on. *)
MCFiles ==
  {[tag |-> "absent"],
   Conf("merge", << >>, {}),
   Conf("merge", (foo_count :> "counter") @@ (foo_rate :> "summary"), {}),
   Conf("merge", (foo_rate :> "gauge"), {foo}),
   Conf("replace", (foo :> "gaugehistogram"), {}),
   [Conf("replace", (foo :> "gauge"), {}) EXCEPT !.conf.enabled = FALSE]}

(* And one on which it starts or not as the walk of the metrics goes. *)
MCPromptQLFiles ==
  {[Conf("merge", (foo :> "counter") @@ (foo_rate :> "gauge"), {foo_count})
      EXCEPT !.conf.promptql = TRUE]}

MCFilesAll == MCFiles \cup MCPromptQLFiles

(* foo_count is in the file alone, while a histogram foo may be reported.  *)
MCHistogramReports == Lists({<< >>, <<"histogram">>}, {<< >>}, {<< >>, <<"counter">>})
=============================================================================
