-------------------------- MODULE MCLabelExpression --------------------------
(* Small instances of LabelExpression: three label values, a pattern that  *)
(* selects two of them, one that is found in a value without selecting it, *)
(* and one that is not a regular expression.                               *)
EXTENDS LabelExpression, TLC

MCLabelValues == {"a1", "a2", "b"}
MCTexts == MCLabelValues \cup {"a.*", "1", "(.*1.*)", "(", "(.*(.*)"}

MCFull ==
  [t \in MCTexts |->
     CASE t \in MCLabelValues -> {t}
       [] t = "a.*" -> {"a1", "a2"}
       [] t = "(.*1.*)" -> {"a1"}
       [] OTHER -> {}]

MCPart ==
  [t \in MCTexts |->
     CASE t = "a.*" -> {"a1", "a2", "a.*"}
       [] t \in {"1", "(.*1.*)"} -> {"a1", "1", "(.*1.*)"}
       [] OTHER -> {t}]

MCInvalid == {"(", "(.*(.*)"}

MCWrapped ==
  ("_contains" :> [t \in MCTexts |->
                     CASE t = "1" -> "(.*1.*)" [] t = "(" -> "(.*(.*)" [] OTHER -> t])

Given(op, ts) == [op |-> op, value |-> [kind |-> "given", texts |-> ts]]
NoValueFor(op, kind) == [op |-> op, value |-> [kind |-> kind, texts |-> << >>]]

Literal ==
  {Given(op, <<t>>) : op \in {"_eq", "_neq"}, t \in MCLabelValues} \cup
  {Given(op, ts) : op \in {"_in", "_nin"},
                   ts \in {<<"a1", "a2">>, <<"a2", "b">>, << >>}}

Patterns ==
  {Given("_regex", <<t>>) : t \in {"a.*", "1", "a1", "("}} \cup
  {Given("_nregex", <<t>>) : t \in {"a.*", "1", "("}} \cup
  {Given("_contains", <<t>>) : t \in {"1", "("}}

MCComparisons ==
  Literal \cup Patterns \cup
    {NoValueFor("_eq", "null"), NoValueFor("_nin", "bad"), Given("_in", <<"a1", "a1">>)}

(* Without patterns among the included values. *)
MCListAndPattern == {Given("_in", <<"a1", "a2">>), Given("_nregex", <<"a.*">>)} \cup Literal
=============================================================================
