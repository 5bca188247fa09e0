--------------------------- MODULE LabelExpression ---------------------------
(***************************************************************************)
(* LabelExpressionBuilder.Evaluate (connector/internal/expression_label.go)*)
(* turns the comparisons that one query makes on one label, joined by      *)
(* "and", into a single PromQL label matcher.  It keeps a list of values   *)
(* to include and a set of values to exclude, narrows the list at each     *)
(* comparison, and takes the excluded values off it at the end; a map is   *)
(* walked there, so the order is not determined.                           *)
(*                                                                         *)
(* Texts are values and regular expressions alike.  Full says what label   *)
(* values a text selects as a regular expression in Prometheus, which      *)
(* anchors it, and Part what texts regexp.MatchString finds it in.         *)
(***************************************************************************)
EXTENDS Naturals, Sequences, FiniteSets, Functions, SequencesExt

CONSTANTS
  LabelValues,  (* the values the label has in the stored series           *)
  Texts,        (* the values and patterns a comparison may carry          *)
  Full,         (* Full[t]: the label values =~"t" selects                 *)
  Part,         (* Part[t]: the texts that pattern t is found in           *)
  Invalid,      (* texts that are no regular expression                    *)
  Wrapped,      (* Wrapped[op][t]: the pattern _contains, ... make of t    *)
  Comparisons,  (* the comparisons a request may make                      *)
  MaxLength     (* bound: the number of comparisons of one request         *)

ListOps    == {"_in", "_nin"}
WrapOps    == DOMAIN Wrapped
IncludeOps == {"_eq", "_regex", "_in"} \cup WrapOps
ScalarOps  == {"_eq", "_regex", "_neq", "_nregex"} \cup WrapOps

(* The value of a comparison: null, not decodable or a missing variable,   *)
(* or given, with one text for a scalar operator.                          *)
Values == [kind : {"null", "bad", "given"}, texts : Seq(Texts)]

ASSUME LabelAssumption ==
  /\ LabelValues \subseteq Texts
  /\ Full \in [Texts -> SUBSET LabelValues]
  /\ Part \in [Texts -> SUBSET Texts]
  /\ Invalid \subseteq Texts
  /\ WrapOps \subseteq {"_contains", "_icontains", "_starts_with", "_istarts_with",
                       "_ends_with", "_iends_with"}
  /\ Wrapped \in [WrapOps -> [Texts -> Texts]]
  /\ Comparisons \subseteq [op : ListOps \cup ScalarOps, value : Values]
  /\ \A c \in Comparisons :
       c.op \in ScalarOps /\ c.value.kind = "given" => Len(c.value.texts) = 1
  /\ MaxLength \in Nat

Fields == [text : Texts, isRegex : BOOLEAN]

VARIABLES
  exprs,     (* le.Expressions                                              *)
  at,        (* the comparison, then the included value, looked at next     *)
  includes,  (* le.includes                                                 *)
  excludes,  (* the keys of le.excludes; a regex one has a compiled pattern *)
  kept,      (* the included values that no excluded one removed            *)
  status,    (* "compare", "combine", or the outcome: "matcher", "all",     *)
             (* "empty" or "error"                                          *)
  rest       (* "empty" came from the check at the end of Evaluate          *)

vars == <<exprs, at, includes, excludes, kept, status, rest>>

Field(t, regex) == [text |-> t, isRegex |-> regex]

Pattern(c) ==
  IF c.op \in WrapOps THEN Wrapped[c.op][c.value.texts[1]] ELSE c.value.texts[1]

IsRegexOp(op) == op \notin {"_eq", "_in"}
-----------------------------------------------------------------------------
Init ==
  /\ exprs \in SeqOf(Comparisons, MaxLength)
  /\ at = 1
  /\ includes = << >>
  /\ excludes = {}
  /\ kept = << >>
  /\ status = IF exprs = << >> THEN "all" ELSE "compare"
  /\ rest = FALSE

Stop(outcome) ==
  /\ status' = outcome
  /\ UNCHANGED <<exprs, at, includes, excludes, kept, rest>>

Continue == at' = at + 1 /\ UNCHANGED <<exprs, kept, status, rest>>

Current == exprs[at]
Comparing(ops, kind) ==
  status = "compare" /\ at <= Len(exprs) /\ Current.op \in ops /\ Current.value.kind = kind

BadValue == Comparing(ListOps \cup ScalarOps, "bad") /\ Stop("error")

(* A null value constrains nothing. *)
NullValue ==
  /\ Comparing(ListOps \cup ScalarOps, "null")
  /\ Continue
  /\ UNCHANGED <<includes, excludes>>

(* What an included value becomes under another equality or pattern: a     *)
(* pattern is tried on the text of the value, be it a pattern itself.      *)
Survives(inc, t, regex) == inc.text = t \/ (regex /\ inc.text \in Part[t])
Narrowed(inc, t, regex) ==
  IF inc.text = t THEN Field(t, inc.isRegex /\ regex) ELSE inc

(* The ways to write a set of positions in increasing order: there is one. *)
Orders(S) ==
  {order \in [1 .. Cardinality(S) -> S] :
     Range(order) = S /\ \A m, n \in DOMAIN order : m < n => order[m] < order[n]}

(* evalLabelComparisonRegex: the values that survive, in their order. *)
IncludeOne ==
  /\ Comparing({"_eq", "_regex"} \cup WrapOps, "given")
  /\ LET t       == Pattern(Current)
         regex   == IsRegexOp(Current.op)
         picked  == {i \in DOMAIN includes : Survives(includes[i], t, regex)}
         compile == regex /\ \E i \in DOMAIN includes : includes[i].text # t
     IN \/ /\ includes = << >>
           /\ includes' = <<Field(t, regex)>>
           /\ Continue
           /\ UNCHANGED excludes
        \/ /\ includes # << >>
           /\ compile /\ t \in Invalid
           /\ Stop("error")
        \/ /\ includes # << >>
           /\ ~(compile /\ t \in Invalid)
           /\ picked = {}
           /\ Stop("empty")
        \/ /\ ~(compile /\ t \in Invalid)
           /\ picked # {}
           /\ \E order \in Orders(picked) :
                includes' = [n \in DOMAIN order |-> Narrowed(includes[order[n]], t, regex)]
           /\ Continue
           /\ UNCHANGED excludes

(* The list of a comparison, as values to include. *)
Listed == [i \in DOMAIN Current.value.texts |-> Field(Current.value.texts[i], FALSE)]

IncludeInInstead ==
  /\ Comparing({"_in"}, "given")
  /\ IF Listed = << >> THEN Stop("empty")
     ELSE includes' = Listed /\ Continue /\ UNCHANGED excludes

(* evalLabelComparisonIn: the values as they are; a second list keeps the  *)
(* fields that are in both.                                                *)
IncludeIn ==
  /\ Comparing({"_in"}, "given")
  /\ LET both == {i \in DOMAIN includes : includes[i] \in Range(Listed)} IN
     IF Listed = << >> \/ (includes # << >> /\ both = {})
     THEN Stop("empty")
     ELSE /\ IF includes = << >> THEN includes' = Listed
             ELSE \E order \in Orders(both) :
                    includes' = [n \in DOMAIN order |-> includes[order[n]]]
          /\ Continue
          /\ UNCHANGED excludes

(* evalLabelComparisonNotMatch. *)
ExcludeOne ==
  /\ Comparing({"_neq", "_nregex"}, "given")
  /\ IF Current.op = "_nregex" /\ Pattern(Current) \in Invalid
     THEN Stop("error")
     ELSE /\ excludes' = excludes \cup {Field(Pattern(Current), Current.op = "_nregex")}
          /\ Continue
          /\ UNCHANGED includes

ExcludeInInstead ==
  /\ Comparing({"_nin"}, "given")
  /\ excludes' = {Field(t, FALSE) : t \in Range(Current.value.texts)}
  /\ Continue
  /\ UNCHANGED includes

(* evalLabelComparisonNotIn. *)
ExcludeIn ==
  /\ Comparing({"_nin"}, "given")
  /\ excludes' = excludes \cup {Field(t, FALSE) : t \in Range(Current.value.texts)}
  /\ Continue
  /\ UNCHANGED includes

ComparisonsDone ==
  /\ status = "compare"
  /\ at > Len(exprs)
  /\ status' = "combine"
  /\ at' = 1
  /\ UNCHANGED <<exprs, includes, excludes, kept, rest>>

Hits(exc, inc) ==
  IF exc.isRegex THEN inc.text \in Part[exc.text] ELSE inc.text = exc.text

ExcludeKeeping ==
  /\ status = "combine"
  /\ at <= Len(includes)
  /\ \E exc \in excludes :
       /\ Hits(exc, includes[at])
       /\ excludes' = excludes \ {exc}
  /\ kept' = Append(kept, includes[at])
  /\ at' = at + 1
  /\ UNCHANGED <<exprs, includes, status, rest>>

(* excludeField of the next included value: any excluded value that hits   *)
(* it, the first one the map walk meets, removes it and is deleted.        *)
Exclude ==
  /\ status = "combine"
  /\ at <= Len(includes)
  /\ \E exc \in excludes :
       /\ Hits(exc, includes[at])
       /\ excludes' = excludes \ {exc}
  /\ at' = at + 1
  /\ UNCHANGED <<exprs, includes, kept, status, rest>>

Keep ==
  /\ status = "combine"
  /\ at <= Len(includes)
  /\ \A exc \in excludes : ~Hits(exc, includes[at])
  /\ kept' = Append(kept, includes[at])
  /\ at' = at + 1
  /\ UNCHANGED <<exprs, includes, excludes, status, rest>>

FinishUnlessExcluding ==
  /\ status = "combine"
  /\ at > Len(includes)
  /\ LET nothing == kept = << >> /\ excludes = {} IN
     /\ status' = IF nothing THEN "empty" ELSE "matcher"
     /\ rest' = nothing
  /\ UNCHANGED <<exprs, at, includes, excludes, kept>>

Finish ==
  /\ status = "combine"
  /\ at > Len(includes)
  /\ LET nothing == kept = << >> /\ (includes # << >> \/ excludes = {}) IN
     /\ status' = IF nothing THEN "empty" ELSE "matcher"
     /\ rest' = nothing
  /\ UNCHANGED <<exprs, at, includes, excludes, kept>>

Done == status \in {"matcher", "all", "empty", "error"} /\ UNCHANGED vars

Next ==
  \/ BadValue \/ NullValue \/ IncludeOne \/ IncludeIn \/ ExcludeOne \/ ExcludeIn
  \/ ComparisonsDone \/ Exclude \/ Keep \/ Finish \/ Done

Spec == Init /\ [][Next]_vars
-----------------------------------------------------------------------------
TypeOK ==
  /\ exprs \in Seq(Comparisons)
  /\ at \in Nat \ {0}
  /\ includes \in Seq(Fields)
  /\ excludes \subseteq Fields
  /\ kept \in Seq(Fields)
  /\ status \in {"compare", "combine", "matcher", "all", "empty", "error"}
  /\ rest \in BOOLEAN

(* One value and no pattern makes = or !=, otherwise the texts are joined  *)
(* by | in a =~ or !~.                                                     *)
MatchedBy(fields) ==
  IF \E f \in fields : fields = {f} /\ ~f.isRegex
  THEN {f.text : f \in fields} \cap LabelValues
  ELSE UNION {Full[f.text] : f \in fields}

(* What the finished expression selects. *)
Selected ==
  IF status = "all" THEN LabelValues
  ELSE IF status = "empty" THEN {}
  ELSE IF kept = << >> THEN LabelValues \ MatchedBy(excludes)
  ELSE IF Len(kept) = 1 THEN MatchedBy({kept[1]})
  ELSE UNION {Full[f.text] : f \in Range(kept)}

(* What one comparison selects by itself, as a matcher of its own. *)
Means(c) ==
  LET given == Range(c.value.texts) IN
  IF c.value.kind # "given" THEN LabelValues
  ELSE IF c.op \in {"_eq", "_in"} THEN given \cap LabelValues
  ELSE IF c.op \in {"_neq", "_nin"} THEN LabelValues \ given
  ELSE IF c.op = "_nregex" THEN LabelValues \ Full[Pattern(c)]
  ELSE Full[Pattern(c)]

Meant == {v \in LabelValues : \A i \in DOMAIN exprs : v \in Means(exprs[i])}

Finished == status \in {"matcher", "all", "empty"}

(* Texts that select themselves only, when they are joined into a pattern. *)
Plain(c) == \A i \in DOMAIN c.value.texts : Full[c.value.texts[i]] = {c.value.texts[i]}
Distinct(c) == \A i, j \in DOMAIN c.value.texts :
                 c.value.texts[i] = c.value.texts[j] => i = j
Constrains(c) == c.value.kind = "given" /\ c.value.texts # << >>

(* Equalities, inequalities and lists of plain, distinct values, in any    *)
(* number and order, select exactly the values that satisfy all of them,   *)
(* whatever order the map of excluded values is walked in.                 *)
LiteralExact ==
  /\ Finished
  /\ \A i \in DOMAIN exprs : /\ exprs[i].op \in {"_eq", "_in", "_neq", "_nin"}
                             /\ Plain(exprs[i]) /\ Distinct(exprs[i])
  /\ exprs # << >> => \E i \in DOMAIN exprs : Constrains(exprs[i])
  => Selected = Meant

(* Exclusions alone, patterns among them, select exactly what they leave:  *)
(* they can be joined into one pattern because Prometheus anchors it.      *)
ExclusionsExact ==
  /\ Finished
  /\ \A i \in DOMAIN exprs : /\ exprs[i].op \in {"_neq", "_nin", "_nregex"}
                             /\ exprs[i].op # "_nregex" => Plain(exprs[i])
  /\ exprs # << >> => \E i \in DOMAIN exprs : Constrains(exprs[i])
  => Selected = Meant

(* An equality or a list of plain values binds wherever it stands among    *)
(* the comparisons (a permission's filter on job, say): no pattern or      *)
(* exclusion before or after it lets another value through.                *)
EqualityBinds ==
  Finished =>
    \A i \in DOMAIN exprs :
      exprs[i].op \in {"_eq", "_in"} /\ Plain(exprs[i]) =>
        Selected \subseteq Means(exprs[i])

(* "if the label equals A or B but not C => equals A or B": what is left   *)
(* of the included values needs no exclusion any more.                     *)
ExclusionsHold ==
  status = "matcher" /\ kept # << >> =>
    \A i \in DOMAIN exprs :
      exprs[i].op \in {"_neq", "_nin", "_nregex"} => Selected \subseteq Means(exprs[i])
-----------------------------------------------------------------------------
(* The inductive invariant: what the two lists hold of the comparisons     *)
(* looked at so far, and what the walk at the end has left of them.        *)
Going == status \in {"compare", "combine", "matcher"} \/ rest

Passed == {i \in DOMAIN exprs : status = "compare" => i < at}

Includes(c) == c.op \in IncludeOps /\ c.value.kind = "given"
Literally(c) == c.op \in {"_eq", "_in"} /\ c.value.kind = "given"

Excluded(c) ==
  IF c.value.kind # "given" THEN {}
  ELSE IF c.op = "_nregex" THEN {Field(Pattern(c), TRUE)}
  ELSE IF c.op \in {"_neq", "_nin"} THEN {Field(t, FALSE) : t \in Range(c.value.texts)}
  ELSE {}

AllExcluded == UNION {Excluded(exprs[i]) : i \in Passed}

IncludesHeld ==
  Going =>
    /\ includes = << >> <=> \A i \in Passed : ~Includes(exprs[i])
    /\ \A i \in Passed : Literally(exprs[i]) =>
         \A n \in DOMAIN includes : includes[n].text \in Range(exprs[i].value.texts)

ExcludesHeld ==
  Going /\ (status = "compare" \/ includes = << >>) => excludes = AllExcluded

KeptHeld ==
  /\ Range(kept) \subseteq Range(includes)
  /\ status = "compare" => kept = << >>
  /\ status = "matcher" => kept # << >> \/ (includes = << >> /\ excludes # {})
  /\ rest => status = "empty" /\ kept = << >> /\ (includes # << >> \/ excludes = {})

(* The requests of LiteralExact. *)
LiteralRequest ==
  \A i \in DOMAIN exprs : /\ exprs[i].op \in {"_eq", "_in", "_neq", "_nin"}
                          /\ Plain(exprs[i]) /\ Distinct(exprs[i])

Looked == {n \in DOMAIN includes : status = "combine" => n < at}

ListHeld ==
  LiteralRequest /\ Going =>
    /\ \A n \in DOMAIN includes : ~includes[n].isRegex
    /\ \A m, n \in DOMAIN includes : includes[m] = includes[n] => m = n
    /\ includes # << >> => \A t \in Texts :
         (\A i \in Passed : Literally(exprs[i]) => t \in Range(exprs[i].value.texts)) =>
           Field(t, FALSE) \in Range(includes)

WalkHeld ==
  LiteralRequest /\ Going /\ status # "compare" =>
    /\ excludes = AllExcluded \ {includes[n] : n \in Looked}
    /\ Range(kept) = {includes[n] : n \in Looked} \ AllExcluded

EmptyHeld ==
  status = "empty" /\ ~rest =>
    /\ \E i \in DOMAIN exprs : Includes(exprs[i])
    /\ LiteralRequest => Meant = {}

IInv ==
  /\ TypeOK
  /\ status = "all" <=> exprs = << >>
  /\ status = "compare" => at <= Len(exprs) + 1
  /\ status = "combine" => at <= Len(includes) + 1
  /\ status = "matcher" \/ rest => at > Len(includes)
  /\ IncludesHeld /\ ExcludesHeld /\ KeptHeld /\ ListHeld /\ WalkHeld /\ EmptyHeld
=============================================================================
