---------------------------- MODULE Placeholders ----------------------------
(***************************************************************************)
(* The text of one native query through runs of the update command         *)
(* (validateNativeQueries in configuration/update.go): the placeholders    *)
(* $name and ${name} are found, the query is tried out on Prometheus with  *)
(* values in their place, and every placeholder is rewritten to ${name},   *)
(* one argument after the other in the order of a map walk.  The connector *)
(* then looks for ${name} only (connector/metadata/native_operation.go).   *)
(*                                                                         *)
(* A text is a sequence of symbols.  A name is a run of pieces, so that    *)
(* names can extend each other; all other text is one symbol.              *)
(***************************************************************************)
EXTENDS Naturals, FiniteSets, SequencesExt

CONSTANTS
  Pieces,    (* what names are made of                                     *)
  Short,     (* the pieces that are one character                          *)
  Quote,
  Other,     (* symbols that no pattern mentions                           *)
  Queries    (* the native queries of the file: [text, arguments]          *)

Symbols == Pieces \cup Other \cup {"$", "{", "}", "[", "]", Quote}

Text  == Seq(Symbols)
Names == Seq(Pieces) \ {<< >>}

Filled   == {"Int64", "Float64", "String", "Duration", ""}
ArgTypes == Filled \cup {"invalid"}

HasTypes(args) ==
  /\ DOMAIN args \subseteq Names
  /\ \A n \in DOMAIN args : args[n] \in ArgTypes

IsQuery(q) == q.text \in Text /\ HasTypes(q.arguments)

ASSUME PlaceholdersAssumption ==
  /\ Short \subseteq Pieces
  /\ \A x \in {"$", "{", "}", "[", "]", Quote} : x \notin Pieces \cup Other
  /\ Quote \notin {"$", "{", "}", "[", "]"}
  /\ Pieces \cap Other = {}
  /\ \A q \in Queries : IsQuery(q)

VARIABLES
  file,       (* the query as the configuration file holds it              *)
  stage,      (* "idle", "find", "validate", "format"                      *)
  text,       (* the query as this run has changed it                      *)
  arguments,  (* the arguments this run has found: name -> type            *)
  todo,       (* the keys the walk of formatNativeQueryVariables has left  *)
  written,    (* a run has written the file                                *)
  asked       (* history: the query as the user wrote it                   *)

vars == <<file, stage, text, arguments, todo, written, asked>>
-----------------------------------------------------------------------------
At(t, i, x) == i \in DOMAIN t /\ t[i] = x

(* The end of an optional brace at i, and of the run of pieces after it. *)
Opened(t, i) == IF At(t, i, "{") THEN i + 1 ELSE i

RunEnd(t, i) ==
  CHOOSE j \in i .. Len(t) + 1 :
    /\ \A m \in i .. j - 1 : t[m] \in Pieces
    /\ j = Len(t) + 1 \/ t[j] \notin Pieces

(* The name after the $ at i, if there is one, and where it begins. *)
NameAt(t, i) == SubSeq(t, Opened(t, i + 1), RunEnd(t, Opened(t, i + 1)) - 1)

Closed(t, i) == IF At(t, i, "}") THEN i + 1 ELSE i

(* Where a match of \$\{?name\}? ends, with the name at its place. *)
MatchEnd(t, i, name) == Closed(t, Opened(t, i + 1) + Len(name))

(* A name has two characters or more: [a-zA-Z_]\w+ *)
IsLong(name) == Len(name) > 1 \/ (Len(name) = 1 /\ name[1] \notin Short)

(* The matches of nativeQueryVariableRegex, each by the place of its $.    *)
(* A match holds one $, so matches do not overlap.                         *)
Matches(t) == {i \in DOMAIN t : t[i] = "$" /\ IsLong(NameAt(t, i))}

NamesOf(t) == {NameAt(t, i) : i \in Matches(t)}

End(t, i) == MatchEnd(t, i, NameAt(t, i))

(* The range or the string a placeholder begins must end after it. *)
Unbalanced(t, i) ==
  \/ At(t, i - 1, "[") /\ ~At(t, End(t, i), "]")
  \/ At(t, i - 1, Quote) /\ ~At(t, End(t, i), Quote)

Declared(q, n) ==
  IF n \in DOMAIN q.arguments /\ q.arguments[n] # "" THEN q.arguments[n] ELSE "String"

TypeAtDeclaredFirst(q, i) ==
  IF NameAt(q.text, i) \in DOMAIN q.arguments /\ q.arguments[NameAt(q.text, i)] # ""
  THEN q.arguments[NameAt(q.text, i)]
  ELSE IF At(q.text, i - 1, "[") THEN "Duration" ELSE "String"

(* evalMatchedNativeQuery *)
TypeAt(q, i) ==
  IF At(q.text, i - 1, "[") THEN "Duration"
  ELSE IF At(q.text, i - 1, Quote) THEN "String"
  ELSE Declared(q, NameAt(q.text, i))

(* result[name] = ...: the last match of a name decides. *)
LastMatch(t, n) ==
  CHOOSE i \in Matches(t) :
    NameAt(t, i) = n /\ \A j \in Matches(t) : NameAt(t, j) = n => j <= i

(* t with the stretch from i to just before end[i] replaced by with[i], for *)
(* each place i of end.                                                    *)
Parts(t, end, with) ==
  [p \in DOMAIN t |->
     IF p \in DOMAIN end THEN with[p]
     ELSE IF \E i \in DOMAIN end : i < p /\ p < end[i] THEN << >>
     ELSE <<t[p]>>]

Replaced(t, end, with) == FlattenSeq(Parts(t, end, with))

Braced(name) == <<"$", "{">> \o name \o <<"}">>

(* promQLVariableRegex \${(\w+)}: what the connector takes for a variable, *)
(* and replaces (ReplaceNativeQueryVariable).                              *)
IsVariable(t, i) ==
  /\ t[i] = "$"
  /\ At(t, i + 1, "{")
  /\ NameAt(t, i) # << >>
  /\ At(t, RunEnd(t, i + 2), "}")

Variables(t) == {NameAt(t, i) : i \in {j \in DOMAIN t : IsVariable(t, j)}}

Quoted(t, i) == Cardinality({j \in 1 .. i - 1 : t[j] = Quote}) % 2 = 1

(* What is left of the placeholders when ${name} of every argument is      *)
(* filled with 1 or 1m: PromQL has no $ outside its strings.               *)
HasSyntax(t, args) ==
  \A i \in DOMAIN t : t[i] = "$" /\ ~Quoted(t, i) =>
    IsVariable(t, i) /\ NameAt(t, i) \in DOMAIN args
-----------------------------------------------------------------------------
Init ==
  /\ asked \in Queries
  /\ file = asked
  /\ stage = "idle"
  /\ text = << >>
  /\ arguments = << >>
  /\ todo = {}
  /\ written = FALSE

NoMemory == text' = << >> /\ arguments' = << >> /\ todo' = {}

Start ==
  /\ stage = "idle"
  /\ stage' = "find"
  /\ text' = file.text
  /\ UNCHANGED <<file, arguments, todo, written, asked>>

(* The command returns an error and leaves the file as it is. *)
Fails ==
  /\ stage' = "idle"
  /\ NoMemory
  /\ UNCHANGED <<file, written, asked>>

(* findNativeQueryVariables *)
FindFails ==
  /\ stage = "find"
  /\ \E i \in Matches(text) : Unbalanced(text, i)
  /\ Fails

Find ==
  /\ stage = "find"
  /\ \A i \in Matches(text) : ~Unbalanced(text, i)
  /\ arguments' = [n \in NamesOf(text) |-> TypeAt(file, LastMatch(text, n))]
  /\ stage' = "validate"
  /\ UNCHANGED <<file, text, todo, written, asked>>

(* An argument of another type, a query Prometheus does not accept, or a   *)
(* Prometheus that does not answer.                                        *)
ValidateFails ==
  /\ stage = "validate"
  /\ Fails

Validate ==
  /\ stage = "validate"
  /\ \A n \in DOMAIN arguments : arguments[n] \in Filled
  /\ HasSyntax(text, arguments)
  /\ stage' = "format"
  /\ todo' = DOMAIN arguments
  /\ UNCHANGED <<file, text, arguments, written, asked>>

(* The places where \$\{?key\}? matches, inside longer names as well. *)
KeyMatches(key) ==
  {i \in DOMAIN text : text[i] = "$" /\
     LET b == Opened(text, i + 1) IN
     b + Len(key) <= Len(text) + 1 /\ SubSeq(text, b, b + Len(key) - 1) = key}

FormatLeavingBrace(key) ==
  /\ stage = "format"
  /\ key \in todo
  /\ todo' = todo \ {key}
  /\ text' = Replaced(text, [i \in KeyMatches(key) |-> Opened(text, i + 1) + Len(key)],
                            [i \in KeyMatches(key) |-> Braced(key)])
  /\ UNCHANGED <<file, stage, arguments, written, asked>>

(* formatNativeQueryVariables, one key of the map. *)
Format(key) ==
  /\ stage = "format"
  /\ key \in todo
  /\ todo' = todo \ {key}
  /\ text' = Replaced(text, [i \in KeyMatches(key) |-> MatchEnd(text, i, key)],
                            [i \in KeyMatches(key) |-> Braced(key)])
  /\ UNCHANGED <<file, stage, arguments, written, asked>>

(* newNativeQueries[key] = nativeQuery, which the command writes at its end. *)
Write ==
  /\ stage = "format"
  /\ todo = {}
  /\ file' = [text |-> text, arguments |-> arguments]
  /\ written' = TRUE
  /\ stage' = "idle"
  /\ NoMemory
  /\ UNCHANGED asked

Next ==
  \/ Start \/ FindFails \/ Find \/ ValidateFails \/ Validate \/ Write
  \/ \E key \in todo : Format(key)

Spec == Init /\ [][Next]_vars
-----------------------------------------------------------------------------
(* The placeholders at some places rewritten, or all of them at once, as   *)
(* the patterns of the command match them.                                 *)
RewrittenAt(t, places) ==
  Replaced(t, [i \in places |-> End(t, i)], [i \in places |-> Braced(NameAt(t, i))])

Rewritten(t) == RewrittenAt(t, Matches(t))

(* A placeholder as a user writes it, $name or ${name}, ends with its name *)
(* or with the brace that closes the one after its $; any other brace is   *)
(* text of the query.                                                      *)
IsOpened(t, i) == At(t, i + 1, "{")

AfterName(t, i) == RunEnd(t, IF IsOpened(t, i) THEN i + 2 ELSE i + 1)

Replacement(t) ==
  Replaced(t, [i \in Matches(t) |-> IF IsOpened(t, i) THEN AfterName(t, i) + 1
                                    ELSE AfterName(t, i)],
              [i \in Matches(t) |-> Braced(NameAt(t, i))])

(* Every placeholder has both braces or none: no brace is left open, and   *)
(* none follows a bare name.                                               *)
Paired(t) == \A i \in Matches(t) : IsOpened(t, i) <=> At(t, AfterName(t, i), "}")

(* No name begins another one. *)
Apart(t) == \A n, m \in NamesOf(t) : ~IsStrictPrefix(n, m)

FileIs(t) == file.text = IF written THEN t ELSE asked.text

(* In whatever order the arguments are rewritten, and however often the    *)
(* command runs on its own output, the file holds the query the user wrote *)
(* with every placeholder rewritten to ${name} once, and all other text    *)
(* kept, if no name begins another one and no bare name is followed by a   *)
(* brace (formatNativeQueryVariables).                                     *)
RewrittenAtOnce ==
  Apart(asked.text) /\ Paired(asked.text) => FileIs(Replacement(asked.text))

(* The types a file the command wrote may give argument n, by where the    *)
(* user's query has it.                                                    *)
TypesMeant(n) ==
  {IF At(asked.text, i - 1, "[") THEN "Duration"
   ELSE IF At(asked.text, i - 1, Quote) THEN "String" ELSE Declared(asked, n) :
     i \in {j \in Matches(asked.text) : NameAt(asked.text, j) = n}}

(* The variables of two characters or more that the connector finds in a   *)
(* written query are the arguments the file declares, so that a request    *)
(* with all arguments never fails for an unresolved one                    *)
(* (native_query.go:42); and after any number of runs each argument has a  *)
(* type that a place of it in the user's query asks for.                   *)
ArgumentsServed ==
  /\ written /\ Apart(asked.text) =>
       /\ {n \in Variables(file.text) : IsLong(n)} = DOMAIN file.arguments
       /\ \A n \in DOMAIN file.arguments : file.arguments[n] \in TypesMeant(n)

TypeOK ==
  /\ asked \in Queries
  /\ IsQuery(file)
  /\ stage \in {"idle", "find", "validate", "format"}
  /\ text \in Text
  /\ HasTypes(arguments)
  /\ todo \subseteq DOMAIN arguments
  /\ written \in BOOLEAN

(* The placeholders that the text of a run has rewritten. *)
Done ==
  {i \in Matches(asked.text) :
     written \/ (stage = "format" /\ NameAt(asked.text, i) \notin todo)}

FileHeld == FileIs(Rewritten(asked.text))

TextHeld ==
  stage # "idle" => text = RewrittenAt(asked.text, Done)

ArgumentsMeant(args) ==
  /\ DOMAIN args = NamesOf(asked.text)
  /\ \A n \in DOMAIN args : args[n] \in TypesMeant(n)

ArgumentsHeld ==
  /\ stage \in {"validate", "format"} => ArgumentsMeant(arguments)
  /\ written => ArgumentsMeant(file.arguments)
  /\ ~written => file = asked

(* The inductive invariant: the text is at every step of every run the     *)
(* user's, with the placeholders of the keys rewritten that the walk has   *)
(* reached, or all of them if an earlier run wrote the file.               *)
IInv ==
  /\ TypeOK
  /\ stage \in {"idle", "find"} => todo = {}
  /\ Apart(asked.text) => FileHeld /\ TextHeld /\ ArgumentsHeld
=============================================================================
