--------------------------- MODULE MCPlaceholders ---------------------------
(* Native queries of up to three fragments, with the names job, jobs, rate *)
(* and s, some of whose arguments the file declares.                       *)
EXTENDS Placeholders, TLC

CONSTANTS job, rate, s, x

q == "quote"

Bare(n)   == <<"$">> \o n
InQuotes(t) == <<q>> \o t \o <<q>>
InRange(t)  == <<"[">> \o t \o <<"]">>

Fragments ==
  {<<x>>,
   Braced(<<job>>), Bare(<<job>>), InQuotes(Braced(<<job>>)), InQuotes(Bare(<<job>>)),
   InQuotes(Braced(<<job>>) \o <<s>>), <<"[">> \o Braced(<<job>>), InRange(Bare(<<job>>)),
   Braced(<<job, s>>), InQuotes(Bare(<<job, s>>)), InQuotes(Braced(<<s>>)),
   InRange(Braced(<<rate>>)), Braced(<<rate>>), InQuotes(<<x>> \o Bare(<<rate>>)),
   InQuotes(<<x, "$">>), InQuotes(<<x, "{">> \o Bare(<<rate>>) \o <<"}">>)}

Texts == {FlattenSeq(f) : f \in SeqOf(Fragments, 3)}

Declarations ==
  {<< >>, (<<job>> :> "Float64") @@ (<<rate>> :> ""),
   (<<rate>> :> "Int64") @@ (<<job, s>> :> "invalid")}

MCQueries == [text : Texts, arguments : Declarations]
=============================================================================
