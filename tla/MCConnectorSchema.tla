------------------------- MODULE MCConnectorSchema -------------------------
(* Small instances of ConnectorSchema: up to three metrics whose names     *)
(* extend each other, one of them with a colon, and up to two native       *)
(* queries.                                                                *)
EXTENDS ConnectorSchema

Lat   == <<"lat">>
Part(p) == Append(Lat, p)
JobLat  == <<"job", "lat">>
ColonLat == <<"job:lat">>

MCWords == {"lat", "job", "job:lat", "promql", "query", "api", "quantile", "functions"}
             \cup Parts \cup RangeFns

MCApi == <<"api", "query">>

MCApiFunctions == {MCApi}
MCDefaultTypes == {<<"api">>}
MCFunctionTypes == {JobLat}

(* The words of a type name: a colon separates words, too. *)
MCTypeName(k) == FlattenSeq([i \in DOMAIN k |->
                   IF k[i] = "job:lat" THEN JobLat ELSE <<k[i]>>])

MCResult(t) == Append(t, "Result")

MCInputs(t) ==
  {Append(t, "functions"), t \o <<"label", "join", "input">>,
   t \o <<"label", "replace", "input">>}

M(t, l) == [type |-> t, labels |-> l]

MCMetrics ==
  {<<Lat, M("histogram", <<{"a"}>>)>>, <<Lat, M("histogram", << >>)>>,
   <<Lat, M("gauge", <<{"a"}>>)>>, <<Lat, M("counter", <<{"b"}>>)>>,
   <<Part("sum"), M("counter", <<{"b"}>>)>>, <<Part("count"), M("gauge", <<{"b"}>>)>>,
   <<Part("functions"), M("gauge", <<{"b"}>>)>>,
   <<Part("rate"), M("gauge", << >>)>>, <<Part("quantile"), M("counter", <<{}>>)>>,
   <<JobLat, M("histogram", <<{"b"}>>)>>, <<ColonLat, M("histogram", <<{"a", "le"}>>)>>,
   <<PromQLQuery, M("gauge", <<{"a"}>>)>>, <<MCApi, M("counter", <<{"a"}>>)>>}

N(l, r, t) == [labels |-> l, reserved |-> r, typed |-> t]

MCNatives ==
  {<<Lat, N({"a"}, FALSE, TRUE)>>, <<JobLat, N({"b"}, FALSE, TRUE)>>,
   <<ColonLat, N({"a"}, FALSE, TRUE)>>, <<ColonLat, N({"a"}, TRUE, TRUE)>>,
   <<Part("functions"), N({"b"}, FALSE, TRUE)>>,
   <<Part("irate"), N({}, FALSE, TRUE)>>, <<Part("job"), N({}, FALSE, FALSE)>>,
   <<MCApi, N({"b"}, FALSE, TRUE)>>, <<PromQLQuery, N({}, FALSE, TRUE)>>,
   <<<<"api">>, N({"b"}, FALSE, TRUE)>>}

(* The maps with entries of E, at most n of them. *)
Maps(E, n) ==
  {[k \in {e[1] : e \in S} |-> (CHOOSE e \in S : e[1] = k)[2]] :
     S \in {{}} \cup {{d} : d \in E} \cup (IF n > 1 THEN {{d, e} : d, e \in E} ELSE {})
             \cup (IF n > 2 THEN {{d, e, f} : d, e, f \in E} ELSE {})}

MCConfigs ==
  [metrics : Maps(MCMetrics, 2), native : Maps(MCNatives, 1), promptql : BOOLEAN]
    \cup [metrics : Maps(MCMetrics, 1), native : Maps(MCNatives, 2), promptql : BOOLEAN]
    \cup [metrics : Maps(MCMetrics, 3), native : {Nothing}, promptql : BOOLEAN]
=============================================================================
