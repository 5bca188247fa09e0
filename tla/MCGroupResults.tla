--------------------------- MODULE MCGroupResults ---------------------------
(* Small instances of GroupResults: two series, samples half a second      *)
(* apart, and aggregates that are taken by the dimensions or not.          *)
EXTENDS GroupResults

CONSTANTS x, y, sum, count

MCTimes == {<<500>>, <<0, 500>>, <<0, 1000>>}

MCSeries == [labels : Labels, key : Keys, times : MCTimes]

MCMatrices ==
  {<< >>} \cup {<<s>> : s \in {r \in MCSeries : r.key = r.labels}} \cup
    {m \in {<<s, r>> : s \in MCSeries, r \in MCSeries} :
       /\ m[1].labels # m[2].labels
       /\ \/ \A i \in 1..2 : m[i].key = m[i].labels
          \/ m[1].key = x /\ m[2].key = x}

MCSettings == [byTime : BOOLEAN, resolution : {1, 1000}, value : {"float64"}]
=============================================================================
