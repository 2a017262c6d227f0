--------------------------- MODULE MC_HNSWIndex ----------------------------
(* Model-checking instance of HNSWIndex: four rows, two layers, M = 1 and  *)
(* M0 = 2M as realm_hnsw_create_index sets them, so that four nodes       *)
(* overflow a list at either layer and prune_connections runs.            *)
EXTENDS HNSWIndex

MCNoKey == -1
MCKeys == 1..4
MCKeys3 == 1..3
MCColumn3 == [k \in MCKeys3 |-> {<< (2^(k - 1)) - 1 >>}]
\* Graph runs: each row holds one 1-D point; the points 0, 1, 3, 7 give
\* pairwise distinct distances from every point, so no tie is ever broken.
MCColumn == [k \in MCKeys |-> {<< (2^(k - 1)) - 1 >>}]
\* Graph run: the four points, and row 1 may also hold a 2-D list, which
\* validate_vector_dimension must reject once the dimension is 1
MCColumnGraph == [k \in MCKeys |-> MCColumn[k] \cup (IF k = 1 THEN {<<0, 1>>} ELSE {})]

\* Every row may be inserted, whatever the metric
MCAllRows == [m \in {"euclidean", "cosine", "negdot"} |-> Keys]
\* The graph run: four rows under Euclidean distance, three under cosine
\* and NegDot
MCHostRows == ("euclidean" :> MCKeys) @@ ("cosine" :> MCKeys3) @@ ("negdot" :> MCKeys3)
=============================================================================
