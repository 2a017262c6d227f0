------------------------------ MODULE HNSWCApi ------------------------------
(***************************************************************************)
(* The C API of the HNSW index: realm_hnsw_search_knn, _search_radius,     *)
(* _create_index, _remove_index, _has_index and _get_stats.  The           *)
(* repository has two copies: c_api/hnsw.cpp ("capi") and an older one     *)
(* appended to hnsw_config.hpp ("legacy").  They differ in three ways:     *)
(* the legacy searches check the column key, the legacy create_index       *)
(* builds the index from the caller's M, ef_construction and metric, and   *)
(* only the legacy copy calls to_cpp_metric.  A behaviour runs one copy.  *)
(*                                                                         *)
(* The realm is abstracted to the index kind of each column of each        *)
(* table.  The caller's out-parameters are variables that keep their       *)
(* value across calls, as the caller's memory does.  Every function runs   *)
(* inside wrap_err: a thrown error becomes a FALSE return and leaves the  *)
(* out-parameters alone.                                                   *)
(***************************************************************************)
EXTENDS Integers, FiniteSets, TLC

CONSTANTS
    Classes,      \* class keys a caller may pass
    Tables,       \* the class keys that name a table
    Props,        \* property keys a caller may pass
    ColsOf,       \* ColsOf[t]: the property keys that are columns of t
    InitKind,     \* the index each column starts with: "none" or "general"
    NRows,        \* rows with a vector in each column
    KValues,      \* k passed to search_knn (out_results holds k entries)
    Caps,         \* max_results passed to search_radius
    MValues,      \* M passed to create_index
    EfValues,     \* ef_construction passed to create_index
    MetricCodes,  \* realm_hnsw_distance_metric_e values, an invalid one included
    Copies        \* the copies to check: "capi", "legacy"

Cols == UNION {{<<t, p>> : p \in ColsOf[t]} : t \in Tables}
Metrics == {"Euclidean", "Cosine", "DotProduct"}
Config == [metric : Metrics, M : Nat, M0 : Nat, ef_construction : Nat]
Kinds == {"none", "general", "hnsw"}

ASSUME /\ Tables \subseteq Classes /\ Copies \subseteq {"capi", "legacy"}
       /\ \A t \in Tables : ColsOf[t] \subseteq Props
       /\ \A c \in Cols : InitKind[c] \in {"none", "general"}

VARIABLES
    copy,    \* the copy of the C API the program is built with
    index,   \* index[c]: the kind and HNSWIndex::Config of column c's index
    ret,     \* the return value of the last call
    out,     \* the caller's out-parameters: *out_num_results (the number of
             \* out_results entries written), the capacity of out_results,
             \* *out_has_index and *out_num_vectors
    last     \* the name of the last call

vars == <<copy, index, ret, out, last>>

\* HNSWIndexConfig(DistanceMetric::Euclidean), the default of the HNSWIndex
\* constructor
DefaultConfig == [metric |-> "Euclidean", M |-> 16, M0 |-> 32, ef_construction |-> 200]

\* Fault injection: an unknown metric code passed through unconverted
ToCppMetricNoDefault(code) ==
    CASE code = "EUCLIDEAN" -> "Euclidean"
      [] code = "COSINE" -> "Cosine"
      [] code = "DOT_PRODUCT" -> "DotProduct"
      [] OTHER -> code
\* to_cpp_metric: unknown codes fall back to Euclidean
ToCppMetric(code) ==
    CASE code = "EUCLIDEAN" -> "Euclidean"
      [] code = "COSINE" -> "Cosine"
      [] code = "DOT_PRODUCT" -> "DotProduct"
      [] OTHER -> "Euclidean"

\* The lookups at the top of each function, with the error each one throws:
\* get_table, get_column_key (legacy searches only), get_search_index and
\* the dynamic_cast to HNSWIndex
Lookup(c, p, checksColumn) ==
    CASE c \notin Tables -> "Table not found"
      [] checksColumn /\ p \notin ColsOf[c] -> "Column not found"
      [] index[<<c, p>>].kind = "none" -> "No HNSW index found on this property"
      [] index[<<c, p>>].kind = "general" -> "Property does not have an HNSW index"
      [] OTHER -> "ok"

\* The catch of wrap_err (the message it records is left out)
Fail(e, call) ==
    /\ ret' = FALSE /\ last' = call
    /\ UNCHANGED <<index, out>>

Succeed(o, call) ==
    /\ ret' = TRUE /\ out' = o /\ last' = call

Lesser(a, b) == IF a < b THEN a ELSE b

\* num_results = std::min(results.size(), max_results)
RadiusCopied(r, cap) == Lesser(r, cap)

-----------------------------------------------------------------------------
(* The functions, parameterised by whether they check the column key       *)

\* search_knn returns at most min(k, count) rows (P9, HNSWIndex); the first
\* min(results.size(), k) are copied into out_results, which holds k
Knn(c, p, k, checksColumn) ==
    LET e == Lookup(c, p, checksColumn) IN
    /\ IF e # "ok" THEN Fail(e, "knn")
       ELSE \E r \in 0..Lesser(k, NRows) :
               LET n == Lesser(r, k)
               IN Succeed([out EXCEPT !.num = n, !.cap = k],
                          "knn")
    /\ UNCHANGED index

\* search_radius returns up to count rows; out_results holds max_results
Radius(c, p, cap, checksColumn) ==
    LET e == Lookup(c, p, checksColumn) IN
    /\ IF e # "ok" THEN Fail(e, "radius")
       ELSE \E r \in 0..NRows :
               LET n == RadiusCopied(r, cap)
               IN Succeed([out EXCEPT !.num = n, !.cap = cap],
                          "radius")
    /\ UNCHANGED index

\* Table::add_search_index on a column that already has an index is host
\* code outside the repository: it may keep that index or replace it
AddIndex(c, p, new) ==
    \/ index' = [index EXCEPT ![<<c, p>>] = new]
    \/ index[<<c, p>>].kind # "none" /\ UNCHANGED index

Create(c, p, m, ef, code, cfg) ==
    IF c \notin Tables THEN Fail("Table not found", "create")
    ELSE /\ AddIndex(c, p, [kind |-> "hnsw", cfg |-> cfg])
         /\ Succeed(out, "create")

\* remove_search_index drops whatever index the column has
Remove(c, p) ==
    IF c \notin Tables THEN Fail("Table not found", "remove")
    ELSE /\ index' = [index EXCEPT ![<<c, p>>] = [kind |-> "none", cfg |-> DefaultConfig]]
         /\ Succeed(out, "remove")

Has(c, p) ==
    /\ IF c \notin Tables THEN Fail("Table not found", "has")
       ELSE Succeed([out EXCEPT !.has = (index[<<c, p>>].kind = "hnsw")], "has")
    /\ UNCHANGED index

\* get_num_vectors() is m_vectors.size()
Stats(c, p) ==
    LET e == Lookup(c, p, FALSE) IN
    /\ IF e # "ok" THEN Fail(e, "stats")
       ELSE Succeed([out EXCEPT !.nvec = NRows], "stats")
    /\ UNCHANGED index

-----------------------------------------------------------------------------
(* c_api/hnsw.cpp                                                          *)

KnnCall(c, p, k) == Knn(c, p, k, FALSE)
RadiusCall(c, p, cap) == Radius(c, p, cap, FALSE)
\* M, ef_construction and metric are (void)-cast: the index gets the defaults
CreateCall(c, p, m, ef, code) == Create(c, p, m, ef, code, DefaultConfig)
RemoveCall(c, p) == Remove(c, p)
HasCall(c, p) == Has(c, p)
StatsCall(c, p) == Stats(c, p)

-----------------------------------------------------------------------------
(* The copy in hnsw_config.hpp                                             *)

LegacyKnnCall(c, p, k) == Knn(c, p, k, TRUE)
LegacyRadiusCall(c, p, cap) == Radius(c, p, cap, TRUE)
\* config.M = M > 0 ? M : 16; M0 = 2 M; ef_construction likewise; metric
\* through to_cpp_metric
LegacyConfig(m, ef, code) ==
    [metric |-> ToCppMetric(code), M |-> IF m > 0 THEN m ELSE 16,
     M0 |-> 2 * (IF m > 0 THEN m ELSE 16),
     ef_construction |-> IF ef > 0 THEN ef ELSE 200]
LegacyCreateCall(c, p, m, ef, code) == Create(c, p, m, ef, code, LegacyConfig(m, ef, code))
LegacyRemoveCall(c, p) == Remove(c, p)
LegacyHasCall(c, p) == Has(c, p)
LegacyStatsCall(c, p) == Stats(c, p)

-----------------------------------------------------------------------------

Init ==
    /\ copy \in Copies
    /\ index = [c \in Cols |-> [kind |-> InitKind[c], cfg |-> DefaultConfig]]
    /\ ret = TRUE
    /\ out = [num |-> 0, cap |-> 0, has |-> FALSE, nvec |-> 0]
    /\ last = "none"

\* The property keys a call may pass: a function that does not check the
\* column key is only called with columns of an existing table (what
\* get_search_index does with another key is host code)
PropsFor(c, checksColumn) ==
    IF checksColumn \/ c \notin Tables THEN Props ELSE ColsOf[c]

CapiNext ==
    \E c \in Classes :
        \/ \E p \in PropsFor(c, FALSE), k \in KValues : KnnCall(c, p, k)
        \/ \E p \in PropsFor(c, FALSE), cap \in Caps : RadiusCall(c, p, cap)
        \/ \E p \in PropsFor(c, FALSE), m \in MValues, ef \in EfValues, code \in MetricCodes :
              CreateCall(c, p, m, ef, code)
        \/ \E p \in PropsFor(c, FALSE) : RemoveCall(c, p)
        \/ \E p \in PropsFor(c, FALSE) : HasCall(c, p)
        \/ \E p \in PropsFor(c, FALSE) : StatsCall(c, p)

LegacyNext ==
    \E c \in Classes :
        \/ \E p \in PropsFor(c, TRUE), k \in KValues : LegacyKnnCall(c, p, k)
        \/ \E p \in PropsFor(c, TRUE), cap \in Caps : LegacyRadiusCall(c, p, cap)
        \/ \E p \in PropsFor(c, FALSE), m \in MValues, ef \in EfValues, code \in MetricCodes :
              LegacyCreateCall(c, p, m, ef, code)
        \/ \E p \in PropsFor(c, FALSE) : LegacyRemoveCall(c, p)
        \/ \E p \in PropsFor(c, FALSE) : LegacyHasCall(c, p)
        \/ \E p \in PropsFor(c, FALSE) : LegacyStatsCall(c, p)

Next == /\ IF copy = "capi" THEN CapiNext ELSE LegacyNext
        /\ UNCHANGED copy

Spec == Init /\ [][Next]_vars

-----------------------------------------------------------------------------
(* Properties                                                              *)

TypeOK ==
    /\ copy \in Copies
    /\ index \in [Cols -> [kind : Kinds, cfg : Config]]
    /\ ret \in BOOLEAN
    /\ out \in [num : Nat, cap : Nat, has : BOOLEAN, nvec : Nat]
    /\ last \in {"none", "knn", "radius", "create", "remove", "has", "stats"}

\* realm_hnsw_remove_index removes the HNSW index of a property and never
\* an index of another kind the property has (a general search index).
RemoveKeepsOtherIndexes ==
    [][last' = "remove" =>
         \A c \in Cols : index[c].kind = "general" => index'[c].kind = "general"]_vars
=============================================================================
