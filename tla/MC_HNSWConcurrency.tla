------------------------- MODULE MC_HNSWConcurrency -------------------------
(* Call scripts for HNSWConcurrency.  Threads and rows are small integers. *)
EXTENDS HNSWConcurrency, TLC

MCNoKey == -1
Ins(k) == [op |-> "insert", key |-> k]
Del(k) == [op |-> "erase", key |-> k]
Upd(k) == [op |-> "set", key |-> k]
Bulk(S) == [op |-> "bulk", keys |-> S]
Simple(o) == [op |-> o]

\* Every kind of call, under libstdc++: writers, both searches, get_stats,
\* and the nested-lock calls that throw
MCProgAll ==
    (1 :> << Ins(2), Upd(1), Del(2) >>) @@
    (2 :> << Simple("radius"), Simple("rebuild"), Simple("knn") >>) @@
    (3 :> << Bulk({}), Bulk({2}), Simple("clear") >>)
\* The same without the calls that lock twice, for libc++, and get_avg_search_ms
MCProgWriters ==
    (1 :> << Upd(1), Del(1), Simple("stats") >>) @@
    (2 :> << Simple("knn"), Simple("clear"), Simple("knn") >>) @@
    (3 :> << Ins(2), Upd(2), Simple("avg") >>)
\* Both libraries, each with its script
MCProgByLib == ("libstdc++" :> MCProgAll) @@ ("libc++" :> MCProgWriters)
\* One script, whichever library
Both(p) == ("libstdc++" :> p) @@ ("libc++" :> p)

\* get_stats racing the first insert into an empty index
MCProgStats == Both((1 :> << Ins(1) >>) @@ (2 :> << Simple("stats") >>))
\* a search racing set() of an indexed row
MCProgSet == Both((1 :> << Upd(1) >>) @@ (2 :> << Simple("knn") >>))
\* search_radius racing a writer
MCProgRadius == Both((1 :> << Simple("radius") >>) @@ (2 :> << Ins(2) >>))

MCInitialOne == (1 :> 0)
MCInitialNone == [k \in {} |-> 0]
=============================================================================
