-------------------------- MODULE HNSWConcurrency --------------------------
(***************************************************************************)
(* Threads calling one realm::HNSWIndex concurrently, and the              *)
(* std::shared_mutex m_mutex that guards it (index_hnsw.cpp).  Each thread *)
(* runs a fixed list of calls, which may depend on the library.  A call   *)
(* is split at the points where another thread can observe it: lock       *)
(* acquisitions, and the assignments                                       *)
(* of insert, erase and rebuild that an unlocked reader (get_stats) sees   *)
(* in between.  The graph is abstracted to the layer of each indexed row   *)
(* and the entry fields; HNSWIndex checks what the edges do.               *)
(*                                                                         *)
(* The lock is modelled as the two standard libraries implement it:        *)
(*  - libstdc++ wraps pthread_rwlock (glibc, reader-preferring): a         *)
(*    writer enters when nobody holds the lock, a reader when no writer    *)
(*    holds it, and a second exclusive lock by the owner fails with        *)
(*    EDEADLK, thrown as resource_deadlock_would_occur;                    *)
(*  - libc++ is writer-preferring: a writer first marks write_entered,     *)
(*    then waits for the readers to drain; readers wait while             *)
(*    write_entered is set, and an owner locking again waits forever.      *)
(***************************************************************************)
EXTENDS Integers, Sequences, FiniteSets

CONSTANTS
    Threads,     \* the threads calling the index
    Keys,        \* row keys
    NoKey,       \* the null ObjKey
    NoThread,    \* no owner of the exclusive lock
    MaxLayer,    \* bound on select_layer()
    Initial,     \* row key -> layer: the rows indexed when the threads start
    Impls,       \* the standard libraries to check: "libstdc++", "libc++"
    Prog         \* Prog[i][t]: the calls thread t makes, in order, on library i

Writes == {"insert", "erase", "set", "clear", "rebuild", "bulk"}
Call == [op : {"insert", "erase", "set"}, key : Keys]
          \cup [op : {"clear", "rebuild", "knn", "radius", "stats", "avg"}]
          \cup [op : {"bulk"}, keys : SUBSET Keys]

ASSUME /\ NoThread \notin Threads /\ NoKey \notin Keys
       /\ Impls \subseteq {"libstdc++", "libc++"}
       /\ DOMAIN Initial \subseteq Keys /\ \A k \in DOMAIN Initial : Initial[k] \in 0..MaxLayer
       /\ \A i \in Impls, t \in Threads : Prog[i][t] \in Seq(Call)

VARIABLES
    impl,      \* the library the program was built with
    nodes,     \* m_vectors, abstracted to row key -> node layer
    ep,        \* m_entry_point
    epl,       \* m_entry_point_layer
    writer,    \* the thread holding the exclusive lock (libc++: write_entered)
    readers,   \* readers[t]: the shared locks thread t holds
    pc,        \* pc[t]: where thread t is in its current call
    ip,        \* ip[t]: the index in Script(t) of the current call
    part,      \* part[t]: set() runs its "erase" then its "insert"
    num,       \* num[t]: the count get_stats read before the layer
    seen,      \* seen[t]: the index state t's last search read
    stat,      \* stat[t]: the pair t's last get_stats returned
    bulked,    \* the rows of insert_bulk calls that have returned
    metrics,   \* m_metrics: each counter and its total_*_ns, a call
               \* abstracted to one time unit
    avg        \* avg[t]: the count and total t's last get_avg_search_ms read

vars == <<impl, nodes, ep, epl, writer, readers, pc, ip, part, num, seen, stat, bulked,
          metrics, avg>>

NoSeen == [nodes |-> <<>>, ep |-> NoKey, epl |-> -2]
NoStat == [n |-> -1, layer |-> -2]
Script(t) == Prog[impl][t]
Op(t) == Script(t)[ip[t]]
Empty == [k \in {} |-> 0]
NoReaders == \A u \in Threads : readers[u] = 0
Counters == {"insert_count", "total_insert_ns", "search_count", "total_search_ns",
             "radius_search_count", "total_radius_search_ns"}
NoMetrics == [f \in Counters |-> 0]
NoAvg == [c |-> -1, total |-> -1]
\* counter.fetch_add(1); a timed call adds one unit to its total_*_ns
Add(f) == [metrics EXCEPT ![f] = @ + 1]
Snapshot == [nodes |-> nodes, ep |-> ep, epl |-> epl]
Without(f, k) == [x \in DOMAIN f \ {k} |-> f[x]]
With(f, k, l) == [x \in DOMAIN f \cup {k} |-> IF x = k THEN l ELSE f[x]]
TopNodes(f) == {k \in DOMAIN f : \A o \in DOMAIN f : f[o] <= f[k]}

\* Fault injection: select_layer's cap one too high
DrawLayersOffByOne == 0..(MaxLayer + 1)
\* select_layer(): any layer up to the cap
DrawLayers == 0..MaxLayer

\* The unique_lock destructor when a write returns
UnlockedOwner(t) == NoThread

\* Fault injection: a reader that does not wait for the writer
SharedOkAlways == TRUE
\* lock_shared(): both libraries block a reader while a writer holds or
\* (libc++) has entered the lock
SharedOk == writer = NoThread

\* The first label of a call's body once the exclusive lock is held
Body(t) ==
    CASE Op(t).op = "insert" -> "ins_add"
      [] Op(t).op = "erase" -> "er_remove"
      [] Op(t).op = "set" -> IF part[t] = "erase" THEN "er_remove" ELSE "ins_add"
      [] Op(t).op = "clear" -> "clear"
      [] Op(t).op = "rebuild" -> "rb_clear"
      [] Op(t).op = "bulk" -> IF Op(t).keys = {} THEN "unlock" ELSE "nested"

\* Return from the current call
Finish(t) ==
    /\ ip' = [ip EXCEPT ![t] = @ + 1]
    /\ pc' = [pc EXCEPT ![t] = IF ip[t] = Len(Script(t)) THEN "done" ELSE "idle"]

Goto(t, l) == pc' = [pc EXCEPT ![t] = l]

-----------------------------------------------------------------------------
(* Calls and the lock                                                      *)

Start(t) ==
    /\ pc[t] = "idle"
    /\ Goto(t, CASE Op(t).op \in Writes -> "lock"
                 [] Op(t).op \in {"knn", "radius"} -> "rlock"
                 [] Op(t).op = "stats" -> "st_num"
                 [] Op(t).op = "avg" -> "avg_c")
    /\ part' = [part EXCEPT ![t] = "erase"]
    /\ UNCHANGED <<impl, nodes, ep, epl, writer, readers, ip, num, seen, stat, bulked, metrics, avg>>

\* std::unique_lock lock(m_mutex) at the top of every write
Lock(t) ==
    /\ pc[t] = "lock"
    /\ writer = NoThread
    /\ impl = "libc++" \/ NoReaders
    /\ writer' = t
    /\ Goto(t, IF impl = "libc++" THEN "drain" ELSE Body(t))
    /\ UNCHANGED <<impl, nodes, ep, epl, readers, ip, part, num, seen, stat, bulked, metrics, avg>>

\* libc++ lock(), second half: wait until the readers have left
Drain(t) ==
    /\ pc[t] = "drain"
    /\ NoReaders
    /\ Goto(t, Body(t))
    /\ UNCHANGED <<impl, nodes, ep, epl, writer, readers, ip, part, num, seen, stat, bulked, metrics, avg>>

\* The destructor of the unique_lock, after save_to_storage(); set() goes
\* on to its insert(), which locks again
Unlock(t) ==
    /\ pc[t] = "unlock"
    /\ writer' = UnlockedOwner(t)
    /\ IF Op(t).op = "set" /\ part[t] = "erase"
       THEN /\ part' = [part EXCEPT ![t] = "insert"]
            /\ Goto(t, "lock")
            /\ UNCHANGED ip
       ELSE /\ Finish(t)
            /\ UNCHANGED part
    /\ bulked' = IF Op(t).op = "bulk" THEN bulked \cup Op(t).keys ELSE bulked
    /\ UNCHANGED <<impl, nodes, ep, epl, readers, num, seen, stat, metrics, avg>>

\* rebuild() and insert_bulk() call insert() while holding the lock:
\* libstdc++ throws resource_deadlock_would_occur and the exception
\* unwinds the outer unique_lock; libc++ blocks forever (no action)
Nested(t) ==
    /\ pc[t] = "nested"
    /\ impl = "libstdc++"
    /\ writer' = NoThread
    /\ Finish(t)
    /\ bulked' = IF Op(t).op = "bulk" THEN bulked \cup Op(t).keys ELSE bulked
    /\ UNCHANGED <<impl, nodes, ep, epl, readers, part, num, seen, stat, metrics, avg>>

\* std::shared_lock in search_knn and search_radius; search_knn reads the
\* graph as soon as it holds the lock
ReadLock(t) ==
    /\ pc[t] = "rlock"
    /\ SharedOk
    /\ readers' = [readers EXCEPT ![t] = @ + 1]
    /\ IF Op(t).op = "knn"
       THEN /\ seen' = [seen EXCEPT ![t] = Snapshot]
            /\ Goto(t, "k_count")
       ELSE /\ Goto(t, IF DOMAIN nodes = {} THEN "r_count" ELSE "rlock2")
            /\ UNCHANGED seen
    /\ UNCHANGED <<impl, nodes, ep, epl, writer, ip, part, num, stat, bulked, metrics, avg>>

\* search_radius calls search_knn, which takes a second shared_lock
ReadLockNested(t) ==
    /\ pc[t] = "rlock2"
    /\ SharedOk
    /\ readers' = [readers EXCEPT ![t] = @ + 1]
    /\ seen' = [seen EXCEPT ![t] = Snapshot]
    /\ Goto(t, "k_count")
    /\ UNCHANGED <<impl, nodes, ep, epl, writer, ip, part, num, stat, bulked, metrics, avg>>

\* search_knn, on either return path: search_count, then total_search_ns
KnnCount(t) ==
    /\ pc[t] = "k_count"
    /\ metrics' = Add("search_count")
    /\ Goto(t, "k_total")
    /\ UNCHANGED <<impl, nodes, ep, epl, writer, readers, ip, part, num, seen, stat, bulked, avg>>

\* Fault injection: the total added to the counter (copy-paste)
AddSearchTotalToCount == Add("search_count")
AddSearchTotal == Add("total_search_ns")

\* Fault injection: search_radius's inner shared_lock kept on return
InnerUnlockSkipped(t) == readers
\* The shared_lock destructor when the inner search_knn returns
InnerUnlocked(t) == [readers EXCEPT ![t] = @ - 1]

\* search_knn returns: to search_radius, releasing its own shared lock
KnnTotal(t) ==
    /\ pc[t] = "k_total"
    /\ metrics' = AddSearchTotal
    /\ IF Op(t).op = "radius"
       THEN readers' = InnerUnlocked(t) /\ Goto(t, "r_count")
       ELSE UNCHANGED readers /\ Goto(t, "runlock")
    /\ UNCHANGED <<impl, nodes, ep, epl, writer, ip, part, num, seen, stat, bulked, avg>>

\* search_radius, on the empty path or after filtering: its counter, then
\* its total
RadiusCount(t) ==
    /\ pc[t] = "r_count"
    /\ metrics' = Add("radius_search_count")
    /\ Goto(t, "r_total")
    /\ UNCHANGED <<impl, nodes, ep, epl, writer, readers, ip, part, num, seen, stat, bulked, avg>>

RadiusTotal(t) ==
    /\ pc[t] = "r_total"
    /\ metrics' = Add("total_radius_search_ns")
    /\ Goto(t, "runlock")
    /\ UNCHANGED <<impl, nodes, ep, epl, writer, readers, ip, part, num, seen, stat, bulked, avg>>

\* The outer shared_lock destructor on return
ReadUnlocked(t) == [readers EXCEPT ![t] = @ - 1]

ReadUnlock(t) ==
    /\ pc[t] = "runlock"
    /\ readers' = ReadUnlocked(t)
    /\ Finish(t)
    /\ UNCHANGED <<impl, nodes, ep, epl, writer, part, num, seen, stat, bulked, metrics, avg>>

\* A thread blocked in a lock acquisition sleeps; the step changes nothing,
\* so a thread that never wakes shows up as a violation of Termination
Wait(t) ==
    /\ pc[t] \in {"lock", "drain", "rlock", "rlock2", "nested"}
    /\ UNCHANGED vars

-----------------------------------------------------------------------------
(* The bodies of the writes, under the exclusive lock                      *)

\* insert() into an empty index: node and entry point in one go, save, return
InsertFirst(t) ==
    /\ pc[t] = "ins_add"
    /\ DOMAIN nodes = {}
    /\ \E l \in DrawLayers :
          /\ nodes' = With(nodes, Op(t).key, l)
          /\ ep' = Op(t).key
          /\ epl' = l
    /\ Goto(t, "unlock")
    /\ UNCHANGED <<impl, writer, readers, ip, part, num, seen, stat, bulked, metrics, avg>>

\* insert(): m_vectors[key] = new_node with the drawn layer, before linking
InsertNode(t) ==
    /\ pc[t] = "ins_add"
    /\ DOMAIN nodes # {}
    /\ \E l \in DrawLayers : nodes' = With(nodes, Op(t).key, l)
    /\ Goto(t, "ins_entry")
    /\ UNCHANGED <<impl, ep, epl, writer, readers, ip, part, num, seen, stat, bulked, metrics, avg>>

\* insert(): raise the entry point if the new node is higher
InsertEntry(t) ==
    /\ pc[t] = "ins_entry"
    /\ IF nodes[Op(t).key] > epl
       THEN ep' = Op(t).key /\ epl' = nodes[Op(t).key]
       ELSE UNCHANGED <<ep, epl>>
    /\ Goto(t, "ins_count")
    /\ UNCHANGED <<impl, nodes, writer, readers, ip, part, num, seen, stat, bulked, metrics, avg>>

\* insert(), after save_to_storage(): insert_count, then total_insert_ns
\* (the first insert returned before, uncounted)
InsertCount(t) ==
    /\ pc[t] = "ins_count"
    /\ metrics' = Add("insert_count")
    /\ Goto(t, "ins_total")
    /\ UNCHANGED <<impl, nodes, ep, epl, writer, readers, ip, part, num, seen, stat, bulked, avg>>

InsertTotal(t) ==
    /\ pc[t] = "ins_total"
    /\ metrics' = Add("total_insert_ns")
    /\ Goto(t, "unlock")
    /\ UNCHANGED <<impl, nodes, ep, epl, writer, readers, ip, part, num, seen, stat, bulked, avg>>

\* erase() of a row that is not indexed returns at once
EraseAbsent(t) ==
    /\ pc[t] = "er_remove"
    /\ Op(t).key \notin DOMAIN nodes
    /\ Goto(t, "unlock")
    /\ UNCHANGED <<impl, nodes, ep, epl, writer, readers, ip, part, num, seen, stat, bulked, metrics, avg>>

\* erase(): disconnect, then m_vectors.erase(it)
EraseNode(t) ==
    /\ pc[t] = "er_remove"
    /\ Op(t).key \in DOMAIN nodes
    /\ nodes' = Without(nodes, Op(t).key)
    /\ Goto(t, "er_entry")
    /\ UNCHANGED <<impl, ep, epl, writer, readers, ip, part, num, seen, stat, bulked, metrics, avg>>

\* erase(): if the entry point went, the first node of maximal layer in
\* the unordered_map's iteration order (unspecified) replaces it
EraseEntry(t) ==
    /\ pc[t] = "er_entry"
    /\ IF Op(t).key = ep
       THEN IF DOMAIN nodes = {}
            THEN ep' = NoKey /\ epl' = -1
            ELSE \E k \in TopNodes(nodes) : ep' = k /\ epl' = nodes[k]
       ELSE UNCHANGED <<ep, epl>>
    /\ Goto(t, "unlock")
    /\ UNCHANGED <<impl, nodes, writer, readers, ip, part, num, seen, stat, bulked, metrics, avg>>

\* clear()
ClearAll(t) ==
    /\ pc[t] = "clear"
    /\ nodes' = Empty /\ ep' = NoKey /\ epl' = -1
    /\ Goto(t, "unlock")
    /\ UNCHANGED <<impl, writer, readers, ip, part, num, seen, stat, bulked, metrics, avg>>

\* rebuild(): copy the nodes, clear, then re-insert each (nested lock)
RebuildClear(t) ==
    /\ pc[t] = "rb_clear"
    /\ nodes' = Empty /\ ep' = NoKey /\ epl' = -1
    /\ Goto(t, IF DOMAIN nodes = {} THEN "unlock" ELSE "nested")
    /\ UNCHANGED <<impl, writer, readers, ip, part, num, seen, stat, bulked, metrics, avg>>

-----------------------------------------------------------------------------
(* realm_hnsw_get_stats: get_num_vectors() then get_max_layer(), unlocked  *)

StatsCount(t) ==
    /\ pc[t] = "st_num"
    /\ num' = [num EXCEPT ![t] = Cardinality(DOMAIN nodes)]
    /\ Goto(t, "st_layer")
    /\ UNCHANGED <<impl, nodes, ep, epl, writer, readers, ip, part, seen, stat, bulked, metrics, avg>>

StatsLayer(t) ==
    /\ pc[t] = "st_layer"
    /\ stat' = [stat EXCEPT ![t] = [n |-> num[t], layer |-> epl]]
    /\ Finish(t)
    /\ UNCHANGED <<impl, nodes, ep, epl, writer, readers, part, num, seen, bulked, metrics, avg>>

-----------------------------------------------------------------------------
(* get_avg_search_ms(): two atomic loads, no lock                          *)

AvgCount(t) ==
    /\ pc[t] = "avg_c"
    /\ avg' = [avg EXCEPT ![t] = [c |-> metrics["search_count"], total |-> -1]]
    /\ Goto(t, "avg_t")
    /\ UNCHANGED <<impl, nodes, ep, epl, writer, readers, ip, part, num, seen, stat, bulked, metrics>>

\* c ? total / c : 0 -- the total is loaded only when the count is not zero
AvgTotal(t) ==
    /\ pc[t] = "avg_t"
    /\ avg' = [avg EXCEPT ![t].total = IF avg[t].c = 0 THEN 0 ELSE metrics["total_search_ns"]]
    /\ Finish(t)
    /\ UNCHANGED <<impl, nodes, ep, epl, writer, readers, part, num, seen, stat, bulked, metrics>>

-----------------------------------------------------------------------------

Init ==
    /\ impl \in Impls
    /\ nodes = Initial
    /\ ep \in IF DOMAIN Initial = {} THEN {NoKey} ELSE TopNodes(Initial)
    /\ epl = IF ep = NoKey THEN -1 ELSE Initial[ep]
    /\ writer = NoThread
    /\ readers = [t \in Threads |-> 0]
    /\ pc = [t \in Threads |-> IF Prog[impl][t] = <<>> THEN "done" ELSE "idle"]
    /\ ip = [t \in Threads |-> 1]
    /\ part = [t \in Threads |-> "erase"]
    /\ num = [t \in Threads |-> 0]
    /\ seen = [t \in Threads |-> NoSeen]
    /\ stat = [t \in Threads |-> NoStat]
    /\ bulked = {}
    /\ metrics = NoMetrics
    /\ avg = [t \in Threads |-> NoAvg]

Step(t) ==
    \/ Start(t) \/ Lock(t) \/ Drain(t) \/ Unlock(t) \/ Nested(t)
    \/ ReadLock(t) \/ ReadLockNested(t) \/ ReadUnlock(t)
    \/ KnnCount(t) \/ KnnTotal(t) \/ RadiusCount(t) \/ RadiusTotal(t)
    \/ InsertFirst(t) \/ InsertNode(t) \/ InsertEntry(t) \/ InsertCount(t) \/ InsertTotal(t)
    \/ EraseAbsent(t) \/ EraseNode(t) \/ EraseEntry(t)
    \/ ClearAll(t) \/ RebuildClear(t) \/ StatsCount(t) \/ StatsLayer(t)
    \/ AvgCount(t) \/ AvgTotal(t)
    \/ Wait(t)

\* Once every thread has returned from its last call the system idles
Terminating == /\ \A t \in Threads : pc[t] = "done"
               /\ UNCHANGED vars

Next == (\E t \in Threads : Step(t)) \/ Terminating

\* Preemptive OS threads: a thread that can run keeps being scheduled
Fairness == \A t \in Threads : WF_vars(Step(t))

Spec == Init /\ [][Next]_vars /\ Fairness

-----------------------------------------------------------------------------
(* Properties                                                              *)

TypeOK ==
    /\ impl \in Impls
    /\ DOMAIN nodes \subseteq Keys /\ \A k \in DOMAIN nodes : nodes[k] \in 0..MaxLayer
    /\ ep \in Keys \cup {NoKey} /\ epl \in -1..MaxLayer
    /\ writer \in Threads \cup {NoThread}
    /\ readers \in [Threads -> 0..2]
    /\ ip \in [Threads -> Nat]
    /\ part \in [Threads -> {"erase", "insert"}]
    /\ bulked \subseteq Keys
    /\ metrics \in [Counters -> Nat]
    /\ avg \in [Threads -> [c : Nat \cup {-1}, total : Nat \cup {-1}]]

\* A state the index is in between two write calls: the entry point is
\* absent exactly when the graph is empty, else a node of maximal layer
Committed(s) ==
    /\ (s.ep = NoKey) <=> (DOMAIN s.nodes = {})
    /\ s.ep # NoKey => /\ s.ep \in DOMAIN s.nodes
                       /\ s.epl = s.nodes[s.ep]
                       /\ \A k \in DOMAIN s.nodes : s.nodes[k] <= s.epl

\* Spec 5: a search reads one committed state, never the inside of a
\* write: the shared lock of search_knn and search_radius excludes the
\* writer between insert's m_vectors assignment and its entry update, and
\* between erase's removal and its entry reselection.
SnapshotConsistent ==
    \A t \in Threads : seen[t] # NoSeen => Committed(seen[t])

\* The same for the statistics the C API reports: get_stats returns a
\* count and a layer of one state (count 0 exactly when layer -1).
StatsConsistent ==
    \A t \in Threads : stat[t] # NoStat => ((stat[t].n = 0) <=> (stat[t].layer = -1))

\* Rows no call erases or clears (set() replaces a row, it does not remove it)
Stable ==
    IF \E t \in Threads : \E i \in 1..Len(Script(t)) :
            Script(t)[i].op \in {"clear", "rebuild"}
    THEN {}
    ELSE DOMAIN Initial \ UNION {{Script(t)[i].key : i \in
                                     {j \in 1..Len(Script(t)) : Script(t)[j].op = "erase"}}
                                   : t \in Threads}

\* P11 and spec 4.I: a write is visible only once it returns, so a search
\* concurrent with set(k) finds k, either with its old or its new vector.
SetKeepsRow ==
    \A t \in Threads : seen[t] # NoSeen => Stable \subseteq DOMAIN seen[t].nodes

\* Every call of every thread returns: no thread waits forever on the
\* lock (search_radius's nested shared lock against a waiting writer,
\* the nested exclusive lock of rebuild and insert_bulk).
Termination == <>(\A t \in Threads : pc[t] = "done")

\* Spec 4.I and 5: the metrics are independently atomic fetch_adds and give
\* eventually consistent statistics: however the counter and total adds of
\* concurrent insert, search_knn and search_radius calls interleave, once
\* the calls return every counter agrees with its total (one time unit a
\* call), so get_avg_*_ms settles on the true average.
MetricsSettle ==
    <>[](/\ metrics["total_insert_ns"] = metrics["insert_count"]
         /\ metrics["total_search_ns"] = metrics["search_count"]
         /\ metrics["total_radius_search_ns"] = metrics["radius_search_count"])
=============================================================================
