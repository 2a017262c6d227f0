# TLA+ models of the HNSW vector index

This directory holds TLA+ models of `realm::HNSWIndex`, the Hierarchical
Navigable Small World index this repository adds to realm-core. The
implementation is in `src/unnamed/part_004` (`index_hnsw.cpp`). The class
layout is in `src/src/realm/index_hnsw.hpp`, the configuration in
`src/src/realm/hnsw_config.hpp` and the C API in
`src/src/realm/object-store/c_api/hnsw.cpp`. Line numbers below refer to
`part_004` unless another file is named.

## The system

An `HNSWIndex` sits on one column of a table that holds lists of doubles.
It has this state:

* `m_vectors`: a map from row key to `Node {obj_key, vector, layer,
  connections}`. `connections[l]` is the node's adjacency list at layer `l`.
* `m_entry_point` and `m_entry_point_layer`: where every search starts.
* `m_config.dimension`: 0 until the first insert.
* The persisted root: a metadata array followed by one array per node, written
  by `save_to_storage` (858-928) and read by `load_from_storage` (772-856).
* `m_mutex`, a `std::shared_mutex`. Writers take `unique_lock` and readers
  take `shared_lock`.
* Atomic metric counters (`m_metrics`), bumped with `fetch_add` and read without the lock.

Its parts, and how they interact:

| Part | Code | Role |
|---|---|---|
| Distance kernels | 77-123 | euclidean, cosine, dot product |
| Vector source | 127-176 | reads a row's list from the column; `validate_vector_dimension` fixes the dimension on first use and rejects mismatches |
| Layer sampler | 180-189 | draws `floor(-ln r * ml)`, capped at 32 |
| Search engine | 193-286, 686-768 | greedy best-first search of one layer (`search_layer_with_distances`); `search_knn` descends from the entry point and searches layer 0 with `ef`; `search_radius` filters a large k-NN result |
| Neighbour selector | 290-369 | `select_neighbors_simple` (closest M) and `select_neighbors_heuristic` (diversity rule, optional extension by neighbours' neighbours) |
| Graph store | 373-468 | `connect_nodes` and `disconnect_nodes` edit both lists; `prune_connections` re-selects a list that grew past M (M0 at layer 0) |
| Mutator | 472-682, 930-947 | `insert`, `set`, `erase`, `clear`, `insert_bulk`, `insert_bulk_list`, `rebuild` |
| Persistence | 772-928 | every mutation ends with `save_to_storage`; opening the index calls `load_from_storage` |
| C API | c_api/hnsw.cpp, hnsw_config.hpp 62-334 | looks up table and column and forwards to the index; `realm_hnsw_get_stats` reads the count and entry layer without the lock |

`insert` works like this:

1. Validate the dimension.
2. Draw a layer.
3. If the graph is empty, make the node the entry point.
4. Otherwise, walk greedily from the entry point down to the node's layer.
5. At each layer from the node's layer down to 0:
   * search with `ef_construction`;
   * select neighbours with the heuristic;
   * link both ways;
   * prune every neighbour whose list now exceeds the bound.
6. Raise the entry point if the node is higher.
7. Save.

`erase` works like this:

1. Disconnect the node at each of its layers.
2. Remove it.
3. If it was the entry point, pick a node of maximum layer.
4. Save.

`rebuild` collects the nodes, clears the graph and calls `insert` for each of them.

## Modules

* `HNSWIndex.tla` models one index on one thread. Every definition the map of
  `PROJECT.json` names is translated from the lines it lists.
  * Variables:
    * `vectors` is `m_vectors`, a function from row key to a `Node` record whose `connections` is a sequence of sequences.
    * `entry_point` and `entry_layer` are the entry fields, with `NoKey` for the null `ObjKey`.
    * `dimension` is `m_config.dimension`.
    * `stored` is the root the last `save_to_storage` wrote.
    * `metric` is `m_config.metric`, chosen in `Init` from `Metrics`. The caller supplies it and it is not persisted, so no action changes it.
  * Distances (`Dist`, which is `compute_distance`) dispatch on `metric`. Each kernel keeps every comparison and tie the code's doubles make:
    * `euclidean_distance` is the squared sum (`SqSum`), and squaring is monotone;
    * `cosine_distance` is `CosDist`. `CosSim` computes the similarity's signed square `dot |dot| / (norm1 norm2)` as an integer fraction, and a zero norm gives similarity 0, that is distance 1 as in the code. `CosDist` negates it and scales it by the constant `CosScale`, a common multiple of the denominators (an `ASSUME` checks this), so it is an exact integer;
    * `dot_product_distance` is `-dot` itself (`DotSum`).
    * Every loop runs over `v1.size()` and reads `v2` unchecked, as the code does. Validation keeps the lengths equal; a read past the end, reachable only if validation is broken, is taken as 0 (`At`).
    * `OnScale(r)` puts `search_radius`'s `max_distance` on the same scale: `r*r`, `-CosScale * sgn(1-r) (1-r)^2` (since `1 - s <= r` exactly when `s >= 1 - r`), or `r`. The rejection of a negative `max_distance` (744) tests the caller's `r`.
    * Rounding of the doubles is not modelled.
  * Pure code is written as operators:
    * `SearchLayer` (with `Expand`, `SearchLoop` and `Drain`);
    * `Descend`;
    * `SelectSimple`, `SelectHeuristic` and `Diverse`;
    * `ConnectNodes`, `DisconnectNodes` and `PruneConnections`;
    * `Image`, which is `save_to_storage`.
  * `RangeForDisconnect` models the range-for at line 460 exactly as libstdc++ runs it. The loop keeps the begin and end pointers into the buffer. `std::remove` shifts the live elements left and leaves the old tail in the buffer. So the loop reads the buffer, not the list.
  * Actions: `Insert(key, v, L)`, `Erase(key)`, `Clear`, `Rebuild` and `Reopen`.
    * Each action is the whole method, the final save included.
    * `Insert` draws `v` from `Column[key]`, the vectors the row may hold, and `L` from `0..MaxLayer`, which stands for `select_layer`.
    * `Rebuild` is what the code does when built with libstdc++. The nested `unique_lock` in `insert` throws after the graph was cleared, so the graph is left empty and unsaved.
    * `Reopen` is the constructor from a ref (51-70): it applies `Load`, which is `load_from_storage` (772-856), to the saved root. `VectorForKey(key)` is `get_vector_for_key` (138-159): the lists the row may hold.
  * `HostRows[m]` is the set of rows the host inserts under metric `m`. It lets the graph run spend four rows on the Euclidean metric and three on the other two.
  * `InsertIndexed` is a constant. It says whether the host may call `insert` for a row that is already indexed (see the re-insert hazard).
* `HNSWRows.tla` is the abstract promise of the index: a set of rows, each with
  a vector, that changes only by insert, erase and clear.
  `HNSWIndex` instantiates it with `rows <- [k \in DOMAIN vectors |->
  vectors[k].vector]`, and `RowsRefined` checks the refinement.
* `MC_HNSWIndex.tla` gives the model values:
  * three or four integer row keys (four in the graph run);
  * one-dimensional vectors at 0, 1, 3 and 7. The points are spread out so the heuristic's diversity test matters; in 1-D, cosine ranks every pair of non-zero vectors equal and the zero vector at distance 1 from everything, itself included, and NegDot makes every distance non-positive;
  * for the graph run, row 1 may also hold a 2-D list, which validation must reject once the dimension is 1.
* `HNSWIndex.tla` also has `SearchKnnEf`, which is `search_knn` with an explicit `ef`, and `SearchRadius`, which is `search_radius` (733-768): `ef_large = min(2 ef_search, max(ef_search, n))`, a k-NN call for all `n` rows, and `RadiusFilter`, the sorted-prefix filter with its `break`.
* `HNSWConcurrency.tla` models threads that call one index.
  * State:
    * The graph is abstracted to `nodes` (row key to layer), `ep` and `epl`. The edges are checked by `HNSWIndex`.
    * The lock is `writer` and `readers`.
    * `pc`, `ip` and `part` say where each thread is in its script `Prog[t]`.
    * `seen`, `stat` and `bulked` record what searches, `get_stats` and `insert_bulk` returned.
    * `metrics` holds the seven atomic counters of `m_metrics` (index_hnsw.hpp 149-158), less `erase_count`, which the code never increments. A timed call adds one time unit to its total. `avg` records what `get_avg_search_ms` loaded.
  * A call is split only where another thread can observe it:
    * the lock acquisitions;
    * `insert`'s `m_vectors` assignment (518), then its entry update (547);
    * `erase`'s removal (590), then its entry reselection (593-602);
    * `get_stats`'s two unlocked reads (hnsw.cpp 249 and 253);
    * each counter `fetch_add`, then its total's: in `insert` after the save (555-556, not on the first insert, which returns at 501), in `search_knn` on both paths (693-694, 728-729), and in `search_radius` on both paths (740-741, 765-766);
    * the release of the inner `search_knn`'s shared lock before `search_radius` counts;
    * `get_avg_search_ms`'s two unlocked loads (index_hnsw.hpp 169-170).
  * `set()` is erase and then insert under two separate locks.
  * `rebuild`, `insert_bulk` and `insert_bulk_list` call `insert` under their own lock. That nested lock is `Nested`.
  * `impl`, chosen in `Init` from `Impls`, is the library whose `shared_mutex` the program was built with, and `Prog[impl]` gives the scripts:
    * libstdc++ uses glibc `pthread_rwlock`, which prefers readers. A recursive exclusive lock fails with `EDEADLK` and throws, and the unwinding releases the outer lock.
    * libc++ prefers writers. `lock()` sets `write_entered` (`Lock`), then waits for the readers (`Drain`). Readers wait while `write_entered` is set. A recursive lock waits forever.
  * A thread blocked on the lock takes `Wait`, a step that changes nothing. So TLC's deadlock check stays on, and a thread that never wakes violates `Termination`.
* `HNSWCApi.tla` models the six C functions of both copies of the C API.
  * The two copies:
    * `c_api/hnsw.cpp` (`"capi"`);
    * the older copy appended to `hnsw_config.hpp` (`"legacy"`). This copy checks the column key, builds the index from the caller's `M`, `ef_construction` and metric through `to_cpp_metric`, and calls `.get()` on the search index. Against this repository's `Table` it would not compile as written (`HNSWIndex::Config` has no default constructor). It is modelled as the code reads.
  * `copy`, chosen in `Init` from `Copies`, is the copy the program was built with.
  * The realm is abstracted to the index kind and config of each column.
  * `out` holds the caller's out-parameters. It keeps its value across calls, like caller memory, and `wrap_err` leaves it alone on a throw.
  * Table or column lookup in a host function the repository does not contain (`add_search_index` on an indexed column) is a nondeterministic choice.
* `MC_HNSWConcurrency.tla` and `MC_HNSWCApi.tla` give the scripts, the initial indexes and the column layout.

## Runs

All `HNSWIndex` runs set M = 1, M0 = 2 (the C API's M0 = 2M), ef_construction = 2 and
ef_search = 2. These are the smallest values at which pruning, the heuristic
and the `ef` cut-off all happen.

| Run | Bounds | Checks | Result |
|---|---|---|---|
| graph | Euclidean: 4 rows (row 1 may also hold a 2-D list); cosine and NegDot: rows 1-3 (`HostRows`); layers 0..1; only rows not yet indexed are inserted | TypeOK, DimensionUniform, NoDuplicateNeighbors, DegreeBound, EntryPointValid | pass (48,772 states, 27 s) |
| prune_skip | 4 rows, layer 0 | Symmetry | violation: range-for skip in prune_connections (line 460) |
| upper_dangling | 4 rows, layers 0..1 | NoDanglingNeighbors | violation: links above the entry layer (519), erase bound (581) |
| rebuild | 3 rows, layer 0 | RowsRefined | violation: rebuild's nested lock empties the graph, reopen restores it |
| unreachable | 4 rows, layers 0..1 | Navigable | violation: pruning (457-460) removes the last edges into a row, so no search reaches it |
| selfloop | 4 rows, layers 0..1 | NoSelfLoops | violation: `set` is erase then insert; an edge to the row above its old layer survives the erase (581), the insert's search finds the new node through it, and `connect_nodes` (533) links the row to itself |

In the graph run, `EntryPointValid` is the spec's invariant 1 with P4: the entry point is absent exactly when the graph is empty, and otherwise it is a node whose top layer is `entry_layer`, the greatest of all. `DimensionUniform` says that every indexed vector has the dimension the first insert fixed.

The concurrency runs use keys {1, 2}, layers 0..1 and the scripts of `MC_HNSWConcurrency.tla`:

| Run | Threads and scripts | Lock | Checks | Result |
|---|---|---|---|---|
| concurrency | 3. libstdc++: insert, set, erase / radius, rebuild, knn / bulk {}, bulk {2}, clear. libc++: set, erase, stats / knn, clear, knn / insert, set, avg | both | TypeOK, SnapshotConsistent, Termination, MetricsSettle | pass (101,419 states) |
| conc_stats | insert on an empty index and get_stats | both | StatsConsistent | violation: the unlocked reads give 0 vectors with max layer 0 |
| conc_set | set(1) and knn | both | SetKeepsRow | violation: a search between set's erase and insert misses the row |
| conc_radius_deadlock | search_radius and insert | libc++ | Termination | violation: the nested shared lock deadlocks against an entered writer |

The C API runs use two class keys (one is a table), three property keys (two are columns, one with a general index), two rows, k in {0, 1, 2}, max_results in {0, 1}, M in {0, 4}, ef_construction in {0, 8} and the metric codes, an invalid one included:

| Run | Copy | Checks | Result |
|---|---|---|---|
| capi | both | TypeOK | pass (43,814 states): every handler's guards and outputs are reached; result copying has no property beyond its type, since the copy is a bounded `std::min` |
| capi_remove | both | RemoveKeepsOtherIndexes | violation: remove_index drops a general index |

The bounds are enough for what they check:

* Searches run with every query vector of the index dimension, k from ef_search to the row count (a smaller k runs the same search and returns a prefix of its result), and the radii -1, 0 and 2: a rejected one, the `<=` boundary, and one above a neighbour pair (every row under cosine).

* Four rows with M0 = 2 are the fewest that make a node's layer-0 list
  overflow and be pruned while a neighbour shifts into the erased slot; the graph
  run has four. It inserts only rows that are not yet indexed: allowing re-insert
  as well takes it past five minutes (see the re-insert hazard).
* Two layers are the fewest where a node can be drawn above the entry layer.
* Every action and every disjunct of `Next` fires in the passing runs.
* Each property of a passing run has a mutant in `PROJECT.json`, a plausible
  slip in the code, that TLC finds.
* Two rows and two layers in the concurrency runs give an insert that raises the entry point and an erase that must reselect it. Three threads give a reader between two writers.
* The C API bounds include every failing lookup, a buffer smaller than the result, and zero and non-zero parameters.

## Fairness and liveness

`HNSWIndex` has no liveness property: each of its operations is one atomic step. The recursive search operators run over a finite, shrinking frontier, so they terminate by construction.

`HNSWConcurrency` assumes weak fairness of each thread's `Step(t)`. The spec (section 5) says threads are parallel and preemptive, so a thread that can run keeps being scheduled. `Wait(t)` is part of `Step(t)` but changes no variable, so it is not a `<<Step(t)>>_vars` step. Fairness therefore obliges a thread to move only when it really can, and a blocked thread leaves its lock label only when the lock frees. Every script is finite, and `Terminating` lets the system idle once every thread is done. `Termination` then says that every call returns. It holds on libstdc++, where a nested exclusive lock throws. On libc++ it fails for `search_radius` against a writer. `MetricsSettle` says that once the calls have returned, every counter equals its total for good (spec 5: eventually consistent statistics). `HNSWCApi` is a sequential API and has no liveness property.

## Findings

The violation runs are disagreements between the code and the spec (P2, P4,
P5, P6, P10, P11, OQ3, invariants 1 and 5, sections 4.I, 4.J, 5 and 6), or between the code and its own
`verify()` assertion or comments.
`PROJECT.json` lists each one with its line. Each trace was checked by hand
against the C++.

## Not modelled yet, and the plan

1. Under NegDot, `search_radius` rejects every negative radius (744), although its distances are negative (spec 4.A). The graph run reaches this case, but no run checks search results (see the hazard).
2. Persistence failures. An allocation in `save_to_storage` can throw anywhere before the swap (861-922). Spec 7 and OQ4 then say that the exception reaches the caller, the old root stays, and the in-memory graph keeps the mutation. A model of this would leave `stored` unchanged after a mutation. The old root is the image of an earlier state, and every run already checks that state's invariants, so the fault adds states but no new question. It would matter only with a property that compares memory with the file across a host rollback, and that rollback is realm's transaction layer, outside this repository. A throw between `destroy()` and `update_parent()` (924-926) is in realm's `Array` code and is not modelled. The version assertion at 791 cannot fail while there is one format version.
3. Properties that earlier runs found violated and that no run checks now:
   * edges above a node's layer are not saved (907), so reopening loses lists that searches in memory follow (spec P10, S6). It has the same root cause as `upper_dangling` and shows up after two inserts;
   * `insert` of an already indexed row makes a self-loop and a stale entry layer;
   * `insert_bulk` on libstdc++ indexes nothing: `insert` re-locks the mutex the bulk call holds, which throws (spec 5 says bulk insert indexes every row);
   * the capi copy of `create_index` ignores M, ef_construction and metric (hnsw.cpp 156-161).
   `PROJECT.json` lists them as hazards.
4. The host's post-filtered search (spec 4.J). Its code is in realm's query engine, not in this repository.
5. `set_ef_search` (index_hnsw.hpp:106) writes `m_config` without the lock. `ef_search` is a constant of the models.
6. `M0` is not persisted: `load_from_storage` (790-797) restores M but not M0. A reopen with another config would need M and M0 as variables of `HNSWIndex`.

These are left out, and why:

* Completeness of `search_radius` (spec S3): `ef_large` (751) caps its k-NN call at 2 ef_search, so rows within the radius can be missed. Spec OQ3 makes this bounded search the default. `Navigable` covers the case OQ3 does not allow: a row that no search can reach at all.

* `erase_count`: the code declares it but never increments it and has no accessor for it, although spec 4.I lists erases among the counted operations.
* The other metric accessors (`get_insert_count` and the rest) are single atomic loads that change nothing; `get_avg_search_ms` stands for the three averages, which have the same shape.
* Properties of search results. Sortedness and distinctness of `search_knn` and containment of `search_radius` hold by construction of the operators (a sorted drain and a filter), so they check nothing about the code. Self-query (a search for an indexed vector returns it) fails for the reasons `unreachable` and `selfloop` already show. The search operators are still part of every insert.
* The RNG seed: the layer is a nondeterministic choice, which covers every seed.
* The text of the errors `wrap_err` records: no property reads it. Which check fails is modelled by `Lookup`.
* Tests and the standalone harness (`part_000`-`part_003`): test code and a build script.
