----------------------------- MODULE HNSWIndex -----------------------------
(***************************************************************************)
(* The in-memory HNSW graph of realm::HNSWIndex (index_hnsw.cpp) together  *)
(* with the root it persists on every mutation.  Every write operation of  *)
(* the index runs under the exclusive lock as one uninterrupted call, so   *)
(* each is one action here: Insert, Erase, Clear, Rebuild, and Reopen (the *)
(* constructor that loads an existing root).  The loops of the code are    *)
(* RECURSIVE operators that follow the code's iteration order.             *)
(*                                                                         *)
(* Data abstraction: a vector is a short sequence of integers.  Each       *)
(* distance is computed exactly, up to a monotone map that keeps every     *)
(* comparison the code makes between distances: the squared Euclidean      *)
(* distance, the rank of the cosine distance among the values the vectors  *)
(* can produce, and the negative dot product itself.  Equal distances are  *)
(* ordered by row key, standing for the fixed but unspecified order        *)
(* std::priority_queue and std::sort give to ties.                         *)
(***************************************************************************)
EXTENDS Integers, Sequences, SequencesExt, FiniteSets, TLC

CONSTANTS
    Keys,            \* row keys (ObjKey values), non-negative integers
    NoKey,           \* the null ObjKey, value -1
    Column,          \* Column[k]: the vectors row k's list column may hold
    MaxLayer,        \* bound on select_layer() (the code caps at 32)
    M, M0,           \* m_config.M and m_config.M0
    EfConstruction,  \* m_config.ef_construction
    EfSearch,        \* m_config.ef_search
    InsertIndexed,   \* whether the host may call insert() for an indexed row
    Metrics,         \* the m_config.metric values to check
    HostRows,        \* HostRows[m]: the rows the host inserts under metric m
    CosScale         \* a common multiple of every norm1 norm2 of the column's vectors

ASSUME /\ Keys \subseteq Nat /\ NoKey = -1
       /\ DOMAIN Column = Keys
       /\ \A k \in Keys : \A v \in Column[k] : v \in Seq(Int) /\ v # <<>>
       /\ InsertIndexed \in BOOLEAN
       /\ Metrics \subseteq {"euclidean", "cosine", "negdot"}
       /\ \A m \in Metrics : HostRows[m] \subseteq Keys
       /\ MaxLayer \in Nat /\ {M, M0, EfConstruction, EfSearch} \subseteq Nat \ {0}

VARIABLES
    vectors,        \* m_vectors : row key -> Node
    entry_point,    \* m_entry_point
    entry_layer,    \* m_entry_point_layer
    dimension,      \* m_config.vector_dimension (0 until the first insert)
    stored,         \* the root written by the last save_to_storage()
    metric          \* m_config.metric: fixed by the caller, not persisted

vars == <<vectors, entry_point, entry_layer, dimension, stored, metric>>

\* Fault injection: select_layer's cap one too high
LayersCapOffByOne == 0..(MaxLayer + 1)
\* select_layer(): any layer up to the cap (the seeded draw is abstracted)
Layers == 0..MaxLayer
Vectors == UNION {Column[k] : k \in Keys}
Node == [vector : Vectors, layer : 0..MaxLayer, connections : Seq(Seq(Keys))]
Empty == [k \in {} |-> NoKey]

-----------------------------------------------------------------------------
(* Distance kernels and candidate order                                    *)

(***************************************************************************)
(* The kernels loop over v1.size() and index v2 unchecked (spec 4.A:       *)
(* dimensions are prevalidated).  Validation makes the lengths equal in    *)
(* every reachable state (DimensionUniform); should it fail, a read past   *)
(* the end of v2 is undefined, modelled as one outcome a build gives, 0.   *)
(***************************************************************************)
At(v, i) == IF i <= Len(v) THEN v[i] ELSE 0

RECURSIVE SqSum(_, _, _)
SqSum(v1, v2, i) ==
    IF i > Len(v1) THEN 0
    ELSE (v1[i] - At(v2, i)) * (v1[i] - At(v2, i)) + SqSum(v1, v2, i + 1)

\* The dot product loop of dot_product_distance and cosine_distance
RECURSIVE DotSum(_, _, _)
DotSum(v1, v2, i) ==
    IF i > Len(v1) THEN 0 ELSE v1[i] * At(v2, i) + DotSum(v1, v2, i + 1)

(***************************************************************************)
(* cosine_distance: 1 - dot / (sqrt(norm1) sqrt(norm2)), and 1 when either *)
(* norm is 0; norm2 also sums over v1.size() entries.  CosSim is the       *)
(* similarity as the exact fraction dot |dot| / (norm1 norm2), the signed  *)
(* square of the code's quotient (a zero norm gives similarity 0, distance *)
(* 1).  CosDist scales it to an integer by CosScale, a multiple of every   *)
(* norm1 norm2 (checked below): the order and the ties of 1 - similarity   *)
(* are kept.                                                               *)
(***************************************************************************)
CosSim(v1, v2) ==
    LET w == [i \in 1..Len(v1) |-> At(v2, i)]
        d == DotSum(v1, v2, 1)
        n == DotSum(v1, v1, 1) * DotSum(w, w, 1)
    IN IF n = 0 THEN [num |-> 0, den |-> 1]
       ELSE [num |-> d * (IF d < 0 THEN -d ELSE d), den |-> n]
CosDist(v1, v2) == LET c == CosSim(v1, v2) IN -((CosScale * c.num) \div c.den)

ASSUME "cosine" \in Metrics =>
           \A v1, v2 \in UNION {Column[k] : k \in Keys} :
               Len(v1) = Len(v2) => CosScale % CosSim(v1, v2).den = 0

\* compute_distance: dispatch on the configured metric
Dist(v1, v2) ==
    CASE metric = "euclidean" -> SqSum(v1, v2, 1)
      [] metric = "cosine" -> CosDist(v1, v2)
      [] metric = "negdot" -> -DotSum(v1, v2, 1)

\* SearchCandidate / pair<ObjKey,double>, ordered nearest first
Cand(G, q, k) == [key |-> k, dist |-> Dist(q, G[k].vector)]
Before(a, b) == a.dist < b.dist \/ (a.dist = b.dist /\ a.key < b.key)
Nearest(S) == CHOOSE c \in S : \A o \in S : o = c \/ Before(c, o)
Farthest(S) == CHOOSE c \in S : \A o \in S : o = c \/ Before(o, c)
Keys_(s) == {s[i].key : i \in 1..Len(s)}
Lesser(a, b) == IF a < b THEN a ELSE b
Greater(a, b) == IF a > b THEN a ELSE b

\* The adjacency list of node k at layer l (connections[l]), <<>> if absent
ConnAt(G, k, l) == IF l < Len(G[k].connections) THEN G[k].connections[l + 1]
                   ELSE <<>>

-----------------------------------------------------------------------------
(* search_layer_with_distances: best-first search with two heaps           *)

\* The inner for-loop over node.connections[layer]
RECURSIVE Expand(_, _, _, _, _, _)
Expand(G, q, ef, nbrs, i, st) ==
    IF i > Len(nbrs) THEN st
    ELSE LET n == nbrs[i]
             seen == [st EXCEPT !.visited = @ \cup {n}]
         IN IF n \in st.visited THEN Expand(G, q, ef, nbrs, i + 1, st)
            ELSE IF n \notin DOMAIN G THEN Expand(G, q, ef, nbrs, i + 1, seen)
            ELSE LET x == Cand(G, q, n)
                     w1 == st.w \cup {x}
                 IN IF x.dist < Farthest(st.w).dist \/ Cardinality(st.w) < ef
                    THEN Expand(G, q, ef, nbrs, i + 1,
                           [cand |-> st.cand \cup {x},
                            w |-> IF Cardinality(w1) > ef
                                  THEN w1 \ {Farthest(w1)} ELSE w1,
                            visited |-> st.visited \cup {n}])
                    ELSE Expand(G, q, ef, nbrs, i + 1, seen)

\* The while (!candidates.empty()) loop
RECURSIVE SearchLoop(_, _, _, _, _)
SearchLoop(G, q, ef, layer, st) ==
    IF st.cand = {} THEN st.w
    ELSE LET c == Nearest(st.cand)
             popped == [st EXCEPT !.cand = @ \ {c}]
         IN IF c.dist > Farthest(st.w).dist /\ Cardinality(st.w) >= ef
            THEN st.w
            ELSE IF c.key \notin DOMAIN G
                    \/ layer >= Len(G[c.key].connections)
            THEN SearchLoop(G, q, ef, layer, popped)
            ELSE SearchLoop(G, q, ef, layer,
                    Expand(G, q, ef, G[c.key].connections[layer + 1], 1, popped))

\* Drain the max-heap w, then reverse: ascending distance
Drain(w) == SetToSortSeq(w, Before)

SearchLayer(G, q, ep, ef, layer) ==
    IF ep = NoKey \/ DOMAIN G = {} \/ ep \notin DOMAIN G THEN <<>>
    ELSE LET e == Cand(G, q, ep)
         IN Drain(SearchLoop(G, q, ef, layer,
                           [cand |-> {e}, w |-> {e}, visited |-> {ep}]))

\* The "traverse from top layer" loops of insert and search_knn (ef = 1)
RECURSIVE Descend(_, _, _, _, _)
Descend(G, q, cur, lc, downto) ==
    IF lc <= downto THEN cur
    ELSE LET res == SearchLayer(G, q, cur, 1, lc)
         IN Descend(G, q, IF res # <<>> THEN res[1].key ELSE cur, lc - 1, downto)

-----------------------------------------------------------------------------
(* Neighbor selection                                                      *)

SelectSimple(cands, Mx) == [i \in 1..Lesser(Mx, Len(cands)) |-> cands[i].key]

\* The "select diverse neighbors" loop
RECURSIVE Diverse(_, _, _, _, _)
Diverse(G, ws, Mx, i, result) ==
    IF i > Len(ws) \/ Len(result) >= Mx THEN result
    ELSE LET c == ws[i]
             add == c.key \notin DOMAIN G
                    \/ \A j \in 1..Len(result) :
                          result[j] \in DOMAIN G =>
                            ~(Dist(G[c.key].vector, G[result[j]].vector) < c.dist)
         IN Diverse(G, ws, Mx, i + 1, IF add THEN Append(result, c.key) ELSE result)

SelectHeuristic(G, q, cands, Mx, layer, extend) ==
    LET ck == Keys_(cands)
        more == {n \in DOMAIN G \ ck :
                   \E c \in ck : c \in DOMAIN G /\ Contains(ConnAt(G, c, layer), n)}
        ws == IF extend
              THEN SetToSortSeq({cands[i] : i \in 1..Len(cands)}
                                \cup {Cand(G, q, n) : n \in more}, Before)
              ELSE cands
    IN Diverse(G, ws, Mx, 1, <<>>)

-----------------------------------------------------------------------------
(* Graph operations                                                        *)

Grow(conns, l) == IF Len(conns) > l THEN conns
                  ELSE conns \o [i \in 1..(l + 1 - Len(conns)) |-> <<>>]

\* Fault injection: connect_nodes without its std::find check
AddToUnchecked(G, a, b, l) == [G EXCEPT ![a].connections[l + 1] = Append(@, b)]
AddTo(G, a, b, l) ==
    IF Contains(G[a].connections[l + 1], b) THEN G
    ELSE [G EXCEPT ![a].connections[l + 1] = Append(@, b)]

ConnectNodes(G, a, b, l) ==
    IF a \notin DOMAIN G \/ b \notin DOMAIN G THEN G
    ELSE LET G1 == [G EXCEPT ![a].connections = Grow(@, l)]
             G2 == [G1 EXCEPT ![b].connections = Grow(@, l)]
         IN AddTo(AddTo(G2, a, b, l), b, a, l)

DropFrom(G, a, b, l) ==
    IF l < Len(G[a].connections)
    THEN [G EXCEPT ![a].connections[l + 1] = Remove(@, b)]
    ELSE G

DisconnectNodes(G, a, b, l) ==
    IF a \notin DOMAIN G \/ b \notin DOMAIN G THEN G
    ELSE DropFrom(DropFrom(G, a, b, l), b, a, l)

(***************************************************************************)
(* "for (ObjKey x : node.connections[l]) disconnect_nodes(a, x, l)" with   *)
(* x skipped when it is in keep.  disconnect_nodes erases x from the very  *)
(* vector the range-for walks.  The loop keeps its begin/end pointers:     *)
(* std::remove shifts the live elements left and the shrink leaves the old *)
(* tail in the buffer, so the loop reads buf[i] of that buffer up to the   *)
(* original end.  buf models the buffer: the live list followed by the     *)
(* stale tail.                                                             *)
(***************************************************************************)
RECURSIVE RangeForDisconnect(_, _, _, _, _, _)
RangeForDisconnect(G, a, l, buf, i, keep) ==
    IF i > Len(buf) THEN G
    ELSE IF buf[i] \in keep THEN RangeForDisconnect(G, a, l, buf, i + 1, keep)
    ELSE LET G1 == DisconnectNodes(G, a, buf[i], l)
             live == G1[a].connections[l + 1]
         IN RangeForDisconnect(G1, a, l,
               live \o SubSeq(buf, Len(live) + 1, Len(buf)), i + 1, keep)

MaxConn(l) == IF l = 0 THEN M0 ELSE M

\* Fault injection: prune_connections tolerating one extra neighbor
NeedsPruneOffByOne(G, k, l) == Len(G[k].connections[l + 1]) > MaxConn(l) + 1
NeedsPrune(G, k, l) == Len(G[k].connections[l + 1]) > MaxConn(l)

PruneConnections(G, k, l) ==
    IF k \notin DOMAIN G \/ l >= Len(G[k].connections) THEN G
    ELSE LET list == G[k].connections[l + 1]
         IN IF ~NeedsPrune(G, k, l) THEN G
            ELSE LET cands == SetToSortSeq({Cand(G, G[k].vector, n) :
                                   n \in ToSet(list) \cap DOMAIN G}, Before)
                     new == SelectHeuristic(G, G[k].vector, cands, MaxConn(l), l, FALSE)
                     G1 == RangeForDisconnect(G, k, l, list, 1, ToSet(new))
                 IN [G1 EXCEPT ![k].connections[l + 1] = new]

RECURSIVE ConnectEach(_, _, _, _, _)
ConnectEach(G, key, nbrs, l, i) ==
    IF i > Len(nbrs) THEN G
    ELSE ConnectEach(ConnectNodes(G, key, nbrs[i], l), key, nbrs, l, i + 1)

RECURSIVE PruneEach(_, _, _, _)
PruneEach(G, nbrs, l, i) ==
    IF i > Len(nbrs) THEN G
    ELSE PruneEach(PruneConnections(G, nbrs[i], l), nbrs, l, i + 1)

-----------------------------------------------------------------------------
(* Persistence image: save_to_storage writes, load_from_storage reads      *)

Image(G, ep, el, d) ==
    [entry_point |-> ep, entry_layer |-> el, dimension |-> d,
     nodes |-> [k \in DOMAIN G |->
                  [vector |-> G[k].vector, layer |-> G[k].layer,
                   connections |-> [l \in 1..(G[k].layer + 1) |->
                                      ConnAt(G, k, l - 1)]]]]

\* save_to_storage, evaluated on the state the mutation leaves
Save == stored' = Image(vectors', entry_point', entry_layer', dimension')

-----------------------------------------------------------------------------
(* Operations                                                              *)

\* validate_vector_dimension: the first vector fixes the dimension
\* Fault injection: validate_vector_dimension that never throws
DimensionOkAlways(v) == TRUE
DimensionOk(v) == dimension = 0 \/ Len(v) = dimension
ValidatedDimension(v) == IF dimension = 0 THEN Len(v) ELSE dimension

\* The "for (int lc = node_layer; lc >= 0; --lc)" loop of insert
RECURSIVE LinkLayers(_, _, _, _, _)
LinkLayers(G, key, v, cur, lc) ==
    IF lc < 0 THEN G
    ELSE LET cands == SearchLayer(G, v, cur, EfConstruction, lc)
             nbrs == IF lc = 0 THEN SelectSimple(cands, M0)
                     ELSE SelectHeuristic(G, v, cands, M, lc, TRUE)
             G1 == PruneEach(ConnectEach(G, key, nbrs, lc, 1), nbrs, lc, 1)
         IN LinkLayers(G1, key, v, IF cands # <<>> THEN cands[1].key ELSE cur,
                       lc - 1)

(***************************************************************************)
(* insert(key): v is what get_vector_for_key reads from the row's list     *)
(* column, L what select_layer() draws.  An empty list returns before any  *)
(* change; a dimension mismatch throws before any change.  m_vectors[key]  *)
(* is assigned whether or not key is already indexed.                      *)
(***************************************************************************)
Insert(key, v, L) ==
    /\ DimensionOk(v)
    /\ dimension' = ValidatedDimension(v)
    /\ LET new == [vector |-> v, layer |-> L,
                   connections |-> [i \in 1..(L + 1) |-> <<>>]]
       IN IF DOMAIN vectors = {}
          THEN /\ vectors' = key :> new
               /\ entry_point' = key
               /\ entry_layer' = L
          ELSE LET start == Descend(vectors, v, entry_point, entry_layer, L)
                   G0 == [k \in DOMAIN vectors \cup {key} |->
                            IF k = key THEN new ELSE vectors[k]]
               IN /\ vectors' = LinkLayers(G0, key, v, start, L)
                  /\ entry_point' = IF L > entry_layer THEN key ELSE entry_point
                  /\ entry_layer' = IF L > entry_layer THEN L ELSE entry_layer
    /\ Save

\* The "disconnect from all neighbors at all layers" loop of erase
RECURSIVE EraseLinks(_, _, _, _)
EraseLinks(G, key, layer, top) ==
    IF layer > top THEN G
    ELSE EraseLinks(IF layer < Len(G[key].connections)
                    THEN RangeForDisconnect(G, key, layer,
                             G[key].connections[layer + 1], 1, {})
                    ELSE G, key, layer + 1, top)

\* Fault injection: erase that never reselects the entry point
ErasesEntryNever(key) == FALSE
\* "if (key == m_entry_point)" in erase
ErasesEntry(key) == key = entry_point

\* erase(key); an absent key returns before save_to_storage
Erase(key) ==
    /\ key \in DOMAIN vectors
    /\ LET G == EraseLinks(vectors, key, 0, vectors[key].layer)
           rest == DOMAIN G \ {key}
           top == IF rest = {} THEN -1
                  ELSE CHOOSE t \in {G[k].layer : k \in rest} :
                          \A k \in rest : G[k].layer <= t
       IN /\ vectors' = [k \in rest |-> G[k]]
          /\ IF ErasesEntry(key)
             \* the reselection scan takes the first node of the unordered_map
             \* with the greatest layer; the map's order is unspecified
             THEN IF rest = {}
                  THEN entry_point' = NoKey /\ entry_layer' = -1
                  ELSE \E e \in {k \in rest : G[k].layer = top} :
                          entry_point' = e /\ entry_layer' = top
             ELSE UNCHANGED <<entry_point, entry_layer>>
    /\ UNCHANGED dimension
    /\ Save

\* clear(); the dimension fixed by the first insert is kept
Clear ==
    /\ vectors' = Empty
    /\ entry_point' = NoKey
    /\ entry_layer' = -1
    /\ UNCHANGED dimension
    /\ Save

(***************************************************************************)
(* rebuild() takes the exclusive lock, empties the graph, then calls       *)
(* insert() for the first saved node.  insert() locks the same             *)
(* std::shared_mutex again; with libstdc++ on glibc that lock() throws     *)
(* resource_deadlock_would_occur, so rebuild leaves the graph empty and    *)
(* returns by exception without saving.                                    *)
(***************************************************************************)
Rebuild ==
    /\ DOMAIN vectors # {}
    /\ vectors' = Empty
    /\ entry_point' = NoKey
    /\ entry_layer' = -1
    /\ UNCHANGED <<dimension, stored>>

(***************************************************************************)
(* load_from_storage(): the metadata gives the entry point, its layer and   *)
(* the dimension; each per-node array gives a node whose connections are   *)
(* resized to layer + 1 and filled from the saved lists.                   *)
(***************************************************************************)
Load(S) ==
    [vectors |-> [k \in DOMAIN S.nodes |-> S.nodes[k]],
     entry_point |-> S.entry_point, entry_layer |-> S.entry_layer,
     dimension |-> S.dimension]

\* The constructor from a ref: attach to the persisted root and load it
Reopen ==
    /\ LET L == Load(stored)
       IN /\ vectors' = L.vectors
          /\ entry_point' = L.entry_point
          /\ entry_layer' = L.entry_layer
          /\ dimension' = L.dimension
    /\ UNCHANGED stored

Init ==
    /\ vectors = Empty
    /\ entry_point = NoKey
    /\ entry_layer = -1
    /\ dimension = 0
    /\ stored = Image(Empty, NoKey, -1, 0)
    /\ metric \in Metrics

\* get_vector_for_key: the list of doubles row key holds in the column
VectorForKey(key) == Column[key]

Next ==
  /\ \/ \E key \in Keys : \E v \in VectorForKey(key), L \in Layers :
          /\ InsertIndexed \/ key \notin DOMAIN vectors
          /\ key \in HostRows[metric]
          /\ Insert(key, v, L)
     \/ \E key \in Keys : Erase(key)
     \/ Clear
     \/ Rebuild
     \/ Reopen
  /\ UNCHANGED metric

Spec == Init /\ [][Next]_vars

-----------------------------------------------------------------------------
(* search_knn                                                              *)

(***************************************************************************)
(* search_knn(q, k, ef): ef = 0 means max(ef_search, k); ef and k are     *)
(* clamped to the node count, the search descends to layer 1 with ef 1,    *)
(* searches layer 0 and keeps the first k.  The caller's query has the     *)
(* index dimension (validated).                                            *)
(***************************************************************************)
SearchKnnEf(G, ep, el, q, k, efArg) ==
    IF DOMAIN G = {} \/ ep = NoKey \/ k = 0 THEN <<>>
    ELSE LET n == Cardinality(DOMAIN G)
             ef == Lesser(IF efArg = 0 THEN Greater(EfSearch, k) ELSE efArg, n)
             res == SearchLayer(G, q, Descend(G, q, ep, el, 0), ef, 0)
         IN SubSeq(res, 1, Lesser(Len(res), Lesser(k, n)))

SearchKnn(G, ep, el, q, k) == SearchKnnEf(G, ep, el, q, k, 0)

\* The filter loop: keep the sorted prefix within r, break at the first beyond
RadiusFilter(res, r) ==
    LET out == SelectInSeq(res, LAMBDA c : c.dist > r)
    IN IF out = 0 THEN res ELSE SubSeq(res, 1, out - 1)

(***************************************************************************)
(* The radius search_radius compares distances with (pair.second <=        *)
(* max_distance), on the scale of Dist: squared for Euclidean; for cosine, *)
(* 1 - s <= r exactly when s >= 1 - r, so -CosScale times the signed       *)
(* square of 1 - r; NegDot as it is.                                       *)
(***************************************************************************)
OnScale(r) ==
    CASE metric = "euclidean" -> r * r
      [] metric = "cosine" -> LET t == 1 - r
                              IN -(CosScale * t * (IF t < 0 THEN -t ELSE t))
      [] metric = "negdot" -> r

(***************************************************************************)
(* search_radius(q, r): k-NN for k = the node count with                   *)
(* ef_large = min(2 ef_search, max(ef_search, count)), then the filter.    *)
(* r is the caller's max_distance.                                        *)
(***************************************************************************)
SearchRadius(G, ep, el, q, r) ==
    IF DOMAIN G = {} \/ ep = NoKey \/ r < 0 THEN <<>>
    ELSE LET n == Cardinality(DOMAIN G)
             efLarge == Lesser(2 * EfSearch, Greater(EfSearch, n))
         IN RadiusFilter(SearchKnnEf(G, ep, el, q, n, efLarge), OnScale(r))

\* The rows the index holds, as HNSWRows sees them
Rows == INSTANCE HNSWRows WITH rows <- [k \in DOMAIN vectors |-> vectors[k].vector]

-----------------------------------------------------------------------------
(* Properties                                                              *)

TypeOK ==
    /\ DOMAIN vectors \subseteq Keys
    /\ \A k \in DOMAIN vectors : vectors[k] \in Node
    /\ entry_point \in Keys \cup {NoKey}
    /\ entry_layer \in -1..MaxLayer
    /\ dimension \in {0} \cup {Len(v) : v \in Vectors}
    /\ DOMAIN stored.nodes \subseteq Keys
    /\ metric \in Metrics

\* P1: insert validates every vector before it creates a node, so every
\* indexed vector has the dimension the first insert fixed, across clear,
\* rebuild and reopen.
DimensionUniform ==
    \A k \in DOMAIN vectors : Len(vectors[k].vector) = dimension

\* Invariant 5: connect_nodes checks membership and prune_connections
\* installs the selector's output, so no adjacency list names a row twice.
NoDuplicateNeighbors ==
    \A k \in DOMAIN vectors : \A l \in 1..Len(vectors[k].connections) :
        LET c == vectors[k].connections[l]
        IN \A i, j \in 1..Len(c) : i < j => c[i] # c[j]

\* P3: after every write, a node's list at a layer it occupies holds at
\* most M0 (layer 0) or M entries: every connect_nodes on a neighbor is
\* followed by prune_connections, and the new node gets at most M or M0.
\* verify() allows two more; this is the bound without the slack.
DegreeBound ==
    \A k \in DOMAIN vectors : \A l \in 0..vectors[k].layer :
        Len(ConnAt(vectors, k, l)) <= MaxConn(l)

\* Invariant 1 and P4: the entry point is absent (entry layer -1) exactly
\* when the graph is empty, and otherwise names an indexed row whose top
\* layer is entry_layer, the greatest top layer of any node: insert raises
\* it and erase of the entry point must reselect it, across clear, rebuild
\* and reopen.
EntryPointValid ==
    /\ (DOMAIN vectors = {}) <=> (entry_point = NoKey)
    /\ DOMAIN vectors = {} => entry_layer = -1
    /\ entry_point # NoKey =>
          /\ entry_point \in DOMAIN vectors
          /\ entry_layer = vectors[entry_point].layer
          /\ \A k \in DOMAIN vectors : vectors[k].layer <= entry_layer

\* P2, the check verify() asserts: an edge b in k's list at a layer both
\* lists reach is matched by k in b's list.  erase and prune_connections
\* must remove both halves of every edge they drop.
Symmetry ==
    \A k \in DOMAIN vectors : \A l \in 0..vectors[k].layer :
        \A b \in ToSet(ConnAt(vectors, k, l)) :
            (b \in DOMAIN vectors /\ l < Len(vectors[b].connections))
                => Contains(vectors[b].connections[l + 1], k)

\* P5: once erase(k) returns, no remaining node lists k at any layer.
NoDanglingNeighbors ==
    \A k \in DOMAIN vectors : \A l \in 1..Len(vectors[k].connections) :
        ToSet(vectors[k].connections[l]) \subseteq DOMAIN vectors

(***************************************************************************)
(* The rows a search can ever reach from the entry point: the closure of   *)
(* the adjacency lists of every layer, which are all the layer descent     *)
(* and the layer-0 search follow.                                          *)
(***************************************************************************)
RECURSIVE Reachable(_, _)
Reachable(G, seen) ==
    LET next == seen \cup {n \in DOMAIN G : \E k \in seen :
                   \E l \in 1..Len(G[k].connections) : Contains(G[k].connections[l], n)}
    IN IF next = seen THEN seen ELSE Reachable(G, next)

\* The graph stays navigable (spec 1, OQ3 "poorly connected" rows aside):
\* every indexed row is reachable from the entry point, so some search can
\* return it.  prune_connections drops both halves of an edge and may drop
\* the last edge into a row.
Navigable ==
    entry_point # NoKey => Reachable(vectors, {entry_point}) = DOMAIN vectors

\* Spec invariant 5: no node has itself as a neighbour.  set(k) is erase(k)
\* then insert(k); erase bounds its loop by the erased node's layer, so an
\* edge to k above that layer survives, and the insert's own search then
\* finds the new node k through it and connect_nodes(k, k) links k to
\* itself.
NoSelfLoops ==
    \A k \in DOMAIN vectors : \A l \in 1..Len(vectors[k].connections) :
        ~Contains(vectors[k].connections[l], k)

\* The graph implements the promise of HNSWRows: every write operation,
\* rebuild and reopen included, changes the set of indexed rows only as
\* insert, erase and clear do.
RowsRefined == Rows!Spec
=============================================================================
