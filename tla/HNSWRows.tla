------------------------------ MODULE HNSWRows ------------------------------
(***************************************************************************)
(* What the index promises its host: the set of indexed rows and the       *)
(* vector each was indexed with.  insert(k) indexes k with its column's    *)
(* vector, erase(k) drops it, clear() drops all.  rebuild() "tears down    *)
(* and reinserts every node" (spec 4.G, 6) and reopening reads back what   *)
(* was saved, so neither changes the set; searches change nothing.         *)
(***************************************************************************)
CONSTANTS Keys, Vectors

VARIABLE rows    \* row key -> indexed vector

Init == rows = [k \in {} |-> Keys]

InsertRow(k, v) ==
    rows' = [x \in DOMAIN rows \cup {k} |-> IF x = k THEN v ELSE rows[x]]

EraseRow(k) ==
    /\ k \in DOMAIN rows
    /\ rows' = [x \in DOMAIN rows \ {k} |-> rows[x]]

ClearRows == rows' = [k \in {} |-> Keys]

Next ==
    \/ \E k \in Keys, v \in Vectors : InsertRow(k, v)
    \/ \E k \in Keys : EraseRow(k)
    \/ ClearRows

Spec == Init /\ [][Next]_rows
=============================================================================
