---------------------------- MODULE MC_HNSWCApi ----------------------------
(* One table (class 1) with two columns; class 2 names no table and       *)
(* property 3 is no column.  Column 1 starts with a general index.        *)
EXTENDS HNSWCApi

MCColsOf == (1 :> {1, 2})
MCInitKind == (<<1, 1>> :> "general") @@ (<<1, 2>> :> "none")
=============================================================================
