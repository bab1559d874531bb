----------------------------- MODULE MCMergeMap -----------------------------
EXTENDS MergeMap

(* The target only has to tell the merges apart.                           *)
Triples == {<<a, b, (a + b) % 2>> : a, b \in Ids}
AllTables == UNION {[1 .. n -> Triples] : n \in 0 .. 3}
=============================================================================
