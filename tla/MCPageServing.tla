----------------------------- MODULE MCPageServing -----------------------------
(***************************************************************************)
(* Instance for TLC: two tasks and one path, whose page is asked for with  *)
(* and without a query.                                                    *)
(***************************************************************************)
EXTENDS PageServing, TLC
CONSTANTS t1, t2, zstd, gzip
RouteOfPage == [p \in Page |-> "a"]
Symmetry == Permutations({t1, t2}) \cup Permutations({zstd, gzip})
=============================================================================
