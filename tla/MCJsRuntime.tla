---------------------------- MODULE MCJsRuntime ----------------------------
(* JsRuntime for TLC.                                                      *)
EXTENDS JsRuntime, TLC

CONSTANTS s1, s2, b1, b2, m1

NoRequests == {}
TwoScripts == {s1, s2}
OneBatch == {b1}
TwoBatches == {b1, b2}
OneModule == {m1}
Symmetry == Permutations(Scripts) \cup Permutations(Batches)
=============================================================================
