---------------------------- MODULE MCFetchCache ----------------------------
(* FetchCache for TLC: one URL fetched with and without a tag, so under    *)
(* two deduplication keys, and another URL.                                *)
EXTENDS FetchCache, TLC

CONSTANTS c1, c2, c3, plainKey, taggedKey, otherKey, url, otherUrl

ThreeCalls == {c1, c2, c3}
TwoCalls == {c1, c2}
TwoKeys == {plainKey, taggedKey}
AllKeys == {plainKey, taggedKey, otherKey}
KeyUrl == [k \in JsKeys |-> IF k = otherKey THEN otherUrl ELSE url]
BothUrls == {url, otherUrl}
OneUrl == {url}

TwoTtls == {None, 2}
WithZero == {None, 0}
Always == {TRUE}
Either == {TRUE, FALSE}
Symmetry == Permutations(Calls)
=============================================================================
