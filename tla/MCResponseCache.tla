-------------------------- MODULE MCResponseCache --------------------------
(* ResponseCache for TLC: two routes, /a with an HTML and an RSC key, and  *)
(* /b with an RSC key; the keys of a route carry its path as their tag.    *)
EXTENDS ResponseCacheAtomic

CONSTANTS t1, t2, aHtml, aRsc, bRsc, tagA, tagB

TwoTasks == {t1, t2}
OneTask == {t1}
AllKeys == {aHtml, aRsc, bRsc}
RscKeys == {aRsc, bRsc}
EachKind == {aHtml, bRsc}
OneHtml == {aHtml}
NoKeys == {}
BothTags == {tagA, tagB}
RouteTag == [k \in Keys |-> IF k = bRsc THEN tagB ELSE tagA]
=============================================================================
