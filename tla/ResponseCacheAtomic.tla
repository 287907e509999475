------------------------ MODULE ResponseCacheAtomic ------------------------
(***************************************************************************)
(* With one task the response cache implements LruCache.  An operation     *)
(* takes effect at one of its steps: set at its test, invalidate_by_tag at *)
(* its copy, the others at the step that removes or promotes.  The mapping *)
(* completes the operation the task is in: it applies to the three         *)
(* structures what its remaining steps will do.                            *)
(***************************************************************************)
EXTENDS ResponseCache

CONSTANT Only       \* the task

In(labels) == pc[Only] \in labels

Self == task[Only]

(* The keys the task has still to remove or to unlink.                     *)
Leaving ==
  IF In({"purge", "unindex", "unlink", "uncount"})
  THEN Self.todo \cup (IF In({"unindex", "unlink"}) THEN {Self.key} ELSE {})
  ELSE IF In({"evict"}) /\ lru # <<>> THEN {Head(lru)}
  ELSE IF In({"evicted"}) THEN {Self.victim}
  ELSE {}

Settled == [k \in Keys |->
  IF In({"evict", "evicted", "index", "insert"}) /\ k = Self.key THEN Self.id
  ELSE IF k \in Leaving THEN 0
  ELSE cache[k]]

(* The pairs of the keys K that follow each other in the list.             *)
Order(list, K) ==
  {p \in K \X K : \E i, j \in DOMAIN list : i < j /\ p = <<list[i], list[j]>>}

Staying == ToSet(lru) \ Leaving

SettledOrder ==
  IF In({"evict", "evicted", "index", "insert", "link"})
  THEN Order(lru, Staying \ {Self.key}) \cup ((Staying \ {Self.key}) \X {Self.key})
  ELSE Order(lru, Staying)

Abstract == INSTANCE LruCache WITH
              store <- Settled, older <- SettledOrder,
              Bound <- IF MaxEntries = 0 THEN 1 ELSE MaxEntries

(* Every operation of a lone task, with all its critical sections, is one  *)
(* operation of a bounded LRU cache.                                       *)
ImplementsLruCache == Abstract!Spec
=============================================================================
