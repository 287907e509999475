------------------------------ MODULE LruCache ------------------------------
(***************************************************************************)
(* What the response cache promises a caller that is alone: a bounded      *)
(* cache whose operations are atomic.  It evicts the least recently used   *)
(* response, and only when a new key finds it full; an invalidation by tag *)
(* drops every response of the route and no other.                         *)
(***************************************************************************)
EXTENDS Integers, FiniteSets

CONSTANTS Keys, Tags, TagOf, Bound, MaxSets

VARIABLES
  store,   \* the response stored under each key, 0 when there is none
  older    \* the pairs of stored keys the first of which was used before the other

absVars == <<store, older>>

Init ==
  /\ store = [k \in Keys |-> 0]
  /\ older = {}

Held == {k \in Keys : store[k] # 0}

\* The order of those of the keys K that stay, and with k used after them.
Among(K) == older \cap (K \X K)
UsedLast(K, k) == Among(K \ {k}) \cup ((K \ {k}) \X {k})

Oldest(k) == k \in Held /\ \A j \in Held \ {k} : <<k, j>> \in older

Hit(k) ==
  /\ k \in Held
  /\ older' = UsedLast(Held, k)
  /\ UNCHANGED store

Overwrite(k, i) ==
  /\ k \in Held
  /\ store' = [store EXCEPT ![k] = i]
  /\ older' = UsedLast(Held, k)

Add(k, i) ==
  /\ k \notin Held
  /\ Cardinality(Held) < Bound
  /\ store' = [store EXCEPT ![k] = i]
  /\ older' = UsedLast(Held, k)

AddEvicting(k, i) ==
  /\ k \notin Held
  /\ Cardinality(Held) = Bound
  /\ \E v \in Keys :
       /\ Oldest(v)
       /\ store' = [store EXCEPT ![v] = 0, ![k] = i]
       /\ older' = UsedLast(Held \ {v}, k)

Drop(K) ==
  /\ store' = [k \in Keys |-> IF k \in K THEN 0 ELSE store[k]]
  /\ older' = Among(Keys \ K)

Next ==
  \/ \E k \in Keys : Hit(k) \/ Drop({k})
  \/ \E k \in Keys, i \in 1..MaxSets :
       Overwrite(k, i) \/ Add(k, i) \/ AddEvicting(k, i)
  \/ \E g \in Tags : Drop({k \in Keys : TagOf[k] = g})

Spec == Init /\ [][Next]_absVars
=============================================================================
