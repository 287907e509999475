------------------------ MODULE ResponseCacheProofs ------------------------
(***************************************************************************)
(* Theorems about ResponseCache, for every set of tasks, keys and tags and *)
(* every bound.                                                            *)
(***************************************************************************)
EXTENDS ResponseCacheAtomic, SequenceTheorems, FiniteSetTheorems,
        WellFoundedInduction, TLAPS

-----------------------------------------------------------------------------
(* Lemmas about sequences: the LRU list.                                   *)

(* A set of naturals that is not empty has a least element.                *)
LEMMA MinType ==
  ASSUME NEW I, I \subseteq Nat, I # {}
  PROVE  Min(I) \in I
<1>1. PICK x \in I : \A y \in I : ~ (<<y, x>> \in OpToRel(<, Nat))
  BY NatLessThanWellFounded, WFMin
<1>2. \A y \in I : ~ (y < x)
  BY <1>1 DEF OpToRel
<1>3. \A y \in I : x <= y
  BY <1>2
<1> QED
  BY <1>3 DEF Min

(* Leaving one element out of a sequence.                                  *)
LEMMA RemoveAtType ==
  ASSUME NEW S, NEW s \in Seq(S), NEW p \in 1..Len(s)
  PROVE  RemoveAt(s, p) \in Seq(S) /\ Len(RemoveAt(s, p)) = Len(s) - 1
<1> DEFINE before == SubSeq(s, 1, p - 1)
           after == SubSeq(s, p + 1, Len(s))
<1>1. before \in Seq(S) /\ Len(before) = p - 1
  BY SubSeqProperties, ElementOfSeq
<1>2. after \in Seq(S) /\ Len(after) = Len(s) - p
  BY SubSeqProperties, ElementOfSeq
<1>3. RemoveAt(s, p) = before \o after
  BY DEF RemoveAt
<1>4. Len(s) \in Nat /\ p \in Nat
  OBVIOUS
<1> HIDE DEF before, after
<1>5. before \o after \in Seq(S) /\ Len(before \o after) = Len(before) + Len(after)
  BY <1>1, <1>2, ConcatProperties
<1> QED
  BY <1>1, <1>2, <1>3, <1>4, <1>5

(* Popping a key from an LRU list leaves a sequence of keys, no longer.    *)
LEMMA RemoveFirstType ==
  ASSUME NEW S, NEW s \in Seq(S), NEW e
  PROVE  RemoveFirst(s, e) \in Seq(S) /\ Len(RemoveFirst(s, e)) <= Len(s)
<1>1. CASE \E i \in 1..Len(s) : s[i] = e
  <2> DEFINE I == {i \in 1..Len(s) : s[i] = e}
  <2>1. I # {} /\ I \subseteq Nat
    BY <1>1
  <2>2. Min(I) \in 1..Len(s)
    BY <2>1, MinType
  <2>3. SelectInSeq(s, LAMBDA v : v = e) = Min(I)
    BY <2>1 DEF SelectInSeq
  <2>4. /\ RemoveAt(s, Min(I)) \in Seq(S)
        /\ Len(RemoveAt(s, Min(I))) = Len(s) - 1
    BY <2>2, RemoveAtType
  <2>5. RemoveFirst(s, e) = RemoveAt(s, Min(I))
    BY <1>1, <2>3 DEF RemoveFirst
  <2>6. Len(s) \in Nat
    OBVIOUS
  <2> HIDE DEF I
  <2> QED
    BY <2>4, <2>5, <2>6
<1> QED
  BY <1>1 DEF RemoveFirst

(* What lies where after an element was left out.                          *)
LEMMA RemoveAtElements ==
  ASSUME NEW S, NEW s \in Seq(S), NEW p \in 1..Len(s), NEW i \in 1..(Len(s) - 1)
  PROVE  RemoveAt(s, p)[i] = IF i < p THEN s[i] ELSE s[i + 1]
<1> DEFINE before == SubSeq(s, 1, p - 1)
           after == SubSeq(s, p + 1, Len(s))
<1>1. /\ before \in Seq(S) /\ Len(before) = p - 1
      /\ \A j \in 1..(p - 1) : before[j] = s[j]
  BY SubSeqProperties, ElementOfSeq
<1>2. /\ after \in Seq(S) /\ Len(after) = Len(s) - p
      /\ \A j \in 1..(Len(s) - p) : after[j] = s[p + j]
  BY SubSeqProperties, ElementOfSeq
<1>3. RemoveAt(s, p) = before \o after
  BY DEF RemoveAt
<1>4. Len(s) \in Nat /\ p \in Nat /\ i \in Nat
  OBVIOUS
<1> HIDE DEF before, after
<1>5. \A j \in 1..(Len(before) + Len(after)) :
        (before \o after)[j] = IF j <= Len(before) THEN before[j]
                               ELSE after[j - Len(before)]
  BY <1>1, <1>2, ConcatProperties
<1>6. CASE i < p
  BY <1>1, <1>2, <1>3, <1>4, <1>5, <1>6
<1>7. CASE ~(i < p)
  <2>1. (before \o after)[i] = after[i - (p - 1)]
    BY <1>1, <1>2, <1>4, <1>5, <1>7
  <2>2. i - (p - 1) \in 1..(Len(s) - p) /\ p + (i - (p - 1)) = i + 1
    BY <1>4, <1>7
  <2> QED
    BY <1>2, <1>3, <1>7, <2>1, <2>2
<1> QED
  BY <1>6, <1>7

(* The key that is removed is left out where it first occurs.              *)
LEMMA RemoveFirstAt ==
  ASSUME NEW S, NEW s \in Seq(S), NEW e, e \in ToSet(s)
  PROVE  \E p \in 1..Len(s) : s[p] = e /\ RemoveFirst(s, e) = RemoveAt(s, p)
<1> DEFINE I == {i \in 1..Len(s) : s[i] = e}
           p == Min(I)
<1>1. \E i \in 1..Len(s) : s[i] = e
  BY DEF ToSet
<1>2. I # {} /\ I \subseteq Nat
  BY <1>1
<1>3. p \in 1..Len(s) /\ s[p] = e
  BY <1>2, MinType
<1>4. SelectInSeq(s, LAMBDA v : v = e) = p
  BY <1>1, <1>2 DEF SelectInSeq
<1>5. RemoveFirst(s, e) = RemoveAt(s, p)
  BY <1>1, <1>4 DEF RemoveFirst
<1> QED
  BY <1>3, <1>5

Distinct(s) == \A i, j \in 1..Len(s) : s[i] = s[j] => i = j

(* A list that names each of its keys once loses the key that is removed,  *)
(* and no other.                                                           *)
LEMMA RemoveFirstDistinct ==
  ASSUME NEW S, NEW s \in Seq(S), Distinct(s), NEW e
  PROVE  /\ Distinct(RemoveFirst(s, e))
         /\ ToSet(RemoveFirst(s, e)) = ToSet(s) \ {e}
         /\ e \in ToSet(s) => Len(RemoveFirst(s, e)) = Len(s) - 1
<1>1. CASE \E i \in 1..Len(s) : s[i] = e
  <2> DEFINE I == {i \in 1..Len(s) : s[i] = e}
             p == Min(I)
             r == RemoveAt(s, p)
  <2>1. I # {} /\ I \subseteq Nat
    BY <1>1
  <2>2. p \in 1..Len(s) /\ s[p] = e
    BY <2>1, MinType
  <2>3. SelectInSeq(s, LAMBDA v : v = e) = p
    BY <2>1 DEF SelectInSeq
  <2>4. RemoveFirst(s, e) = r
    BY <1>1, <2>3 DEF RemoveFirst
  <2>5. r \in Seq(S) /\ Len(r) = Len(s) - 1
    BY <2>2, RemoveAtType
  <2>6. \A i \in 1..(Len(s) - 1) : r[i] = IF i < p THEN s[i] ELSE s[i + 1]
    BY <2>2, RemoveAtElements
  <2>7. Len(s) \in Nat /\ p \in Nat
    BY <2>2
  <2> HIDE DEF I, p, r
  <2>8. Distinct(r)
    BY <2>5, <2>6, <2>7 DEF Distinct
  <2>9. ASSUME NEW x PROVE x \in ToSet(r) <=> x \in ToSet(s) \ {e}
    <3>1. ASSUME x \in ToSet(r) PROVE x \in ToSet(s) \ {e}
      <4>1. PICK i \in 1..(Len(s) - 1) : x = r[i]
        BY <3>1, <2>5 DEF ToSet
      <4>2. CASE i < p
        BY <4>1, <4>2, <2>2, <2>6, <2>7 DEF ToSet, Distinct
      <4>3. CASE ~(i < p)
        BY <4>1, <4>3, <2>2, <2>6, <2>7 DEF ToSet, Distinct
      <4> QED
        BY <4>2, <4>3
    <3>2. ASSUME x \in ToSet(s) \ {e} PROVE x \in ToSet(r)
      <4>1. PICK i \in 1..Len(s) : x = s[i]
        BY <3>2 DEF ToSet
      <4>2. CASE i < p
        BY <4>1, <4>2, <2>2, <2>5, <2>6, <2>7 DEF ToSet
      <4>3. CASE i > p
        <5>1. i \in Nat /\ i <= Len(s) /\ p >= 1
          BY <2>2, <2>7
        <5>2. i - 1 \in 1..(Len(s) - 1) /\ ~(i - 1 < p) /\ (i - 1) + 1 = i
          BY <4>3, <5>1, <2>7
        <5> QED
          BY <4>1, <5>2, <2>5, <2>6 DEF ToSet
      <4>4. i # p
        BY <4>1, <3>2, <2>2
      <4> QED
        BY <4>2, <4>3, <4>4, <2>7
    <3> QED
      BY <3>1, <3>2
  <2> QED
    BY <2>4, <2>5, <2>8, <2>9
<1>2. CASE ~\E i \in 1..Len(s) : s[i] = e
  <2>1. RemoveFirst(s, e) = s
    BY <1>2 DEF RemoveFirst
  <2>2. e \notin ToSet(s)
    BY <1>2 DEF ToSet
  <2> QED
    BY <2>1, <2>2
<1> QED
  BY <1>1, <1>2

LEMMA AppendDistinct ==
  ASSUME NEW S, NEW s \in Seq(S), Distinct(s), NEW e \in S, e \notin ToSet(s)
  PROVE  /\ Distinct(Append(s, e))
         /\ ToSet(Append(s, e)) = ToSet(s) \cup {e}
<1>1. /\ Len(Append(s, e)) = Len(s) + 1 /\ Len(s) \in Nat
      /\ \A i \in 1..Len(s) : Append(s, e)[i] = s[i]
      /\ Append(s, e)[Len(s) + 1] = e
      /\ DOMAIN Append(s, e) = 1..(Len(s) + 1)
  BY AppendProperties
<1>2. \A i \in 1..Len(s) : s[i] # e
  BY DEF ToSet
<1>3. Distinct(Append(s, e))
  BY <1>1, <1>2 DEF Distinct
<1>4. ToSet(Append(s, e)) = ToSet(s) \cup {e}
  BY <1>1 DEF ToSet
<1> QED
  BY <1>3, <1>4

LEMMA TailDistinct ==
  ASSUME NEW S, NEW s \in Seq(S), Distinct(s), s # <<>>
  PROVE  /\ Distinct(Tail(s))
         /\ ToSet(Tail(s)) = ToSet(s) \ {Head(s)}
         /\ Len(Tail(s)) = Len(s) - 1
         /\ Head(s) \in ToSet(s)
<1>1. /\ Len(s) \in Nat \ {0} /\ Head(s) = s[1]
      /\ Len(Tail(s)) = Len(s) - 1 /\ DOMAIN Tail(s) = 1..(Len(s) - 1)
      /\ \A i \in 1..(Len(s) - 1) : Tail(s)[i] = s[i + 1]
  BY HeadTailProperties, EmptySeq
<1>2. Distinct(Tail(s))
  BY <1>1 DEF Distinct
<1>3. ASSUME NEW x PROVE x \in ToSet(Tail(s)) <=> x \in ToSet(s) \ {Head(s)}
  <2>1. ASSUME x \in ToSet(Tail(s)) PROVE x \in ToSet(s) \ {Head(s)}
    BY <2>1, <1>1 DEF ToSet, Distinct
  <2>2. ASSUME x \in ToSet(s) \ {Head(s)} PROVE x \in ToSet(Tail(s))
    <3>1. PICK i \in 1..Len(s) : x = s[i]
      BY <2>2 DEF ToSet
    <3>2. i - 1 \in 1..(Len(s) - 1) /\ (i - 1) + 1 = i
      BY <3>1, <2>2, <1>1
    <3> QED
      BY <3>1, <3>2, <1>1 DEF ToSet
  <2> QED
    BY <2>1, <2>2
<1>4. Head(s) \in ToSet(s)
  BY <1>1 DEF ToSet
<1> QED
  BY <1>1, <1>2, <1>3, <1>4

(* A sequence has no more elements than places.                            *)
LEMMA ToSetCardinality ==
  ASSUME NEW S, NEW s \in Seq(S)
  PROVE  IsFiniteSet(ToSet(s)) /\ Cardinality(ToSet(s)) <= Len(s)
<1>1. Len(s) \in Nat
  OBVIOUS
<1>2. IsFiniteSet(1..Len(s)) /\ Cardinality(1..Len(s)) = Len(s)
  BY <1>1, FS_Interval
<1>3. s \in Surjection(1..Len(s), ToSet(s))
  BY DEF Surjection, ToSet
<1> QED
  BY <1>2, <1>3, FS_Surjection

-----------------------------------------------------------------------------

LEMMA CountType == Cardinality(Cached) \in Nat
  BY ConstantsAssumption, FS_Subset, FS_CardinalityType DEF Cached

(* The locals keep their types under the updates the actions make.         *)
LEMMA BlankType == Blank \in Locals
  BY DEF Blank, Locals

LEMMA LocalsFields ==
  ASSUME NEW r \in Locals
  PROVE  /\ r.key \in Keys \cup {None}
         /\ r.id \in Ids \cup {0}
         /\ r.victim \in Keys \cup {None}
         /\ r.tag \in Tags \cup {None}
         /\ r.todo \in SUBSET Keys
         /\ r.then \in {"idle", "purge"}
  BY DEF Locals

LEMMA RemoveEntryType ==
  ASSUME TypeOK, NEW t \in Tasks, NEW k \in Keys, NEW l \in {"idle", "purge"},
         NEW rest \in Locals, RemoveEntry(t, k, l, rest)
  PROVE  /\ cache' \in [Keys -> Ids \cup {0}]
         /\ task' \in [Tasks -> Locals]
         /\ pc' \in [Tasks -> Labels]
<1>1. [rest EXCEPT !.key = k, !.then = l] \in Locals
  BY DEF Locals
<1> QED
  BY <1>1 DEF TypeOK, RemoveEntry, Goto, Labels

(* The first critical section of an invalidation, field by field.          *)
LEMMA RemoveEntryLocals ==
  ASSUME TypeOK, NEW t \in Tasks, NEW k \in Keys, NEW l \in {"idle", "purge"},
         NEW rest \in Locals, RemoveEntry(t, k, l, rest)
  PROVE  /\ \A u \in Tasks \ {t} : pc'[u] = pc[u] /\ task'[u] = task[u]
         /\ \/ /\ pc'[t] = "unindex"
               /\ task'[t].key = k
               /\ task'[t].then = l
               /\ task'[t].tag = rest.tag
            \/ pc'[t] = l /\ task'[t] = rest
<1>1. /\ [rest EXCEPT !.key = k, !.then = l].key = k
      /\ [rest EXCEPT !.key = k, !.then = l].then = l
      /\ [rest EXCEPT !.key = k, !.then = l].tag = rest.tag
  BY DEF Locals
<1> QED
  BY <1>1 DEF TypeOK, RemoveEntry, Goto

LEMMA InitIInv == Init => IInv
<1> SUFFICES ASSUME Init PROVE IInv
  OBVIOUS
<1>1. TypeOK
  <2>1. restored \in BOOLEAN
    BY Zenon DEF Init
  <2>2. task \in [Tasks -> Locals] /\ pc \in [Tasks -> Labels]
    BY BlankType DEF Init, Labels
  <2> QED
    BY <2>1, <2>2, ConstantsAssumption, EmptySeq DEF Init, TypeOK, Ids
<1>2. LocalsInUse
  BY DEF Init, LocalsInUse, Blank
<1>3. ResponsesDistinct
  BY DEF Init, ResponsesDistinct, Setting, Cached
<1> QED
  BY <1>1, <1>2, <1>3 DEF IInv

LEMMA StepTypeOK == TypeOK /\ LocalsInUse /\ [Next]_vars => TypeOK'
<1> SUFFICES ASSUME TypeOK, LocalsInUse, [Next]_vars PROVE TypeOK'
  OBVIOUS
<1> USE ConstantsAssumption, BlankType DEF TypeOK, Labels, Goto, Return
<1>0. CASE UNCHANGED vars
  BY <1>0 DEF vars
<1>1. CASE \E i \in Ids : Expire(i)
  BY <1>1 DEF Expire
<1>2. ASSUME NEW t \in Tasks, NEW k \in Keys, Invalidate(t, k) PROVE TypeOK'
  BY <1>2, RemoveEntryType DEF Invalidate
<1>3. ASSUME NEW t \in Tasks, Unindex(t) PROVE TypeOK'
  BY <1>3 DEF Unindex, LocalsInUse
<1>4. ASSUME NEW t \in Tasks, Unlink(t) PROVE TypeOK'
  BY <1>4, RemoveFirstType DEF Unlink
<1>5. ASSUME NEW t \in Tasks, Uncount(t) PROVE TypeOK'
  <2>1. [task[t] EXCEPT !.key = None, !.then = "idle"] \in Locals
    BY DEF Locals
  <2>2. task' \in [Tasks -> Locals]
    BY <1>5, <2>1 DEF Uncount
  <2>3. task[t].then \in Labels
    BY LocalsFields
  <2>4. pc' \in [Tasks -> Labels]
    BY <1>5, <2>3 DEF Uncount
  <2> QED
    BY <1>5, <2>2, <2>4, CountType DEF Uncount
<1>6. ASSUME NEW t \in Tasks, NEW g \in Tags, PurgeSnapshot(t, g) PROVE TypeOK'
  <2>1. [task[t] EXCEPT !.tag = g, !.todo = index[g]] \in Locals
    BY DEF Locals
  <2>2. task' \in [Tasks -> Locals]
    BY <1>6, <2>1 DEF PurgeSnapshot
  <2> QED
    BY <1>6, <2>2 DEF PurgeSnapshot
<1>7. ASSUME NEW t \in Tasks, PurgeNext(t) PROVE TypeOK'
  <2>1. PICK k \in task[t].todo :
          RemoveEntry(t, k, "purge", [task[t] EXCEPT !.todo = @ \ {k}])
    BY <1>7 DEF PurgeNext
  <2>2. k \in Keys /\ task[t].todo \ {k} \in SUBSET Keys
    BY LocalsFields
  <2>3. [task[t] EXCEPT !.todo = @ \ {k}] \in Locals
    BY <2>2 DEF Locals
  <2> QED
    BY <1>7, <2>1, <2>2, <2>3, RemoveEntryType DEF PurgeNext
<1>8. ASSUME NEW t \in Tasks, PurgeTag(t) PROVE TypeOK'
  BY <1>8 DEF PurgeTag
<1>9. ASSUME NEW t \in Tasks, NEW k \in Keys, GetLookup(t, k) PROVE TypeOK'
  <2>1. [task[t] EXCEPT !.key = k, !.id = cache[k]] \in Locals
    BY DEF Locals
  <2>2. task' \in [Tasks -> Locals]
    BY <1>9, <2>1 DEF GetLookup
  <2> QED
    BY <1>9, <2>2 DEF GetLookup
<1>10. ASSUME NEW t \in Tasks, GetExpired(t) PROVE TypeOK'
  BY <1>10, RemoveEntryType DEF GetExpired, LocalsInUse
<1>11. ASSUME NEW t \in Tasks, GetValid(t) PROVE TypeOK'
  BY <1>11 DEF GetValid
<1>12. ASSUME NEW t \in Tasks, GetPromote(t) PROVE TypeOK'
  BY <1>12, RemoveFirstType, AppendProperties DEF GetPromote, LocalsInUse
<1>13. ASSUME NEW t \in Tasks, Serve(t) PROVE TypeOK'
  BY <1>13 DEF Serve
<1>14. ASSUME NEW t \in Tasks, UpdateTest(t) PROVE TypeOK'
  BY <1>14 DEF UpdateTest
<1>15. ASSUME NEW t \in Tasks, UpdateInsert(t) PROVE TypeOK'
  BY <1>15, LocalsFields DEF UpdateInsert
<1>16. ASSUME NEW t \in Tasks, NEW k \in Keys, SetTest(t, k) PROVE TypeOK'
  <2>1. sets + 1 \in Ids
    BY <1>16 DEF SetTest, Ids
  <2>2. [task[t] EXCEPT !.key = k, !.id = sets + 1] \in Locals
    BY <2>1 DEF Locals
  <2>3. task' \in [Tasks -> Locals]
    BY <1>16, <2>2 DEF SetTest
  <2>4. pc' \in [Tasks -> Labels]
    BY <1>16 DEF SetTest
  <2> QED
    BY <1>16, <2>1, <2>3, <2>4 DEF SetTest, Ids
<1>17. ASSUME NEW t \in Tasks, EvictPop(t) PROVE TypeOK'
  <2>1. CASE lru = <<>>
    BY <1>17, <2>1 DEF EvictPop
  <2>2. CASE lru # <<>>
    <3>1. Head(lru) \in Keys /\ Tail(lru) \in Seq(Keys)
      BY <2>2, HeadTailProperties
    <3>2. [task[t] EXCEPT !.victim = Head(lru)] \in Locals
      BY <3>1 DEF Locals
    <3>3. task' \in [Tasks -> Locals]
      BY <1>17, <2>2, <3>2 DEF EvictPop
    <3> QED
      BY <1>17, <2>2, <3>1, <3>3 DEF EvictPop
  <2> QED
    BY <2>1, <2>2
<1>18. ASSUME NEW t \in Tasks, EvictRemove(t) PROVE TypeOK'
  <2>1. [task[t] EXCEPT !.victim = None] \in Locals
    BY DEF Locals
  <2>2. task' \in [Tasks -> Locals]
    BY <1>18, <2>1 DEF EvictRemove
  <2> QED
    BY <1>18, <2>2 DEF EvictRemove
<1>19. ASSUME NEW t \in Tasks, SetIndex(t) PROVE TypeOK'
  BY <1>19 DEF SetIndex, LocalsInUse
<1>20. ASSUME NEW t \in Tasks, SetInsert(t) PROVE TypeOK'
  <2>1. [task[t] EXCEPT !.id = 0] \in Locals
    BY DEF Locals
  <2>2. task' \in [Tasks -> Locals]
    BY <1>20, <2>1 DEF SetInsert
  <2> QED
    BY <1>20, <2>2, LocalsFields DEF SetInsert
<1>21. ASSUME NEW t \in Tasks, SetLink(t) PROVE TypeOK'
  <2> DEFINE k == task[t].key
  <2>1. k \in Keys
    BY <1>21 DEF SetLink, LocalsInUse
  <2>2. Append(RemoveFirst(lru, k), k) \in Seq(Keys)
    BY <2>1, RemoveFirstType, AppendProperties
  <2>3. Append(lru, k) \in Seq(Keys)
    BY <2>1, AppendProperties
  <2>4. Len(lru) >= LruCap => Append(Tail(lru), k) \in Seq(Keys)
    BY <2>1, HeadTailProperties, AppendProperties, EmptySeq DEF LruCap
  <2>5. LruPut(lru, k) \in Seq(Keys)
    BY <2>2, <2>3, <2>4 DEF LruPut
  <2> QED
    BY <1>21, <2>5 DEF SetLink
<1>22. ASSUME NEW t \in Tasks, SetCount(t) PROVE TypeOK'
  BY <1>22, CountType DEF SetCount
<1> QED
  BY <1>0, <1>1, <1>2, <1>3, <1>4, <1>5, <1>6, <1>7, <1>8, <1>9, <1>10, <1>11,
     <1>12, <1>13, <1>14, <1>15, <1>16, <1>17, <1>18, <1>19, <1>20, <1>21, <1>22
  DEF Next, Call, Step, Get, Set, Drop

(* What a step does to the responses on their way into the cache: none     *)
(* appears but the one a new `set` brings, which gets the next number.     *)
Arrivals ==
  /\ sets' \in {sets, sets + 1}
  /\ \A u \in Setting' :
       IF u \in Setting THEN task'[u].id = task[u].id
       ELSE sets' = sets + 1 /\ task'[u].id = sets'
  /\ \A u, v \in Setting' \ Setting : u = v

LEMMA StepArrivals == TypeOK /\ LocalsInUse /\ [Next]_vars => Arrivals
<1> SUFFICES ASSUME TypeOK, LocalsInUse, [Next]_vars PROVE Arrivals
  OBVIOUS
<1> USE DEF TypeOK, Goto, Return, Setting, Arrivals
<1>0. CASE UNCHANGED vars
  BY <1>0 DEF vars
<1>1. CASE \E i \in Ids : Expire(i)
  BY <1>1 DEF Expire
<1>2. ASSUME NEW t \in Tasks, NEW k \in Keys, Invalidate(t, k) PROVE Arrivals
  BY <1>2 DEF Invalidate, RemoveEntry
<1>3. ASSUME NEW t \in Tasks, Uncount(t) PROVE Arrivals
  BY <1>3, LocalsFields DEF Uncount
<1>4. ASSUME NEW t \in Tasks, NEW g \in Tags, PurgeSnapshot(t, g) PROVE Arrivals
  BY <1>4 DEF PurgeSnapshot
<1>5. ASSUME NEW t \in Tasks, PurgeNext(t) PROVE Arrivals
  BY <1>5 DEF PurgeNext, RemoveEntry
<1>6. ASSUME NEW t \in Tasks, NEW k \in Keys, GetLookup(t, k) PROVE Arrivals
  BY <1>6 DEF GetLookup
<1>7. ASSUME NEW t \in Tasks, GetExpired(t) PROVE Arrivals
  BY <1>7 DEF GetExpired, RemoveEntry
<1>8. ASSUME NEW t \in Tasks, NEW k \in Keys, SetTest(t, k) PROVE Arrivals
  <2>1. sets' = sets + 1
    BY <1>8 DEF SetTest
  <2>2. task'[t].id = sets + 1
    <3>1. task'[t] = [task[t] EXCEPT !.key = k, !.id = sets + 1]
      BY <1>8 DEF SetTest
    <3> QED
      BY <3>1 DEF Locals
  <2>3. \A u \in Tasks \ {t} : task'[u] = task[u] /\ pc'[u] = pc[u]
    BY <1>8 DEF SetTest
  <2>4. t \notin Setting
    BY <1>8 DEF SetTest
  <2> QED
    BY <2>1, <2>2, <2>3, <2>4
<1>9. ASSUME NEW t \in Tasks, EvictPop(t) PROVE Arrivals
  <2>1. \A u \in Tasks : task'[u].id = task[u].id
    BY <1>9 DEF EvictPop, Locals
  <2>2. \A u \in Tasks : u \in Setting' <=> u \in Setting
    BY <1>9 DEF EvictPop
  <2>3. sets' = sets
    BY <1>9 DEF EvictPop
  <2> QED
    BY <2>1, <2>2, <2>3
<1>10. ASSUME NEW t \in Tasks, Unindex(t) PROVE Arrivals
  BY <1>10 DEF Unindex
<1>11. ASSUME NEW t \in Tasks, Unlink(t) PROVE Arrivals
  BY <1>11 DEF Unlink
<1>12. ASSUME NEW t \in Tasks, PurgeTag(t) PROVE Arrivals
  BY <1>12 DEF PurgeTag
<1>13. ASSUME NEW t \in Tasks, GetValid(t) PROVE Arrivals
  BY <1>13 DEF GetValid
<1>14. ASSUME NEW t \in Tasks, GetPromote(t) PROVE Arrivals
  BY <1>14 DEF GetPromote
<1>15. ASSUME NEW t \in Tasks, Serve(t) PROVE Arrivals
  BY <1>15 DEF Serve
<1>16. ASSUME NEW t \in Tasks, UpdateTest(t) PROVE Arrivals
  BY <1>16 DEF UpdateTest
<1>17. ASSUME NEW t \in Tasks, UpdateInsert(t) PROVE Arrivals
  BY <1>17 DEF UpdateInsert
<1>18. ASSUME NEW t \in Tasks, EvictRemove(t) PROVE Arrivals
  BY <1>18 DEF EvictRemove
<1>19. ASSUME NEW t \in Tasks, SetIndex(t) PROVE Arrivals
  BY <1>19 DEF SetIndex
<1>20. ASSUME NEW t \in Tasks, SetInsert(t) PROVE Arrivals
  BY <1>20 DEF SetInsert
<1>21. ASSUME NEW t \in Tasks, SetLink(t) PROVE Arrivals
  BY <1>21 DEF SetLink
<1>22. ASSUME NEW t \in Tasks, SetCount(t) PROVE Arrivals
  BY <1>22 DEF SetCount
<1> QED
  BY <1>0, <1>1, <1>2, <1>3, <1>4, <1>5, <1>6, <1>7, <1>8, <1>9, <1>10, <1>11,
     <1>12, <1>13, <1>14, <1>15, <1>16, <1>17, <1>18, <1>19, <1>20, <1>21, <1>22
  DEF Next, Call, Step, Get, Set, Drop

LEMMA StepStored == TypeOK /\ Arrivals => Stored \subseteq Stored'
  BY DEF TypeOK, Arrivals, Stored

(* What a step puts under a key: nothing, the response of a `set` on its   *)
(* way in, or for an HTML key one that was stored before.                  *)
Writes ==
  \A k \in Keys :
    \/ cache'[k] \in {cache[k], 0}
    \/ \E t \in Setting \ Setting' : cache'[k] = task[t].id
    \/ k \in HtmlKeys /\ cache'[k] \in Stored

LEMMA StepWrites == TypeOK /\ LocalsInUse /\ [Next]_vars => Writes
<1> SUFFICES ASSUME TypeOK, LocalsInUse, [Next]_vars PROVE Writes
  OBVIOUS
<1> USE DEF TypeOK, Goto, Return, Writes
<1>0. CASE UNCHANGED cache
  BY <1>0
<1>1. ASSUME NEW t \in Tasks, NEW k \in Keys, Invalidate(t, k) PROVE Writes
  BY <1>1 DEF Invalidate, RemoveEntry
<1>2. ASSUME NEW t \in Tasks, PurgeNext(t) PROVE Writes
  BY <1>2, LocalsFields DEF PurgeNext, RemoveEntry
<1>3. ASSUME NEW t \in Tasks, GetExpired(t) PROVE Writes
  BY <1>3 DEF GetExpired, RemoveEntry
<1>4. ASSUME NEW t \in Tasks, UpdateInsert(t) PROVE Writes
  BY <1>4 DEF UpdateInsert, LocalsInUse
<1>5. ASSUME NEW t \in Tasks, EvictRemove(t) PROVE Writes
  BY <1>5 DEF EvictRemove
<1>6. ASSUME NEW t \in Tasks, SetInsert(t) PROVE Writes
  BY <1>6 DEF SetInsert, Setting
<1> QED
  BY <1>0, <1>1, <1>2, <1>3, <1>4, <1>5, <1>6
  DEF Next, vars, Call, Step, Get, Set, Drop, Expire, Unindex, Unlink, Uncount,
      PurgeSnapshot, PurgeTag, GetLookup, GetValid, GetPromote, Serve,
      UpdateTest, SetTest, EvictPop, SetIndex, SetLink, SetCount

LEMMA StepResponsesDistinct ==
  TypeOK /\ ResponsesDistinct /\ Arrivals /\ Writes => ResponsesDistinct'
<1> SUFFICES ASSUME TypeOK, ResponsesDistinct, Arrivals, Writes
             PROVE  ResponsesDistinct'
  OBVIOUS
<1>1. (\A t \in Setting : task[t].id \in 1..sets)'
  BY DEF TypeOK, ResponsesDistinct, Arrivals
<1>2. (\A t, u \in Setting : t # u => task[t].id # task[u].id)'
  BY DEF TypeOK, ResponsesDistinct, Arrivals
<1>3. ASSUME NEW k \in Keys, cache'[k] # 0 PROVE cache'[k] \in Stored'
  <2>1. CASE cache'[k] \in Stored
    BY <2>1, StepStored
  <2>2. CASE cache'[k] = cache[k]
    BY <2>1, <2>2, <1>3 DEF ResponsesDistinct, Cached
  <2>3. ASSUME NEW t \in Setting \ Setting', cache'[k] = task[t].id
        PROVE  cache'[k] \in Stored'
    BY <2>3 DEF TypeOK, ResponsesDistinct, Arrivals, Stored
  <2> QED
    BY <1>3, <2>1, <2>2, <2>3 DEF Writes
<1> QED
  BY <1>1, <1>2, <1>3 DEF ResponsesDistinct, Cached

LEMMA StepLocalsInUse ==
  TypeOK /\ LocalsInUse /\ ResponsesDistinct /\ Stored \subseteq Stored' /\ [Next]_vars
    => LocalsInUse'
<1> SUFFICES ASSUME TypeOK, LocalsInUse, ResponsesDistinct,
                    Stored \subseteq Stored', [Next]_vars
             PROVE  LocalsInUse'
  OBVIOUS
<1> USE DEF TypeOK, LocalsInUse, Goto, Return
<1>0. CASE UNCHANGED vars
  BY <1>0 DEF vars
<1>1. CASE \E i \in Ids : Expire(i)
  BY <1>1 DEF Expire
<1>2. ASSUME NEW t \in Tasks, NEW k \in Keys, Invalidate(t, k) PROVE LocalsInUse'
  BY <1>2, RemoveEntryLocals, BlankType DEF Invalidate, Blank
<1>3. ASSUME NEW t \in Tasks, Unindex(t) PROVE LocalsInUse'
  BY <1>3 DEF Unindex
<1>4. ASSUME NEW t \in Tasks, Unlink(t) PROVE LocalsInUse'
  BY <1>4 DEF Unlink
<1>5. ASSUME NEW t \in Tasks, Uncount(t) PROVE LocalsInUse'
  BY <1>5, LocalsFields DEF Uncount
<1>6. ASSUME NEW t \in Tasks, NEW g \in Tags, PurgeSnapshot(t, g) PROVE LocalsInUse'
  BY <1>6 DEF PurgeSnapshot
<1>7. ASSUME NEW t \in Tasks, PurgeNext(t) PROVE LocalsInUse'
  <2>1. PICK k \in task[t].todo :
          RemoveEntry(t, k, "purge", [task[t] EXCEPT !.todo = @ \ {k}])
    BY <1>7 DEF PurgeNext
  <2> DEFINE rest == [task[t] EXCEPT !.todo = @ \ {k}]
  <2>2. /\ k \in Keys
        /\ rest \in Locals
        /\ rest.tag = task[t].tag
        /\ rest.then = task[t].then
    BY DEF Locals
  <2>3. task[t].tag \in Tags /\ task[t].then # "purge"
    BY <1>7 DEF PurgeNext
  <2> HIDE DEF rest
  <2>4. /\ \A u \in Tasks \ {t} : pc'[u] = pc[u] /\ task'[u] = task[u]
        /\ \/ /\ pc'[t] = "unindex"
              /\ task'[t].key = k
              /\ task'[t].then = "purge"
              /\ task'[t].tag = rest.tag
           \/ pc'[t] = "purge" /\ task'[t] = rest
    BY <2>1, <2>2, RemoveEntryLocals DEF rest
  <2> QED
    BY <2>2, <2>3, <2>4
<1>8. ASSUME NEW t \in Tasks, PurgeTag(t) PROVE LocalsInUse'
  BY <1>8 DEF PurgeTag, Blank
<1>9. ASSUME NEW t \in Tasks, NEW k \in Keys, GetLookup(t, k) PROVE LocalsInUse'
  BY <1>9 DEF GetLookup, ResponsesDistinct, Cached
<1>10. ASSUME NEW t \in Tasks, GetExpired(t) PROVE LocalsInUse'
  <2>1. task[t].key \in Keys
    BY <1>10 DEF GetExpired
  <2>2. /\ \A u \in Tasks \ {t} : pc'[u] = pc[u] /\ task'[u] = task[u]
        /\ \/ /\ pc'[t] = "unindex"
              /\ task'[t].key = task[t].key
              /\ task'[t].then = "idle"
           \/ pc'[t] = "idle" /\ task'[t] = Blank
    BY <1>10, <2>1, RemoveEntryLocals, BlankType DEF GetExpired
  <2> QED
    BY <2>1, <2>2 DEF Blank
<1>11. ASSUME NEW t \in Tasks, GetValid(t) PROVE LocalsInUse'
  BY <1>11 DEF GetValid
<1>12. ASSUME NEW t \in Tasks, GetPromote(t) PROVE LocalsInUse'
  BY <1>12 DEF GetPromote
<1>13. ASSUME NEW t \in Tasks, Serve(t) PROVE LocalsInUse'
  BY <1>13 DEF Serve, Blank
<1>14. ASSUME NEW t \in Tasks, UpdateTest(t) PROVE LocalsInUse'
  BY <1>14 DEF UpdateTest
<1>15. ASSUME NEW t \in Tasks, UpdateInsert(t) PROVE LocalsInUse'
  BY <1>15 DEF UpdateInsert, Blank
<1>16. ASSUME NEW t \in Tasks, NEW k \in Keys, SetTest(t, k) PROVE LocalsInUse'
  BY <1>16 DEF SetTest
<1>17. ASSUME NEW t \in Tasks, EvictPop(t) PROVE LocalsInUse'
  <2>1. CASE lru = <<>>
    BY <1>17, <2>1 DEF EvictPop
  <2>2. CASE lru # <<>>
    <3>1. Head(lru) \in Keys
      BY <2>2, HeadTailProperties
    <3>2. task'[t] = [task[t] EXCEPT !.victim = Head(lru)] /\ pc'[t] = "evicted"
      BY <1>17, <2>2 DEF EvictPop
    <3>3. /\ task'[t].victim = Head(lru)
          /\ task'[t].key = task[t].key
          /\ task'[t].then = task[t].then
          /\ task'[t].tag = task[t].tag
      BY <3>2 DEF Locals
    <3>4. \A u \in Tasks \ {t} : pc'[u] = pc[u] /\ task'[u] = task[u]
      BY <1>17, <2>2 DEF EvictPop
    <3> QED
      BY <1>17, <3>1, <3>2, <3>3, <3>4 DEF EvictPop
  <2> QED
    BY <2>1, <2>2
<1>18. ASSUME NEW t \in Tasks, EvictRemove(t) PROVE LocalsInUse'
  BY <1>18 DEF EvictRemove
<1>19. ASSUME NEW t \in Tasks, SetIndex(t) PROVE LocalsInUse'
  BY <1>19 DEF SetIndex
<1>20. ASSUME NEW t \in Tasks, SetInsert(t) PROVE LocalsInUse'
  BY <1>20 DEF SetInsert
<1>21. ASSUME NEW t \in Tasks, SetLink(t) PROVE LocalsInUse'
  BY <1>21 DEF SetLink
<1>22. ASSUME NEW t \in Tasks, SetCount(t) PROVE LocalsInUse'
  BY <1>22 DEF SetCount, Blank
<1> QED
  BY <1>0, <1>1, <1>2, <1>3, <1>4, <1>5, <1>6, <1>7, <1>8, <1>9, <1>10, <1>11,
     <1>12, <1>13, <1>14, <1>15, <1>16, <1>17, <1>18, <1>19, <1>20, <1>21, <1>22
  DEF Next, Call, Step, Get, Set, Drop

-----------------------------------------------------------------------------

LEMMA StepIInv == IInv /\ [Next]_vars => IInv'
  BY StepTypeOK, StepArrivals, StepStored, StepWrites, StepResponsesDistinct,
     StepLocalsInUse DEF IInv

LEMMA AlwaysIInv == Spec => []IInv
  BY InitIInv, StepIInv, PTL DEF Spec

(* The variables and the locals of the operations keep their types.        *)
THEOREM TypeCorrect == Spec => []TypeOK
<1>1. IInv => TypeOK
  BY DEF IInv
<1> QED
  BY <1>1, AlwaysIInv, PTL

-----------------------------------------------------------------------------
(* The entry count.  Between the change of the map and the count that      *)
(* follows it, a task is at one of these labels.                           *)

Uncounted == {t \in Tasks : pc[t] \in {"index", "insert", "link", "count",
                                       "unindex", "unlink", "uncount"}}

CountInv == total = Cardinality(Cached) \/ Uncounted # {} \/ restored

LEMMA RemoveEntryCount ==
  ASSUME TypeOK, CountInv, NEW t \in Tasks \ Uncounted, NEW k \in Keys,
         NEW l \in {"idle", "purge"}, NEW rest, RemoveEntry(t, k, l, rest),
         total' = total, restored' = restored
  PROVE  CountInv'
<1>1. CASE cache[k] # 0
  <2>1. t \in Uncounted'
    BY <1>1 DEF TypeOK, RemoveEntry, Goto, Uncounted
  <2> QED
    BY <2>1 DEF CountInv
<1>2. CASE cache[k] = 0
  <2>1. cache' = cache /\ Uncounted' = Uncounted
    BY <1>2 DEF TypeOK, RemoveEntry, Goto, Uncounted
  <2> QED
    BY <2>1 DEF CountInv, Cached
<1> QED
  BY <1>1, <1>2

LEMMA StepCountInv ==
  ASSUME IInv, CountInv, [Next]_vars
  PROVE  CountInv'
<1> USE DEF IInv, TypeOK, Goto, Return
<1>1. CASE /\ Uncounted \subseteq Uncounted'
           /\ total' = total /\ cache' = cache /\ restored' = restored
  BY <1>1 DEF CountInv, Cached
<1>2. ASSUME NEW t \in Tasks, t \in Uncounted' PROVE CountInv'
  BY <1>2 DEF CountInv
<1>3. CASE total' = Cardinality(Cached')
  BY <1>3 DEF CountInv
<1>4. ASSUME NEW t \in Tasks, NEW k \in Keys, Invalidate(t, k) PROVE CountInv'
  BY <1>4, RemoveEntryCount DEF Invalidate, Uncounted
<1>5. ASSUME NEW t \in Tasks, PurgeNext(t) PROVE CountInv'
  BY <1>5, RemoveEntryCount, LocalsFields DEF PurgeNext, Uncounted
<1>6. ASSUME NEW t \in Tasks, GetExpired(t) PROVE CountInv'
  <2>1. task[t].key \in Keys /\ t \notin Uncounted
    BY <1>6 DEF GetExpired, LocalsInUse, Uncounted
  <2> QED
    BY <1>6, <2>1, RemoveEntryCount DEF GetExpired
<1>7. ASSUME NEW t \in Tasks, UpdateInsert(t) PROVE CountInv'
  <2>1. task[t].key \in Keys /\ t \notin Uncounted
    BY <1>7 DEF UpdateInsert, LocalsInUse, Uncounted
  <2>2. CASE cache[task[t].key] = 0
    BY <1>7, <2>2 DEF UpdateInsert, CountInv
  <2>3. CASE cache[task[t].key] # 0
    <3>1. Cached' = Cached
      <4>1. task[t].id # 0
        BY <1>7 DEF UpdateInsert, LocalsInUse, Stored
      <4> QED
        BY <1>7, <2>1, <2>3, <4>1 DEF UpdateInsert, Cached
    <3>2. Uncounted \subseteq Uncounted'
      BY <1>7 DEF UpdateInsert, Uncounted
    <3>3. total' = total /\ (restored' <=> restored)
      BY <1>7, <2>3 DEF UpdateInsert
    <3> QED
      BY <3>1, <3>2, <3>3 DEF CountInv
  <2> QED
    BY <2>2, <2>3
<1>8. ASSUME NEW t \in Tasks, Uncount(t) \/ SetCount(t) PROVE CountInv'
  BY <1>8, <1>3 DEF Uncount, SetCount, Cached
<1>9. ASSUME NEW t \in Tasks, EvictRemove(t) \/ SetInsert(t) PROVE CountInv'
  <2>1. t \in Uncounted'
    BY <1>9 DEF EvictRemove, SetInsert, Uncounted
  <2> QED
    BY <2>1, <1>2
<1>10. ASSUME NEW t \in Tasks,
              \/ Unindex(t) \/ Unlink(t) \/ PurgeTag(t) \/ GetValid(t)
              \/ GetPromote(t) \/ Serve(t) \/ UpdateTest(t) \/ EvictPop(t)
              \/ SetIndex(t) \/ SetLink(t)
       PROVE  CountInv'
  BY <1>10, <1>1
  DEF Unindex, Unlink, PurgeTag, GetValid, GetPromote, Serve, UpdateTest,
      EvictPop, SetIndex, SetLink, Uncounted
<1>11. ASSUME NEW t \in Tasks, NEW k \in Keys,
              GetLookup(t, k) \/ SetTest(t, k)
       PROVE  CountInv'
  BY <1>11, <1>1 DEF GetLookup, SetTest, Uncounted
<1>12. ASSUME NEW t \in Tasks, NEW g \in Tags, PurgeSnapshot(t, g) PROVE CountInv'
  BY <1>12, <1>1 DEF PurgeSnapshot, Uncounted
<1>13. CASE UNCHANGED vars \/ \E i \in Ids : Expire(i)
  BY <1>13, <1>1 DEF vars, Expire, Uncounted
<1> QED
  BY <1>4, <1>5, <1>6, <1>7, <1>8, <1>9, <1>10, <1>11, <1>12, <1>13
  DEF Next, Call, Step, Get, Set, Drop

(* total_entries is the size of the map whenever no operation is under     *)
(* way, in whatever order the operations changed the map and took the      *)
(* metrics lock; only update_in_place can put it off, when it puts back a  *)
(* response whose key has just left the map, until the next count.         *)
THEOREM CountsSettle == Spec => []CountMatches
<1>1. Init => CountInv
  <2> SUFFICES ASSUME Init PROVE total = Cardinality(Cached)
    BY DEF CountInv
  <2>1. Cached = {}
    BY DEF Init, Cached
  <2> QED
    BY <2>1, FS_EmptySet DEF Init
<1>2. IInv /\ CountInv /\ [Next]_vars => CountInv'
  BY StepCountInv
<1>3. CountInv => CountMatches
  BY DEF CountInv, CountMatches, Quiet, Uncounted
<1> QED
  BY <1>1, <1>2, <1>3, AlwaysIInv, PTL DEF Spec

-----------------------------------------------------------------------------
(* The tag index, when one task has the cache to itself.                   *)

IndexInv ==
  /\ \A k \in Cached : k \in index[TagOf[k]]
  /\ \A t \in Tasks :
       /\ pc[t] = "insert" => task[t].key \in index[TagOf[task[t].key]]
       /\ pc[t] = "rewrite" => task[t].key \in Cached
       /\ pc[t] = "unindex" => task[t].key \notin Cached
       /\ pc[t] = "purge" \/ task[t].then = "purge" =>
            \A k \in Cached : TagOf[k] = task[t].tag => k \in task[t].todo

LEMMA RemoveEntryIndex ==
  ASSUME \A t, u \in Tasks : t = u, TypeOK, IndexInv, index' = index,
         NEW t \in Tasks, NEW k \in Keys, NEW l \in {"idle", "purge"},
         NEW rest \in Locals, rest.then = "idle", RemoveEntry(t, k, l, rest),
         l = "purge" =>
           \A j \in Cached : TagOf[j] = rest.tag => j \in rest.todo \cup {k}
  PROVE  IndexInv'
<1> USE DEF TypeOK, IndexInv, Cached
<1>1. \A u \in Tasks : u = t
  OBVIOUS
<1>2. CASE cache[k] # 0
  <2>1. /\ task'[t] = [rest EXCEPT !.key = k, !.then = l]
        /\ pc'[t] = "unindex"
        /\ cache' = [cache EXCEPT ![k] = 0]
    BY <1>2 DEF RemoveEntry, Goto
  <2>2. /\ task'[t].key = k
        /\ task'[t].then = l
        /\ task'[t].tag = rest.tag
        /\ task'[t].todo = rest.todo
    BY <2>1 DEF Locals
  <2>3. \A j \in Cached' : j \in Cached /\ j # k
    BY <2>1
  <2>4. k \notin Cached'
    BY <2>1
  <2>5. \A j \in Cached' : j \in index'[TagOf[j]]
    BY <2>3
  <2>6. /\ pc'[t] \notin {"insert", "rewrite", "purge"}
        /\ task'[t].key \notin Cached'
    BY <2>1, <2>2, <2>4
  <2>7. task'[t].then = "purge" =>
          \A j \in Cached' : TagOf[j] = task'[t].tag => j \in task'[t].todo
    BY <2>2, <2>3
  <2> QED
    BY ONLY <1>1, <2>5, <2>6, <2>7 DEF IndexInv
<1>3. CASE cache[k] = 0
  <2>1. task'[t] = rest /\ pc'[t] = l /\ cache' = cache
    BY <1>3 DEF RemoveEntry, Goto
  <2> QED
    BY <1>1, <1>3, <2>1
<1> QED
  BY <1>2, <1>3

LEMMA StepIndexInv ==
  ASSUME \A t, u \in Tasks : t = u, IInv, IndexInv, [Next]_vars
  PROVE  IndexInv'
<1> USE ConstantsAssumption DEF IInv, TypeOK, LocalsInUse, IndexInv, Goto, Return, Cached
<1>0. CASE UNCHANGED vars \/ \E i \in Ids : Expire(i)
  BY <1>0 DEF vars, Expire
<1>1. ASSUME NEW t \in Tasks, NEW k \in Keys, Invalidate(t, k) PROVE IndexInv'
  <2>1. Blank.then = "idle"
    BY DEF Blank
  <2>2. RemoveEntry(t, k, "idle", Blank) /\ index' = index
    BY <1>1 DEF Invalidate
  <2> QED
    BY ONLY <2>1, <2>2, RemoveEntryIndex, BlankType, t \in Tasks, k \in Keys,
            IInv, IndexInv, \A u, v \in Tasks : u = v DEF IInv
<1>2. ASSUME NEW t \in Tasks, Unindex(t) PROVE IndexInv'
  BY <1>2 DEF Unindex
<1>3. ASSUME NEW t \in Tasks, Unlink(t) PROVE IndexInv'
  BY <1>3 DEF Unlink
<1>4. ASSUME NEW t \in Tasks, Uncount(t) PROVE IndexInv'
  BY <1>4, LocalsFields DEF Uncount
<1>5. ASSUME NEW t \in Tasks, NEW g \in Tags, PurgeSnapshot(t, g) PROVE IndexInv'
  BY <1>5 DEF PurgeSnapshot
<1>6. ASSUME NEW t \in Tasks, PurgeNext(t) PROVE IndexInv'
  <2>1. PICK k \in task[t].todo :
          RemoveEntry(t, k, "purge", [task[t] EXCEPT !.todo = @ \ {k}])
    BY <1>6 DEF PurgeNext
  <2> DEFINE rest == [task[t] EXCEPT !.todo = @ \ {k}]
  <2>2. /\ k \in Keys
        /\ rest \in Locals
        /\ rest.tag = task[t].tag
        /\ rest.then = task[t].then
        /\ rest.todo = task[t].todo \ {k}
    BY DEF Locals
  <2>3. /\ task[t].then = "idle"
        /\ \A j \in Cached : TagOf[j] = task[t].tag => j \in task[t].todo
        /\ index' = index
    BY <1>6, LocalsFields DEF PurgeNext
  <2>4. RemoveEntry(t, k, "purge", rest)
    BY <2>1
  <2> HIDE DEF rest
  <2>5. /\ rest.then = "idle"
        /\ \A j \in Cached : TagOf[j] = rest.tag => j \in rest.todo \cup {k}
    BY <2>2, <2>3
  <2> QED
    BY ONLY <2>2, <2>3, <2>4, <2>5, RemoveEntryIndex, t \in Tasks, IInv,
            IndexInv, \A u, v \in Tasks : u = v DEF IInv
<1>7. ASSUME NEW t \in Tasks, PurgeTag(t) PROVE IndexInv'
  BY <1>7 DEF PurgeTag, Blank
<1>8. ASSUME NEW t \in Tasks, NEW k \in Keys, GetLookup(t, k) PROVE IndexInv'
  BY <1>8 DEF GetLookup
<1>9. ASSUME NEW t \in Tasks, GetExpired(t) PROVE IndexInv'
  <2>1. task[t].key \in Keys /\ Blank.then = "idle"
    BY <1>9 DEF GetExpired, Blank
  <2>2. RemoveEntry(t, task[t].key, "idle", Blank) /\ index' = index
    BY <1>9 DEF GetExpired
  <2> QED
    BY ONLY <2>1, <2>2, RemoveEntryIndex, BlankType, t \in Tasks, IInv,
            IndexInv, \A u, v \in Tasks : u = v DEF IInv
<1>10. ASSUME NEW t \in Tasks, GetValid(t) PROVE IndexInv'
  BY <1>10 DEF GetValid
<1>11. ASSUME NEW t \in Tasks, GetPromote(t) PROVE IndexInv'
  BY <1>11 DEF GetPromote
<1>12. ASSUME NEW t \in Tasks, Serve(t) PROVE IndexInv'
  BY <1>12 DEF Serve, Blank
<1>13. ASSUME NEW t \in Tasks, UpdateTest(t) PROVE IndexInv'
  BY <1>13 DEF UpdateTest
<1>14. ASSUME NEW t \in Tasks, UpdateInsert(t) PROVE IndexInv'
  BY <1>14 DEF UpdateInsert, Blank
<1>15. ASSUME NEW t \in Tasks, NEW k \in Keys, SetTest(t, k) PROVE IndexInv'
  BY <1>15 DEF SetTest
<1>16. ASSUME NEW t \in Tasks, EvictPop(t) PROVE IndexInv'
  <2>1. /\ pc'[t] \notin {"insert", "rewrite", "unindex", "purge"}
        /\ task'[t].then = task[t].then
        /\ UNCHANGED <<cache, index>>
    BY <1>16 DEF EvictPop, Locals
  <2>2. task[t].then # "purge"
    BY <1>16 DEF EvictPop
  <2> QED
    BY <2>1, <2>2
<1>17. ASSUME NEW t \in Tasks, EvictRemove(t) PROVE IndexInv'
  BY <1>17 DEF EvictRemove
<1>18. ASSUME NEW t \in Tasks, SetIndex(t) PROVE IndexInv'
  BY <1>18 DEF SetIndex
<1>19. ASSUME NEW t \in Tasks, SetInsert(t) PROVE IndexInv'
  BY <1>19 DEF SetInsert
<1>20. ASSUME NEW t \in Tasks, SetLink(t) PROVE IndexInv'
  BY <1>20 DEF SetLink
<1>21. ASSUME NEW t \in Tasks, SetCount(t) PROVE IndexInv'
  BY <1>21 DEF SetCount, Blank
<1> QED
  BY <1>0, <1>1, <1>2, <1>3, <1>4, <1>5, <1>6, <1>7, <1>8, <1>9, <1>10, <1>11,
     <1>12, <1>13, <1>14, <1>15, <1>16, <1>17, <1>18, <1>19, <1>20, <1>21
  DEF Next, Call, Step, Get, Set, Drop

(* One task at a time, a response that is stored is always listed under    *)
(* its tag, so invalidate_by_tag drops every response of the route.        *)
THEOREM LoneIndexCoversCache ==
  ASSUME \A t, u \in Tasks : t = u
  PROVE  Spec => []IndexCoversCache
<1>1. Init => IndexInv
  BY DEF Init, IndexInv, Cached, Blank
<1>2. IInv /\ IndexInv /\ [Next]_vars => IndexInv'
  BY StepIndexInv
<1>3. IndexInv => IndexCoversCache
  BY DEF IndexInv, IndexCoversCache
<1> QED
  BY <1>1, <1>2, <1>3, AlwaysIInv, PTL DEF Spec

-----------------------------------------------------------------------------
(* The LRU list, when one task has the cache to itself.                    *)

Room == IF MaxEntries = 0 THEN 1 ELSE MaxEntries

(* What the list and the map have in common at each label.                 *)
Linked(t) ==
  IF pc[t] \in {"unindex", "unlink"}
  THEN /\ ToSet(lru) = Cached \cup {task[t].key}
       /\ task[t].key \notin Cached
  ELSE IF pc[t] = "evicted" THEN ToSet(lru) = Cached \ {task[t].victim}
  ELSE IF pc[t] = "link" THEN Cached = ToSet(lru) \cup {task[t].key}
  ELSE ToSet(lru) = Cached

(* What holds of the list at the label of a task, and at every label.      *)
LruAt(t) ==
  /\ Linked(t)
  /\ pc[t] = "rewrite" => task[t].key \in Cached
  /\ pc[t] = "evicted" => Len(lru) < Room
  /\ pc[t] \in {"index", "insert", "link"} =>
       task[t].key \in ToSet(lru) \/ Len(lru) < Room

LruInv ==
  /\ Distinct(lru)
  /\ Len(lru) <= Room
  /\ \A t \in Tasks : LruAt(t)

(* Putting a key in the list when it is there or there is room.            *)
LEMMA LruPutDistinct ==
  ASSUME NEW s \in Seq(Keys), Distinct(s), Len(s) <= Room, NEW k \in Keys,
         k \in ToSet(s) \/ Len(s) < Room
  PROVE  /\ Distinct(LruPut(s, k))
         /\ Len(LruPut(s, k)) <= Room
         /\ ToSet(LruPut(s, k)) = ToSet(s) \cup {k}
<1> DEFINE r == RemoveFirst(s, k)
<1>1. /\ Len(s) \in Nat /\ Room \in Nat
      /\ Contains(s, k) <=> k \in ToSet(s)
  BY ConstantsAssumption DEF Room, Contains, ToSet
<1>2. r \in Seq(Keys) /\ Distinct(r) /\ ToSet(r) = ToSet(s) \ {k}
  BY RemoveFirstType, RemoveFirstDistinct
<1>3. CASE k \in ToSet(s)
  <2>1. Len(r) = Len(s) - 1
    BY <1>3, RemoveFirstDistinct
  <2>2. LruPut(s, k) = Append(r, k)
    BY <1>1, <1>3 DEF LruPut
  <2>3. Distinct(Append(r, k)) /\ ToSet(Append(r, k)) = ToSet(r) \cup {k}
    BY <1>2, AppendDistinct
  <2>4. Len(Append(r, k)) = Len(r) + 1
    BY <1>2
  <2> QED
    BY <1>1, <1>2, <1>3, <2>1, <2>2, <2>3, <2>4
<1>4. CASE k \notin ToSet(s)
  <2>1. Len(s) < LruCap /\ LruCap \in Nat
    BY <1>1, <1>4, ConstantsAssumption DEF LruCap, Room
  <2>2. LruPut(s, k) = Append(s, k)
    BY <1>1, <1>4, <2>1 DEF LruPut
  <2>3. Distinct(Append(s, k)) /\ ToSet(Append(s, k)) = ToSet(s) \cup {k}
    BY <1>4, AppendDistinct
  <2>4. Len(Append(s, k)) = Len(s) + 1
    OBVIOUS
  <2> QED
    BY <1>1, <1>4, <2>2, <2>3, <2>4
<1> QED
  BY <1>3, <1>4

LEMMA RemoveEntryLru ==
  ASSUME TypeOK, NEW t \in Tasks, ToSet(lru) = Cached, lru' = lru,
         NEW k \in Keys, NEW l \in {"idle", "purge"}, NEW rest \in Locals,
         RemoveEntry(t, k, l, rest)
  PROVE  LruAt(t)'
<1>1. CASE cache[k] # 0
  <2>1. /\ task'[t] = [rest EXCEPT !.key = k, !.then = l]
        /\ pc'[t] = "unindex"
        /\ cache' = [cache EXCEPT ![k] = 0]
    BY <1>1 DEF RemoveEntry, Goto, TypeOK
  <2>2. task'[t].key = k
    BY <2>1 DEF Locals
  <2>3. Cached' = Cached \ {k} /\ k \in Cached
    BY <1>1, <2>1 DEF Cached, TypeOK
  <2>4. ToSet(lru)' = Cached' \cup {k} /\ k \notin Cached'
    BY <2>3
  <2> QED
    BY <2>1, <2>2, <2>4 DEF LruAt, Linked
<1>2. CASE cache[k] = 0
  <2>1. pc'[t] = l /\ ToSet(lru)' = Cached'
    BY <1>2 DEF RemoveEntry, Goto, TypeOK, Cached
  <2> QED
    BY <2>1 DEF LruAt, Linked
<1> QED
  BY <1>1, <1>2

(* A step of the task keeps the list and the map linked.                   *)
LEMMA TaskLru ==
  ASSUME IInv, IInv', LruInv, NEW t \in Tasks, Step(t) \/ Call(t)
  PROVE  Distinct(lru)' /\ (Len(lru) <= Room)' /\ LruAt(t)'
<1> DEFINE Goal == Distinct(lru)' /\ (Len(lru) <= Room)' /\ LruAt(t)'
<1>a. /\ Distinct(lru) /\ Len(lru) <= Room /\ LruAt(t)
      /\ Len(lru) \in Nat /\ Room \in Nat \ {0} /\ lru \in Seq(Keys)
      /\ TypeOK /\ LocalsInUse
  BY ConstantsAssumption DEF LruInv, IInv, TypeOK, Room
<1>b. ASSUME UNCHANGED lru PROVE Distinct(lru)' /\ (Len(lru) <= Room)'
  BY <1>a, <1>b
<1>1. ASSUME NEW k \in Keys, Invalidate(t, k) PROVE Goal
  <2>1. ToSet(lru) = Cached
    BY <1>1, <1>a DEF Invalidate, LruAt, Linked
  <2> QED
    BY <1>1, <1>a, <1>b, <2>1, BlankType, RemoveEntryLru DEF Invalidate
<1>2. ASSUME Unindex(t) PROVE Goal
  BY <1>2, <1>a, <1>b DEF Unindex, Goto, TypeOK, LruAt, Linked, Cached
<1>3. ASSUME Unlink(t) PROVE Goal
  <2> DEFINE k == task[t].key
  <2>1. /\ Distinct(lru') /\ lru' \in Seq(Keys)
        /\ ToSet(lru') = ToSet(lru) \ {k}
        /\ Len(lru') <= Len(lru)
    BY <1>3, <1>a, RemoveFirstDistinct, RemoveFirstType DEF Unlink
  <2>2. ToSet(lru) = Cached \cup {k} /\ k \notin Cached
    BY <1>3, <1>a DEF Unlink, LruAt, Linked
  <2>3. pc'[t] = "uncount" /\ Cached' = Cached
    BY <1>3, <1>a DEF Unlink, Goto, TypeOK, Cached
  <2>4. Len(lru') \in Nat /\ ToSet(lru') = Cached'
    BY <2>1, <2>2, <2>3
  <2> QED
    BY <1>a, <2>1, <2>3, <2>4 DEF LruAt, Linked
<1>4. ASSUME Uncount(t) PROVE Goal
  <2>1. pc'[t] \in {"idle", "purge"} /\ Cached' = Cached /\ lru' = lru
    BY <1>4, <1>a, LocalsFields DEF Uncount, Goto, TypeOK, Cached
  <2>2. ToSet(lru) = Cached
    BY <1>4, <1>a DEF Uncount, LruAt, Linked
  <2> QED
    BY <1>a, <2>1, <2>2 DEF LruAt, Linked
<1>5. ASSUME NEW g \in Tags, PurgeSnapshot(t, g) PROVE Goal
  BY <1>5, <1>a, <1>b DEF PurgeSnapshot, Goto, TypeOK, LruAt, Linked, Cached
<1>6. ASSUME PurgeNext(t) PROVE Goal
  <2>1. PICK k \in task[t].todo :
          RemoveEntry(t, k, "purge", [task[t] EXCEPT !.todo = @ \ {k}])
    BY <1>6 DEF PurgeNext
  <2>2. task[t] \in Locals /\ k \in Keys
    BY <1>a, LocalsFields DEF TypeOK
  <2>3. [task[t] EXCEPT !.todo = @ \ {k}] \in Locals
    BY <2>2 DEF Locals
  <2>4. ToSet(lru) = Cached /\ lru' = lru
    BY <1>6, <1>a DEF PurgeNext, LruAt, Linked
  <2> QED
    BY <1>a, <2>1, <2>2, <2>3, <2>4, RemoveEntryLru
<1>7. ASSUME PurgeTag(t) PROVE Goal
  BY <1>7, <1>a, <1>b
  DEF PurgeTag, Return, Goto, TypeOK, LruAt, Linked, Cached
<1>8. ASSUME NEW k \in Keys, GetLookup(t, k) PROVE Goal
  BY <1>8, <1>a, <1>b DEF GetLookup, Goto, TypeOK, LruAt, Linked, Cached
<1>9. ASSUME GetExpired(t) PROVE Goal
  <2>1. ToSet(lru) = Cached /\ lru' = lru /\ task[t].key \in Keys
    BY <1>9, <1>a DEF GetExpired, LruAt, Linked, LocalsInUse
  <2> QED
    BY <1>9, <1>a, <2>1, BlankType, RemoveEntryLru DEF GetExpired
<1>10. ASSUME GetValid(t) PROVE Goal
  BY <1>10, <1>a, <1>b DEF GetValid, Goto, TypeOK, LruAt, Linked, Cached
<1>11. ASSUME GetPromote(t) PROVE Goal
  <2> DEFINE k == task[t].key
  <2>1. pc'[t] = "hit" /\ Cached' = Cached /\ ToSet(lru) = Cached
    BY <1>11, <1>a DEF GetPromote, Goto, TypeOK, Cached, LruAt, Linked
  <2>2. Distinct(lru') /\ Len(lru') <= Room /\ ToSet(lru') = ToSet(lru)
    <3>1. CASE ~ Contains(lru, k)
      BY <1>11, <1>a, <3>1 DEF GetPromote
    <3>2. CASE Contains(lru, k)
      <4>1. k \in ToSet(lru) /\ k \in Keys
        BY <1>11, <3>2, <1>a
        DEF Contains, ToSet, GetPromote, LocalsInUse
      <4>2. lru' = LruPut(lru, k)
        BY <1>11, <3>2 DEF GetPromote, LruPut
      <4> HIDE DEF k
      <4>3. /\ Distinct(LruPut(lru, k)) /\ Len(LruPut(lru, k)) <= Room
            /\ ToSet(LruPut(lru, k)) = ToSet(lru) \cup {k}
        BY <1>a, <4>1, LruPutDistinct
      <4>4. ToSet(lru) \cup {k} = ToSet(lru)
        BY <4>1
      <4> QED
        BY <4>2, <4>3, <4>4
    <3> QED
      BY <3>1, <3>2
  <2> QED
    BY <1>a, <2>1, <2>2 DEF LruAt, Linked
<1>12. ASSUME Serve(t) PROVE Goal
  BY <1>12, <1>a, <1>b
  DEF Serve, Return, Goto, TypeOK, LruAt, Linked, Cached
<1>13. ASSUME UpdateTest(t) PROVE Goal
  BY <1>13, <1>a, <1>b
  DEF UpdateTest, Goto, TypeOK, LruAt, Linked, Cached, LocalsInUse
<1>14. ASSUME UpdateInsert(t) PROVE Goal
  <2>1. task[t].key \in Cached /\ ToSet(lru) = Cached /\ task[t].id # 0
    BY <1>14, <1>a
    DEF UpdateInsert, LruAt, Linked, LocalsInUse, Stored
  <2>2. pc'[t] = "idle" /\ lru' = lru /\ Cached' = Cached
    BY <1>14, <1>a, <2>1 DEF UpdateInsert, Return, Goto, TypeOK, Cached
  <2> QED
    BY <1>a, <2>1, <2>2 DEF LruAt, Linked
<1>15. ASSUME NEW k \in Keys, SetTest(t, k) PROVE Goal
  <2>1. task'[t].key = k /\ lru' = lru /\ Cached' = Cached
    BY <1>15, <1>a DEF SetTest, TypeOK, Locals, Cached
  <2>2. ToSet(lru) = Cached
    BY <1>15, <1>a DEF SetTest, LruAt, Linked
  <2>3. \/ pc'[t] = "evict"
        \/ pc'[t] = "index" /\ (k \in ToSet(lru) \/ Len(lru) < Room)
    BY <1>15, <1>a, <2>2, ConstantsAssumption
    DEF SetTest, Goto, TypeOK, Cached, Room
  <2> QED
    BY <1>a, <2>1, <2>2, <2>3 DEF LruAt, Linked
<1>16. ASSUME EvictPop(t) PROVE Goal
  <2>1. ToSet(lru) = Cached /\ Cached' = Cached
    BY <1>16, <1>a DEF EvictPop, LruAt, Linked, Cached
  <2>2. CASE lru = <<>>
    <3>1. pc'[t] = "index" /\ lru' = lru /\ Len(lru) = 0
      BY <1>16, <1>a, <2>2 DEF EvictPop, Goto, TypeOK
    <3> QED
      BY <1>a, <2>1, <3>1 DEF LruAt, Linked
  <2>3. CASE lru # <<>>
    <3>1. lru' = Tail(lru) /\ pc'[t] = "evicted" /\ task'[t].victim = Head(lru)
      BY <1>16, <1>a, <2>3 DEF EvictPop, Goto, TypeOK, Locals
    <3>2. /\ Distinct(lru') /\ ToSet(lru') = ToSet(lru) \ {Head(lru)}
          /\ Len(lru') = Len(lru) - 1
      BY <1>a, <2>3, <3>1, TailDistinct
    <3> QED
      BY <1>a, <2>1, <3>1, <3>2 DEF LruAt, Linked
  <2> QED
    BY <2>2, <2>3
<1>17. ASSUME EvictRemove(t) PROVE Goal
  <2>1. /\ pc'[t] = "index" /\ lru' = lru
        /\ Cached' = Cached \ {task[t].victim}
    BY <1>17, <1>a DEF EvictRemove, Goto, TypeOK, Cached, LocalsInUse
  <2>2. ToSet(lru) = Cached \ {task[t].victim} /\ Len(lru) < Room
    BY <1>17, <1>a DEF EvictRemove, LruAt, Linked
  <2> QED
    BY <1>a, <2>1, <2>2 DEF LruAt, Linked
<1>18. ASSUME SetIndex(t) PROVE Goal
  BY <1>18, <1>a, <1>b DEF SetIndex, Goto, TypeOK, LruAt, Linked, Cached
<1>19. ASSUME SetInsert(t) PROVE Goal
  <2> DEFINE k == task[t].key
  <2>1. k \in Keys /\ t \in Setting /\ task[t].id # 0
    BY <1>19, <1>a DEF SetInsert, LocalsInUse, Setting, IInv, ResponsesDistinct
  <2>2. /\ pc'[t] = "link" /\ task'[t].key = k /\ lru' = lru
        /\ Cached' = Cached \cup {k}
    BY <1>19, <1>a, <2>1 DEF SetInsert, Goto, TypeOK, Locals, Cached
  <2>3. ToSet(lru) = Cached /\ (k \in ToSet(lru) \/ Len(lru) < Room)
    BY <1>19, <1>a DEF SetInsert, LruAt, Linked
  <2> QED
    BY <1>a, <2>2, <2>3 DEF LruAt, Linked
<1>20. ASSUME SetLink(t) PROVE Goal
  <2> DEFINE k == task[t].key
  <2>1. k \in Keys /\ (k \in ToSet(lru) \/ Len(lru) < Room)
    BY <1>20, <1>a DEF SetLink, LocalsInUse, LruAt
  <2>2. /\ Distinct(lru') /\ Len(lru') <= Room
        /\ ToSet(lru') = ToSet(lru) \cup {k}
    BY <1>20, <1>a, <2>1, LruPutDistinct DEF SetLink
  <2>3. /\ pc'[t] = "count" /\ Cached' = Cached
        /\ Cached = ToSet(lru) \cup {k}
    BY <1>20, <1>a DEF SetLink, Goto, TypeOK, Cached, LruAt, Linked
  <2> QED
    BY <1>a, <2>2, <2>3 DEF LruAt, Linked
<1>21. ASSUME SetCount(t) PROVE Goal
  BY <1>21, <1>a, <1>b
  DEF SetCount, Return, Goto, TypeOK, LruAt, Linked, Cached
<1> QED
  BY <1>1, <1>2, <1>3, <1>4, <1>5, <1>6, <1>7, <1>8, <1>9, <1>10, <1>11,
     <1>12, <1>13, <1>14, <1>15, <1>16, <1>17, <1>18, <1>19, <1>20, <1>21
  DEF Step, Call, Get, Set, Drop

LEMMA StepLru ==
  ASSUME NEW t, Tasks = {t}
  PROVE  IInv /\ IInv' /\ LruInv /\ [Next]_vars => LruInv'
<1> SUFFICES ASSUME IInv, IInv', LruInv, [Next]_vars PROVE LruInv'
  OBVIOUS
<1>1. CASE UNCHANGED vars \/ \E i \in Ids : Expire(i)
  BY <1>1 DEF vars, Expire, LruInv, LruAt, Linked, Cached
<1>2. CASE Step(t) \/ Call(t)
  BY <1>2, TaskLru DEF LruInv
<1> QED
  BY <1>1, <1>2 DEF Next

LEMMA InitLru == Init => LruInv
<1> SUFFICES ASSUME Init PROVE LruInv
  OBVIOUS
<1>1. lru = <<>> /\ Cached = {} /\ ToSet(lru) = {} /\ Len(lru) = 0
  BY DEF Init, Cached, ToSet
<1>2. \A u \in Tasks : pc[u] = "idle"
  BY DEF Init
<1>3. Distinct(lru) /\ Len(lru) <= Room
  BY <1>1, ConstantsAssumption DEF Distinct, Room
<1> QED
  BY <1>1, <1>2, <1>3 DEF LruInv, LruAt, Linked

(* Between operations the LRU list names exactly the stored responses, and *)
(* there are no more of them than max_entries (one when that is 0), when   *)
(* one task at a time uses the cache: whatever the keys, the tags and the  *)
(* maximum, and however long it runs.                                      *)
THEOREM LoneLruMatchesCache ==
  ASSUME NEW t, Tasks = {t}
  PROVE  Spec => []LruMatchesCache
<1>1. Init => LruInv
  BY InitLru
<1>2. IInv /\ IInv' /\ LruInv /\ [Next]_vars => LruInv'
  BY StepLru
<1>3. IInv /\ LruInv => LruMatchesCache
  <2> SUFFICES ASSUME IInv, LruInv, Quiet PROVE LruMatchesCache
    BY DEF LruMatchesCache
  <2>1. ToSet(lru) = Cached
    BY DEF LruInv, LruAt, Linked, Quiet
  <2>2. Cardinality(ToSet(lru)) <= Len(lru)
    BY ToSetCardinality DEF IInv, TypeOK
  <2>3. /\ Len(lru) <= Room /\ Len(lru) \in Nat /\ Room \in Nat
        /\ Cardinality(Cached) \in Nat
    BY ConstantsAssumption, CountType DEF LruInv, IInv, TypeOK, Room
  <2> QED
    BY <2>1, <2>2, <2>3 DEF LruMatchesCache, Room
<1> QED
  BY <1>1, <1>2, <1>3, AlwaysIInv, PTL DEF Spec

-----------------------------------------------------------------------------
(* The order of the keys in a list, as the LRU list is changed.            *)
LEMMA OrderPairs ==
  ASSUME NEW S, NEW s \in Seq(S), NEW K, NEW x, NEW y
  PROVE  <<x, y>> \in Order(s, K) <=>
           /\ x \in K /\ y \in K
           /\ \E i, j \in 1..Len(s) : i < j /\ x = s[i] /\ y = s[j]
<1>1. DOMAIN s = 1..Len(s)
  OBVIOUS
<1> QED
  BY <1>1 DEF Order

LEMMA OrderIsPairs ==
  ASSUME NEW s, NEW K, NEW p \in Order(s, K)
  PROVE  p = <<p[1], p[2]>>
  BY DEF Order

\* Two sets of pairs with the same pairs.
LEMMA SamePairs ==
  ASSUME NEW P, NEW Q,
         \A p \in P : p = <<p[1], p[2]>>, \A p \in Q : p = <<p[1], p[2]>>,
         \A x, y : <<x, y>> \in P <=> <<x, y>> \in Q
  PROVE  P = Q
<1>1. ASSUME NEW p \in P PROVE p \in Q
  <2>1. PICK x, y : p = <<x, y>>
    BY Zenon
  <2> QED
    BY <2>1
<1>2. ASSUME NEW p \in Q PROVE p \in P
  <2>1. PICK x, y : p = <<x, y>>
    BY Zenon
  <2> QED
    BY <2>1
<1> QED
  BY <1>1, <1>2

LEMMA OrderWithin ==
  ASSUME NEW S, NEW s \in Seq(S), NEW K, NEW L
  PROVE  /\ Order(s, K) \cap (L \X L) = Order(s, K \cap L)
         /\ Order(s, K) = Order(s, K \cap ToSet(s))
<1>1. Order(s, K) \cap (L \X L) = Order(s, K \cap L)
  BY DEF Order
<1>2. Order(s, K) = Order(s, K \cap ToSet(s))
  BY DEF Order, ToSet
<1> QED
  BY <1>1, <1>2

LEMMA OrderTail ==
  ASSUME NEW S, NEW s \in Seq(S), Distinct(s), s # <<>>, NEW K
  PROVE  /\ Order(Tail(s), K) = Order(s, K \ {Head(s)})
         /\ \A y \in ToSet(s) \ {Head(s)} :
              Head(s) \in K /\ y \in K => <<Head(s), y>> \in Order(s, K)
<1> DEFINE n == Len(s)
           r == Tail(s)
<1>1. /\ n \in Nat \ {0} /\ Head(s) = s[1] /\ r \in Seq(S)
      /\ Len(r) = n - 1
      /\ \A i \in 1..(n - 1) : r[i] = s[i + 1]
  BY HeadTailProperties
<1> HIDE DEF r
<1>2. ASSUME NEW x, NEW y
      PROVE  <<x, y>> \in Order(r, K) <=> <<x, y>> \in Order(s, K \ {Head(s)})
  <2>1. ASSUME <<x, y>> \in Order(r, K) PROVE <<x, y>> \in Order(s, K \ {Head(s)})
    <3>1. PICK i \in 1..(n - 1), j \in 1..(n - 1) :
            x \in K /\ y \in K /\ i < j /\ x = r[i] /\ y = r[j]
      BY <1>1, <2>1, OrderPairs
    <3>2. /\ i + 1 \in 1..n /\ j + 1 \in 1..n /\ i + 1 < j + 1
          /\ i + 1 # 1 /\ j + 1 # 1 /\ 1 \in 1..n
      BY <1>1, <3>1
    <3>3. x = s[i + 1] /\ y = s[j + 1]
      BY <1>1, <3>1
    <3>4. x # Head(s) /\ y # Head(s)
      BY <1>1, <3>2, <3>3 DEF Distinct
    <3> QED
      BY <3>1, <3>2, <3>3, <3>4, OrderPairs
  <2>2. ASSUME <<x, y>> \in Order(s, K \ {Head(s)}) PROVE <<x, y>> \in Order(r, K)
    <3>1. PICK i \in 1..n, j \in 1..n :
            /\ x \in K \ {Head(s)} /\ y \in K \ {Head(s)}
            /\ i < j /\ x = s[i] /\ y = s[j]
      BY <2>2, OrderPairs
    <3>2. i # 1 /\ j # 1
      BY <1>1, <3>1
    <3>3. /\ i - 1 \in 1..(n - 1) /\ j - 1 \in 1..(n - 1) /\ i - 1 < j - 1
          /\ (i - 1) + 1 = i /\ (j - 1) + 1 = j
      BY <1>1, <3>1, <3>2
    <3>4. x = r[i - 1] /\ y = r[j - 1]
      BY <1>1, <3>1, <3>3
    <3>5. \E k, l \in 1..Len(r) : k < l /\ x = r[k] /\ y = r[l]
      BY <1>1, <3>3, <3>4
    <3> QED
      BY <1>1, <3>1, <3>5, OrderPairs
  <2> QED
    BY <2>1, <2>2
<1>3. Order(r, K) = Order(s, K \ {Head(s)})
  BY <1>2, OrderIsPairs, SamePairs
<1>4. ASSUME NEW y \in ToSet(s) \ {Head(s)}, Head(s) \in K, y \in K
      PROVE  <<Head(s), y>> \in Order(s, K)
  <2>1. PICK j \in 1..n : y = s[j]
    BY DEF ToSet
  <2>2. 1 \in 1..n /\ 1 < j
    BY <1>1, <1>4, <2>1
  <2> QED
    BY <1>1, <1>4, <2>1, <2>2, OrderPairs
<1> QED
  BY <1>3, <1>4 DEF r

LEMMA OrderAppend ==
  ASSUME NEW S, NEW s \in Seq(S), NEW e \in S, e \notin ToSet(s), NEW K, e \in K
  PROVE  Order(Append(s, e), K) = Order(s, K) \cup ((ToSet(s) \cap K) \X {e})
<1> DEFINE n == Len(s)
           a == Append(s, e)
           pairs == (ToSet(s) \cap K) \X {e}
<1>1. /\ n \in Nat /\ a \in Seq(S) /\ Len(a) = n + 1
      /\ \A i \in 1..n : a[i] = s[i]
      /\ a[n + 1] = e
  BY AppendProperties
<1>2. \A x : x \in ToSet(s) <=> \E i \in 1..n : x = s[i]
  BY DEF ToSet
<1>3. \A x, y : <<x, y>> \in pairs <=> x \in ToSet(s) /\ x \in K /\ y = e
  OBVIOUS
<1>4. \A p \in pairs : p = <<p[1], p[2]>>
  OBVIOUS
<1> HIDE DEF a, n, pairs
<1>5. ASSUME NEW x, NEW y
      PROVE  <<x, y>> \in Order(a, K) <=> <<x, y>> \in Order(s, K) \cup pairs
  <2>1. ASSUME <<x, y>> \in Order(a, K) PROVE <<x, y>> \in Order(s, K) \cup pairs
    <3>1. PICK i \in 1..(n + 1), j \in 1..(n + 1) :
            x \in K /\ y \in K /\ i < j /\ x = a[i] /\ y = a[j]
      BY <1>1, <2>1, OrderPairs
    <3>2. i \in 1..n /\ x = s[i]
      BY <1>1, <3>1
    <3>3. CASE j = n + 1
      BY <1>1, <1>2, <1>3, <3>1, <3>2, <3>3
    <3>4. CASE j # n + 1
      <4>1. j \in 1..n /\ y = s[j]
        BY <1>1, <3>1, <3>4
      <4>2. <<x, y>> \in Order(s, K)
        BY <3>1, <3>2, <4>1, OrderPairs DEF n
      <4> QED
        BY <4>2
    <3> QED
      BY <3>3, <3>4
  <2>2. ASSUME <<x, y>> \in Order(s, K) PROVE <<x, y>> \in Order(a, K)
    <3>1. PICK i \in 1..n, j \in 1..n :
            x \in K /\ y \in K /\ i < j /\ x = s[i] /\ y = s[j]
      BY <2>2, OrderPairs DEF n
    <3>2. x = a[i] /\ y = a[j] /\ i \in 1..Len(a) /\ j \in 1..Len(a)
      BY <1>1, <3>1
    <3> QED
      BY <1>1, <3>1, <3>2, OrderPairs
  <2>3. ASSUME <<x, y>> \in pairs PROVE <<x, y>> \in Order(a, K)
    <3>1. PICK i \in 1..n : x = s[i]
      BY <1>2, <1>3, <2>3
    <3>2. x = a[i] /\ y = a[n + 1] /\ i < n + 1 /\ i \in 1..Len(a) /\ n + 1 \in 1..Len(a)
      BY <1>1, <1>3, <2>3, <3>1
    <3> QED
      BY <1>1, <1>3, <2>3, <3>2, OrderPairs
  <2> QED
    BY <2>1, <2>2, <2>3
<1>6. \A p \in Order(s, K) \cup pairs : p = <<p[1], p[2]>>
  BY <1>4, OrderIsPairs
<1>7. Order(a, K) = Order(s, K) \cup pairs
  BY <1>5, <1>6, OrderIsPairs, SamePairs
<1> QED
  BY <1>7 DEF a, pairs

LEMMA OrderRemove ==
  ASSUME NEW S, NEW s \in Seq(S), Distinct(s), NEW e, NEW K
  PROVE  Order(RemoveFirst(s, e), K) = Order(s, K \ {e})
<1> DEFINE n == Len(s)
           r == RemoveFirst(s, e)
<1>1. CASE e \notin ToSet(s)
  <2>1. r = s
    BY <1>1 DEF RemoveFirst, ToSet
  <2>2. (K \ {e}) \cap ToSet(s) = K \cap ToSet(s)
    BY <1>1
  <2>3. Order(s, K) = Order(s, K \cap ToSet(s))
    BY OrderWithin
  <2>4. Order(s, K \ {e}) = Order(s, (K \ {e}) \cap ToSet(s))
    BY OrderWithin
  <2> QED
    BY <2>1, <2>2, <2>3, <2>4
<1>2. CASE e \in ToSet(s)
  <2>1. PICK p \in 1..Len(s) : s[p] = e /\ RemoveFirst(s, e) = RemoveAt(s, p)
    BY <1>2, RemoveFirstAt
  <2>a. r \in Seq(S) /\ Len(r) = n - 1
    BY <2>1, RemoveAtType
  <2>b. \A i \in 1..(n - 1) : r[i] = IF i < p THEN s[i] ELSE s[i + 1]
    BY <2>1, RemoveAtElements
  <2>2. /\ r \in Seq(S) /\ Len(r) = n - 1 /\ n \in Nat /\ p \in Nat /\ 1 <= p /\ p <= n
        /\ \A i \in 1..(n - 1) : r[i] = IF i < p THEN s[i] ELSE s[i + 1]
    BY <2>a, <2>b
  <2>3. \A i \in 1..n : s[i] = e => i = p
    BY <2>1 DEF Distinct
  <2>4. \A i, j \in 1..n : s[i] = s[j] => i = j
    BY DEF Distinct
  <2> HIDE DEF n, r
  <2>5. ASSUME NEW x, NEW y
        PROVE  <<x, y>> \in Order(r, K) <=> <<x, y>> \in Order(s, K \ {e})
    <3>1. ASSUME <<x, y>> \in Order(r, K) PROVE <<x, y>> \in Order(s, K \ {e})
      <4>1. PICK i \in 1..(n - 1), j \in 1..(n - 1) :
              x \in K /\ y \in K /\ i < j /\ x = r[i] /\ y = r[j]
        BY <2>2, <3>1, OrderPairs
      <4> DEFINE f(k) == IF k < p THEN k ELSE k + 1
      <4>2. /\ f(i) \in 1..n /\ f(j) \in 1..n /\ f(i) < f(j) /\ f(i) # p /\ f(j) # p
        BY <2>2, <4>1
      <4>3. x = s[f(i)] /\ y = s[f(j)]
        BY <2>2, <4>1
      <4> HIDE DEF f
      <4>4. x # e /\ y # e
        BY <2>3, <4>2, <4>3
      <4> QED
        BY <4>1, <4>2, <4>3, <4>4, OrderPairs DEF n
    <3>2. ASSUME <<x, y>> \in Order(s, K \ {e}) PROVE <<x, y>> \in Order(r, K)
      <4>1. PICK i \in 1..n, j \in 1..n :
              x \in K \ {e} /\ y \in K \ {e} /\ i < j /\ x = s[i] /\ y = s[j]
        BY <3>2, OrderPairs DEF n
      <4>2. i # p /\ j # p
        BY <2>1, <4>1
      <4> DEFINE g(k) == IF k < p THEN k ELSE k - 1
      <4>3. g(i) \in 1..(n - 1) /\ g(j) \in 1..(n - 1) /\ g(i) < g(j)
        BY <2>2, <4>1, <4>2
      <4>4. x = r[g(i)] /\ y = r[g(j)]
        <5>1. \A k \in 1..n : k # p /\ g(k) \in 1..(n - 1) => r[g(k)] = s[k]
          <6> SUFFICES ASSUME NEW k \in 1..n, k # p, g(k) \in 1..(n - 1)
                       PROVE  r[g(k)] = s[k]
            OBVIOUS
          <6>1. CASE k < p
            BY <2>2, <6>1
          <6>2. CASE ~(k < p)
            <7>1. g(k) = k - 1 /\ ~(k - 1 < p) /\ (k - 1) + 1 = k
              BY <2>2, <6>2
            <7> QED
              BY <2>2, <7>1
          <6> QED
            BY <6>1, <6>2
        <5> QED
          BY <4>1, <4>2, <4>3, <5>1
      <4> HIDE DEF g
      <4>5. \E k, l \in 1..Len(r) : k < l /\ x = r[k] /\ y = r[l]
        BY <2>2, <4>3, <4>4
      <4>6. r \in Seq(S) /\ x \in K /\ y \in K
        BY <2>2, <4>1
      <4> QED
        BY <4>5, <4>6, OrderPairs
    <3> QED
      BY <3>1, <3>2
  <2>6. Order(r, K) = Order(s, K \ {e})
    BY <2>5, OrderIsPairs, SamePairs
  <2> QED
    BY <2>6 DEF r
<1> QED
  BY <1>1, <1>2

\* A key that is put in the list follows all others.
LEMMA OrderPut ==
  ASSUME NEW s \in Seq(Keys), Distinct(s), Len(s) <= Room, NEW k \in Keys,
         k \in ToSet(s) \/ Len(s) < Room
  PROVE  Order(LruPut(s, k), ToSet(LruPut(s, k))) =
           Order(s, ToSet(s) \ {k}) \cup ((ToSet(s) \ {k}) \X {k})
<1> DEFINE r == RemoveFirst(s, k)
           all == ToSet(s) \cup {k}
<1>1. /\ Len(s) \in Nat /\ Room \in Nat
      /\ Contains(s, k) <=> k \in ToSet(s)
  BY ConstantsAssumption DEF Room, Contains, ToSet
<1>2. r \in Seq(Keys) /\ ToSet(r) = ToSet(s) \ {k}
  BY RemoveFirstType, RemoveFirstDistinct
<1>3. ToSet(LruPut(s, k)) = all
  BY LruPutDistinct
<1>4. CASE k \in ToSet(s)
  <2>1. LruPut(s, k) = Append(r, k)
    BY <1>1, <1>4 DEF LruPut
  <2>2. k \notin ToSet(r) /\ k \in all /\ ToSet(r) \cap all = ToSet(s) \ {k}
    BY <1>2
  <2> HIDE DEF r, all
  <2>3. Order(Append(r, k), all) = Order(r, all) \cup ((ToSet(r) \cap all) \X {k})
    BY <1>2, <2>2, OrderAppend
  <2>4. Order(r, all) = Order(s, all \ {k})
    BY OrderRemove DEF r
  <2>5. all \ {k} = ToSet(s) \ {k}
    BY DEF all
  <2> QED
    BY <1>3, <2>1, <2>2, <2>3, <2>4, <2>5
<1>5. CASE k \notin ToSet(s)
  <2>1. Len(s) < LruCap /\ LruCap \in Nat
    BY <1>1, <1>5, ConstantsAssumption DEF LruCap, Room
  <2>2. LruPut(s, k) = Append(s, k)
    BY <1>1, <1>5, <2>1 DEF LruPut
  <2>3. k \in all /\ ToSet(s) \cap all = ToSet(s) \ {k} /\ all \cap ToSet(s) = ToSet(s) \ {k}
    BY <1>5
  <2> HIDE DEF all
  <2>4. Order(Append(s, k), all) = Order(s, all) \cup ((ToSet(s) \cap all) \X {k})
    BY <1>5, <2>3, OrderAppend
  <2>5. Order(s, all) = Order(s, ToSet(s) \ {k})
    BY <2>3, OrderWithin
  <2> QED
    BY <1>3, <2>2, <2>3, <2>4, <2>5
<1> QED
  BY <1>4, <1>5

(* A list that names each of its keys once is as long as there are keys.   *)
LEMMA DistinctCardinality ==
  ASSUME NEW S, NEW s \in Seq(S), Distinct(s)
  PROVE  Cardinality(ToSet(s)) = Len(s)
<1>1. Len(s) \in Nat
  OBVIOUS
<1>2. IsFiniteSet(1..Len(s)) /\ Cardinality(1..Len(s)) = Len(s)
  BY <1>1, FS_Interval
<1>3. s \in Bijection(1..Len(s), ToSet(s))
  BY DEF Bijection, Injection, IsInjective, Surjection, ToSet, Distinct
<1>4. ExistsBijection(1..Len(s), ToSet(s))
  BY <1>3 DEF ExistsBijection
<1> QED
  BY <1>2, <1>4, FS_Bijection

-----------------------------------------------------------------------------
(* When one task has the cache to itself: what its operation is at.        *)

(* The index lists keys under their own tags; a hit is what is stored; and *)
(* only an invalidation by tag has keys to go through.                     *)
OperationInv ==
  /\ \A g \in Tags : \A k \in index[g] : TagOf[k] = g
  /\ \A t \in Tasks :
       /\ pc[t] \in {"check", "promote", "hit", "rewrite"} =>
            task[t].id = cache[task[t].key]
       /\ pc[t] # "purge" /\ task[t].then = "idle" => task[t].todo = {}

LEMMA RemoveEntryOperation ==
  ASSUME \A t, u \in Tasks : t = u, TypeOK, OperationInv, index' = index,
         NEW t \in Tasks, NEW k \in Keys, NEW l \in {"idle", "purge"},
         NEW rest \in Locals, RemoveEntry(t, k, l, rest),
         rest.then = "idle", l = "idle" => rest.todo = {}
  PROVE  OperationInv'
<1>1. \A u \in Tasks : u = t
  OBVIOUS
<1>2. CASE cache[k] # 0
  <2>1. /\ task'[t] = [rest EXCEPT !.key = k, !.then = l]
        /\ pc'[t] = "unindex"
    BY <1>2 DEF RemoveEntry, Goto, TypeOK
  <2>2. task'[t].then = l /\ task'[t].todo = rest.todo
    BY <2>1 DEF Locals
  <2> QED
    BY <1>1, <2>1, <2>2 DEF OperationInv
<1>3. CASE cache[k] = 0
  <2>1. task'[t] = rest /\ pc'[t] = l
    BY <1>3 DEF RemoveEntry, Goto, TypeOK
  <2> QED
    BY <1>1, <2>1 DEF OperationInv
<1> QED
  BY <1>2, <1>3

LEMMA StepOperation ==
  ASSUME \A t, u \in Tasks : t = u, IInv, OperationInv, [Next]_vars
  PROVE  OperationInv'
<1> USE ConstantsAssumption DEF IInv, TypeOK, LocalsInUse, OperationInv, Goto, Return
<1>0. CASE UNCHANGED vars \/ \E i \in Ids : Expire(i)
  BY <1>0 DEF vars, Expire
<1>a. Blank \in Locals /\ Blank.then = "idle" /\ Blank.todo = {}
  BY BlankType DEF Blank
<1>1. ASSUME NEW t \in Tasks, NEW k \in Keys, Invalidate(t, k) PROVE OperationInv'
  <2>1. RemoveEntry(t, k, "idle", Blank) /\ index' = index
    BY <1>1 DEF Invalidate
  <2> QED
    BY ONLY <1>a, <2>1, RemoveEntryOperation, t \in Tasks, k \in Keys,
            IInv, OperationInv, \A u, v \in Tasks : u = v DEF IInv
<1>2. ASSUME NEW t \in Tasks, Unindex(t) PROVE OperationInv'
  BY <1>2 DEF Unindex
<1>3. ASSUME NEW t \in Tasks, Unlink(t) PROVE OperationInv'
  BY <1>3 DEF Unlink
<1>4. ASSUME NEW t \in Tasks, Uncount(t) PROVE OperationInv'
  <2>1. /\ pc'[t] = task[t].then /\ task[t].then \in {"idle", "purge"}
        /\ task'[t].todo = task[t].todo /\ index' = index
    BY <1>4, LocalsFields DEF Uncount
  <2>2. \A u \in Tasks : u = t
    OBVIOUS
  <2>3. task[t].then = "idle" => task[t].todo = {}
    BY <1>4 DEF Uncount
  <2> QED
    BY ONLY <2>1, <2>2, <2>3, OperationInv DEF OperationInv
<1>5. ASSUME NEW t \in Tasks, NEW g \in Tags, PurgeSnapshot(t, g) PROVE OperationInv'
  BY <1>5 DEF PurgeSnapshot
<1>6. ASSUME NEW t \in Tasks, PurgeNext(t) PROVE OperationInv'
  <2> DEFINE rest(k) == [task[t] EXCEPT !.todo = @ \ {k}]
  <2>1. PICK k \in task[t].todo : RemoveEntry(t, k, "purge", rest(k))
    BY <1>6 DEF PurgeNext
  <2>2. k \in Keys /\ rest(k) \in Locals /\ rest(k).then = task[t].then
    BY DEF Locals
  <2>3. task[t].then = "idle" /\ index' = index
    BY <1>6, LocalsFields DEF PurgeNext
  <2> HIDE DEF rest
  <2> QED
    BY ONLY <2>1, <2>2, <2>3, RemoveEntryOperation, t \in Tasks, IInv,
            OperationInv, \A u, v \in Tasks : u = v DEF IInv
<1>7. ASSUME NEW t \in Tasks, PurgeTag(t) PROVE OperationInv'
  BY <1>7 DEF PurgeTag, Blank
<1>8. ASSUME NEW t \in Tasks, NEW k \in Keys, GetLookup(t, k) PROVE OperationInv'
  BY <1>8 DEF GetLookup
<1>9. ASSUME NEW t \in Tasks, GetExpired(t) PROVE OperationInv'
  <2>1. RemoveEntry(t, task[t].key, "idle", Blank) /\ index' = index /\ task[t].key \in Keys
    BY <1>9 DEF GetExpired
  <2> QED
    BY ONLY <1>a, <2>1, RemoveEntryOperation, t \in Tasks,
            IInv, OperationInv, \A u, v \in Tasks : u = v DEF IInv
<1>10. ASSUME NEW t \in Tasks, GetValid(t) PROVE OperationInv'
  BY <1>10 DEF GetValid
<1>11. ASSUME NEW t \in Tasks, GetPromote(t) PROVE OperationInv'
  BY <1>11 DEF GetPromote
<1>12. ASSUME NEW t \in Tasks, Serve(t) PROVE OperationInv'
  BY <1>12 DEF Serve, Blank
<1>13. ASSUME NEW t \in Tasks, UpdateTest(t) PROVE OperationInv'
  BY <1>13 DEF UpdateTest
<1>14. ASSUME NEW t \in Tasks, UpdateInsert(t) PROVE OperationInv'
  BY <1>14 DEF UpdateInsert, Blank
<1>15. ASSUME NEW t \in Tasks, NEW k \in Keys, SetTest(t, k) PROVE OperationInv'
  BY <1>15 DEF SetTest
<1>16. ASSUME NEW t \in Tasks, EvictPop(t) PROVE OperationInv'
  <2>1. /\ pc'[t] \in {"index", "evicted"} /\ index' = index
        /\ task'[t].then = task[t].then /\ task'[t].todo = task[t].todo
    BY <1>16 DEF EvictPop, Locals
  <2> QED
    BY <1>16, <2>1 DEF EvictPop
<1>17. ASSUME NEW t \in Tasks, EvictRemove(t) PROVE OperationInv'
  BY <1>17 DEF EvictRemove
<1>18. ASSUME NEW t \in Tasks, SetIndex(t) PROVE OperationInv'
  BY <1>18 DEF SetIndex
<1>19. ASSUME NEW t \in Tasks, SetInsert(t) PROVE OperationInv'
  BY <1>19 DEF SetInsert
<1>20. ASSUME NEW t \in Tasks, SetLink(t) PROVE OperationInv'
  BY <1>20 DEF SetLink
<1>21. ASSUME NEW t \in Tasks, SetCount(t) PROVE OperationInv'
  BY <1>21 DEF SetCount, Blank
<1> QED
  BY <1>0, <1>1, <1>2, <1>3, <1>4, <1>5, <1>6, <1>7, <1>8, <1>9, <1>10, <1>11,
     <1>12, <1>13, <1>14, <1>15, <1>16, <1>17, <1>18, <1>19, <1>20, <1>21
  DEF Next, Call, Step, Get, Set, Drop

-----------------------------------------------------------------------------
(* What the refinement mapping makes of the state at each label.           *)

Resting == {"idle", "check", "promote", "hit", "rewrite", "count"}
Dropping == {"purge", "unindex", "unlink", "uncount"}
Putting == {"evict", "evicted", "index", "insert"}

\* The order of the keys K once k has been put after them.
PutAfter(list, K, k) == Order(list, K \ {k}) \cup ((K \ {k}) \X {k})

LEMMA RestView ==
  TypeOK /\ pc[Only] \in Resting =>
    Settled = cache /\ SettledOrder = Order(lru, ToSet(lru))
<1> SUFFICES ASSUME TypeOK, pc[Only] \in Resting
             PROVE  Settled = cache /\ SettledOrder = Order(lru, ToSet(lru))
  OBVIOUS
<1>1. Leaving = {}
  BY DEF Leaving, In, Resting
<1>2. Settled = [k \in Keys |-> cache[k]]
  BY <1>1 DEF Settled, In, Resting
<1>3. Staying = ToSet(lru)
  BY <1>1 DEF Staying
<1> QED
  BY <1>2, <1>3 DEF TypeOK, SettledOrder, In, Resting

LEMMA DropView ==
  pc[Only] \in Dropping =>
    /\ Leaving = task[Only].todo \cup
                   (IF pc[Only] \in {"unindex", "unlink"} THEN {task[Only].key} ELSE {})
    /\ Settled = [k \in Keys |-> IF k \in Leaving THEN 0 ELSE cache[k]]
    /\ SettledOrder = Order(lru, ToSet(lru) \ Leaving)
<1> SUFFICES ASSUME pc[Only] \in Dropping
             PROVE  /\ Leaving = task[Only].todo \cup
                         (IF pc[Only] \in {"unindex", "unlink"} THEN {task[Only].key} ELSE {})
                    /\ Settled = [k \in Keys |-> IF k \in Leaving THEN 0 ELSE cache[k]]
                    /\ SettledOrder = Order(lru, ToSet(lru) \ Leaving)
  OBVIOUS
<1>1. Leaving = task[Only].todo \cup
                  (IF pc[Only] \in {"unindex", "unlink"} THEN {task[Only].key} ELSE {})
  BY DEF Leaving, In, Self, Dropping
<1>2. Settled = [k \in Keys |-> IF k \in Leaving THEN 0 ELSE cache[k]]
  BY DEF Settled, In, Dropping
<1>3. SettledOrder = Order(lru, ToSet(lru) \ Leaving)
  BY DEF SettledOrder, Staying, In, Dropping
<1> QED
  BY <1>1, <1>2, <1>3

LEMMA PutView ==
  pc[Only] \in Putting =>
    /\ Leaving = IF pc[Only] = "evict" /\ lru # <<>> THEN {Head(lru)}
                 ELSE IF pc[Only] = "evicted" THEN {task[Only].victim} ELSE {}
    /\ Settled = [k \in Keys |-> IF k = task[Only].key THEN task[Only].id
                                 ELSE IF k \in Leaving THEN 0 ELSE cache[k]]
    /\ SettledOrder = PutAfter(lru, ToSet(lru) \ Leaving, task[Only].key)
<1> SUFFICES ASSUME pc[Only] \in Putting
             PROVE  /\ Leaving = IF pc[Only] = "evict" /\ lru # <<>> THEN {Head(lru)}
                                 ELSE IF pc[Only] = "evicted" THEN {task[Only].victim} ELSE {}
                    /\ Settled = [k \in Keys |-> IF k = task[Only].key THEN task[Only].id
                                                 ELSE IF k \in Leaving THEN 0 ELSE cache[k]]
                    /\ SettledOrder = PutAfter(lru, ToSet(lru) \ Leaving, task[Only].key)
  OBVIOUS
<1>1. Leaving = IF pc[Only] = "evict" /\ lru # <<>> THEN {Head(lru)}
                ELSE IF pc[Only] = "evicted" THEN {task[Only].victim} ELSE {}
  BY DEF Leaving, In, Self, Putting
<1>2. Settled = [k \in Keys |-> IF k = task[Only].key THEN task[Only].id
                                ELSE IF k \in Leaving THEN 0 ELSE cache[k]]
  BY DEF Settled, In, Self, Putting
<1>3. SettledOrder = PutAfter(lru, ToSet(lru) \ Leaving, task[Only].key)
  BY DEF SettledOrder, Staying, PutAfter, In, Self, Putting
<1> QED
  BY <1>1, <1>2, <1>3

LEMMA LinkView ==
  TypeOK /\ pc[Only] = "link" =>
    Settled = cache /\ SettledOrder = PutAfter(lru, ToSet(lru), task[Only].key)
<1> SUFFICES ASSUME TypeOK, pc[Only] = "link"
             PROVE  Settled = cache /\ SettledOrder = PutAfter(lru, ToSet(lru), task[Only].key)
  OBVIOUS
<1>1. Leaving = {}
  BY DEF Leaving, In
<1>2. Settled = [k \in Keys |-> cache[k]]
  BY <1>1 DEF Settled, In
<1>3. Staying = ToSet(lru)
  BY <1>1 DEF Staying
<1>4. SettledOrder = PutAfter(lru, ToSet(lru), task[Only].key)
  BY <1>3 DEF SettledOrder, PutAfter, In, Self
<1> QED
  BY <1>2, <1>4 DEF TypeOK

\* The same of the next state.
LEMMA Views ==
  /\ (TypeOK /\ pc[Only] \in Resting =>
        Settled = cache /\ SettledOrder = Order(lru, ToSet(lru)))'
  /\ (pc[Only] \in Dropping =>
        /\ Leaving = task[Only].todo \cup
                       (IF pc[Only] \in {"unindex", "unlink"} THEN {task[Only].key} ELSE {})
        /\ Settled = [k \in Keys |-> IF k \in Leaving THEN 0 ELSE cache[k]]
        /\ SettledOrder = Order(lru, ToSet(lru) \ Leaving))'
  /\ (pc[Only] \in Putting =>
        /\ Leaving = IF pc[Only] = "evict" /\ lru # <<>> THEN {Head(lru)}
                     ELSE IF pc[Only] = "evicted" THEN {task[Only].victim} ELSE {}
        /\ Settled = [k \in Keys |-> IF k = task[Only].key THEN task[Only].id
                                     ELSE IF k \in Leaving THEN 0 ELSE cache[k]]
        /\ SettledOrder = PutAfter(lru, ToSet(lru) \ Leaving, task[Only].key))'
  /\ (TypeOK /\ pc[Only] = "link" =>
        Settled = cache /\ SettledOrder = PutAfter(lru, ToSet(lru), task[Only].key))'
  BY RestView, DropView, PutView, LinkView, PTL

-----------------------------------------------------------------------------
(* Each step of a lone task is an operation of LruCache, or none.          *)

Lone == Tasks = {Only} /\ IInv /\ IndexInv /\ LruInv /\ OperationInv

Stutters == UNCHANGED <<Settled, SettledOrder>>

LEMMA LoneFacts ==
  ASSUME Lone
  PROVE  /\ TypeOK /\ Only \in Tasks /\ pc[Only] \in Labels /\ task[Only] \in Locals
         /\ cache \in [Keys -> Ids \cup {0}]
         /\ lru \in Seq(Keys) /\ Distinct(lru) /\ Len(lru) <= Room /\ Len(lru) \in Nat
         /\ LruAt(Only)
<1>1. TypeOK /\ Only \in Tasks /\ Distinct(lru) /\ Len(lru) <= Room /\ LruAt(Only)
  BY DEF Lone, IInv, LruInv
<1> QED
  BY <1>1 DEF TypeOK

LEMMA Rests ==
  ASSUME Lone, TypeOK', pc[Only] \in Resting, pc'[Only] \in Resting,
         cache' = cache, lru' = lru
  PROVE  Stutters
<1>1. Settled = cache /\ SettledOrder = Order(lru, ToSet(lru))
  BY LoneFacts, RestView
<1>2. Settled' = cache' /\ SettledOrder' = Order(lru', ToSet(lru'))
  BY Views
<1> QED
  BY <1>1, <1>2 DEF Stutters

\* invalidate(key), and get(key) of a stale response.
LEMMA RemoveRefines ==
  ASSUME Lone, TypeOK', NEW k \in Keys, pc[Only] \in {"idle", "check"},
         RemoveEntry(Only, k, "idle", Blank), lru' = lru
  PROVE  Stutters \/ Abstract!Drop({k})
<1>1. Settled = cache /\ SettledOrder = Order(lru, ToSet(lru))
  BY LoneFacts, RestView DEF Resting
<1>2. CASE cache[k] = 0
  <2>1. pc'[Only] = "idle" /\ cache' = cache
    BY <1>2, LoneFacts DEF RemoveEntry, Goto, TypeOK
  <2> QED
    BY <2>1, Rests DEF Resting
<1>3. CASE cache[k] # 0
  <2>1. /\ pc'[Only] = "unindex" /\ cache' = [cache EXCEPT ![k] = 0]
        /\ task'[Only] = [Blank EXCEPT !.key = k, !.then = "idle"]
    BY <1>3, LoneFacts DEF RemoveEntry, Goto, TypeOK
  <2>2. task'[Only].key = k /\ task'[Only].todo = {}
    BY <2>1 DEF Blank
  <2>3. Leaving' = {k}
    BY <2>1, <2>2, Views DEF Dropping
  <2>4. /\ Settled' = [j \in Keys |-> IF j \in {k} THEN 0 ELSE cache'[j]]
        /\ SettledOrder' = Order(lru', ToSet(lru') \ {k})
    BY <2>1, <2>3, Views DEF Dropping
  <2>5. Settled' = [j \in Keys |-> IF j \in {k} THEN 0 ELSE Settled[j]]
    BY <1>1, <2>1, <2>4, LoneFacts
  <2>6. SettledOrder' = SettledOrder \cap ((Keys \ {k}) \X (Keys \ {k}))
    <3>1. ToSet(lru) \cap (Keys \ {k}) = ToSet(lru) \ {k}
      BY LoneFacts DEF ToSet
    <3>2. SettledOrder \cap ((Keys \ {k}) \X (Keys \ {k})) =
            Order(lru, ToSet(lru) \cap (Keys \ {k}))
      BY <1>1, LoneFacts, OrderWithin
    <3> QED
      BY <2>4, <3>1, <3>2
  <2> QED
    BY <2>5, <2>6 DEF Abstract!Drop, Abstract!Among
<1> QED
  BY <1>2, <1>3

\* invalidate_by_tag takes effect as its keys are copied.
LEMMA SnapshotRefines ==
  ASSUME Lone, TypeOK', NEW g \in Tags, PurgeSnapshot(Only, g)
  PROVE  Abstract!Drop({k \in Keys : TagOf[k] = g})
<1> DEFINE tagged == {k \in Keys : TagOf[k] = g}
<1>1. Settled = cache /\ SettledOrder = Order(lru, ToSet(lru)) /\ ToSet(lru) = Cached
  BY LoneFacts, RestView DEF PurgeSnapshot, Resting, LruAt, Linked
<1>2. /\ pc'[Only] = "purge" /\ cache' = cache /\ lru' = lru
      /\ task'[Only].todo = index[g]
  BY LoneFacts DEF PurgeSnapshot, Goto, TypeOK, Locals
<1>3. Leaving' = index[g]
  BY <1>2, Views DEF Dropping
<1>4. /\ Settled' = [j \in Keys |-> IF j \in index[g] THEN 0 ELSE cache[j]]
      /\ SettledOrder' = Order(lru, ToSet(lru) \ index[g])
  BY <1>2, <1>3, Views DEF Dropping
<1>5. \A k \in Keys : cache[k] # 0 => (k \in index[g] <=> k \in tagged)
  BY ConstantsAssumption DEF Lone, OperationInv, IndexInv, Cached
<1>6. Settled' = [j \in Keys |-> IF j \in tagged THEN 0 ELSE Settled[j]]
  BY <1>1, <1>4, <1>5
<1>7. SettledOrder' = SettledOrder \cap ((Keys \ tagged) \X (Keys \ tagged))
  <2>1. ToSet(lru) \cap (Keys \ tagged) = ToSet(lru) \ index[g]
    BY <1>1, <1>5 DEF Cached
  <2>2. SettledOrder \cap ((Keys \ tagged) \X (Keys \ tagged)) =
          Order(lru, ToSet(lru) \cap (Keys \ tagged))
    BY <1>1, LoneFacts, OrderWithin
  <2> QED
    BY <1>4, <2>1, <2>2
<1> QED
  BY <1>6, <1>7 DEF Abstract!Drop, Abstract!Among

\* The rest of an invalidation.
LEMMA DropStutters ==
  ASSUME Lone, TypeOK', pc[Only] \in Dropping, Drop(Only)
  PROVE  Stutters
<1>1. /\ Settled = [k \in Keys |-> IF k \in Leaving THEN 0 ELSE cache[k]]
      /\ SettledOrder = Order(lru, ToSet(lru) \ Leaving)
      /\ Leaving = task[Only].todo \cup
                     (IF pc[Only] \in {"unindex", "unlink"} THEN {task[Only].key} ELSE {})
  BY DropView
<1>2. CASE Unindex(Only)
  <2>1. /\ pc[Only] = "unindex" /\ pc'[Only] = "unlink"
        /\ UNCHANGED <<cache, lru, task>>
    BY <1>2, LoneFacts DEF Unindex, Goto, TypeOK
  <2>2. Leaving' = Leaving
    BY <1>1, <2>1, Views DEF Dropping
  <2> QED
    BY <1>1, <2>1, <2>2, Views DEF Dropping, Stutters
<1>3. CASE Unlink(Only)
  <2> DEFINE k == task[Only].key
  <2>1. /\ pc[Only] = "unlink" /\ pc'[Only] = "uncount" /\ lru' = RemoveFirst(lru, k)
        /\ UNCHANGED <<cache, task>>
    BY <1>3, LoneFacts DEF Unlink, Goto, TypeOK
  <2>2. Leaving = task[Only].todo \cup {k} /\ Leaving' = task[Only].todo
    BY <1>1, <2>1, Views DEF Dropping
  <2>3. k \in Keys /\ cache[k] = 0
    BY <2>1, LoneFacts DEF LruAt, Linked, Cached, Lone, IInv, LocalsInUse
  <2>4. Settled' = [j \in Keys |-> IF j \in task[Only].todo THEN 0 ELSE cache[j]]
    BY <2>1, <2>2, Views DEF Dropping
  <2>5. Settled' = Settled
    BY <1>1, <2>2, <2>3, <2>4
  <2>6. SettledOrder' = Order(RemoveFirst(lru, k), ToSet(RemoveFirst(lru, k)) \ task[Only].todo)
    BY <2>1, <2>2, Views DEF Dropping
  <2>7. ToSet(RemoveFirst(lru, k)) = ToSet(lru) \ {k}
    BY LoneFacts, RemoveFirstDistinct
  <2>8. SettledOrder' = Order(lru, ((ToSet(lru) \ {k}) \ task[Only].todo) \ {k})
    BY <2>6, <2>7, LoneFacts, OrderRemove
  <2>9. ((ToSet(lru) \ {k}) \ task[Only].todo) \ {k} = ToSet(lru) \ Leaving
    BY <2>2
  <2> QED
    BY <1>1, <2>5, <2>8, <2>9 DEF Stutters
<1>4. CASE Uncount(Only)
  <2>1. /\ pc[Only] = "uncount" /\ pc'[Only] = task[Only].then
        /\ task[Only].then \in {"idle", "purge"}
        /\ task'[Only].todo = task[Only].todo
        /\ UNCHANGED <<cache, lru>>
    BY <1>4, LoneFacts, LocalsFields DEF Uncount, Goto, TypeOK
  <2>2. Leaving = task[Only].todo
    BY <1>1, <2>1
  <2>3. CASE task[Only].then = "purge"
    <3>1. Leaving' = Leaving
      BY <2>1, <2>2, <2>3, Views DEF Dropping
    <3> QED
      BY <1>1, <2>1, <2>3, <3>1, Views DEF Dropping, Stutters
  <2>4. CASE task[Only].then = "idle"
    <3>1. Leaving = {}
      BY <2>1, <2>2, <2>4, LoneFacts DEF Lone, OperationInv
    <3>2. Settled = cache /\ SettledOrder = Order(lru, ToSet(lru))
      BY <1>1, <3>1, LoneFacts
    <3>3. Settled' = cache' /\ SettledOrder' = Order(lru', ToSet(lru'))
      BY <2>1, <2>4, Views DEF Resting
    <3> QED
      BY <2>1, <3>2, <3>3 DEF Stutters
  <2> QED
    BY <2>1, <2>3, <2>4
<1>5. CASE PurgeNext(Only)
  <2> DEFINE rest(k) == [task[Only] EXCEPT !.todo = @ \ {k}]
  <2>1. PICK k \in task[Only].todo : RemoveEntry(Only, k, "purge", rest(k))
    BY <1>5 DEF PurgeNext
  <2>2. /\ pc[Only] = "purge" /\ lru' = lru /\ k \in Keys
        /\ rest(k).todo = task[Only].todo \ {k} /\ Leaving = task[Only].todo
    BY <1>1, <1>5, LoneFacts DEF PurgeNext, Locals
  <2>3. ToSet(lru) = Cached
    BY <2>2, LoneFacts DEF LruAt, Linked
  <2>4. CASE cache[k] # 0
    <3>1. /\ pc'[Only] = "unindex" /\ cache' = [cache EXCEPT ![k] = 0]
          /\ task'[Only] = [rest(k) EXCEPT !.key = k, !.then = "purge"]
      BY <2>1, <2>4, LoneFacts DEF RemoveEntry, Goto, TypeOK
    <3>2. task'[Only].key = k /\ task'[Only].todo = task[Only].todo \ {k}
      BY <3>1, LoneFacts DEF Locals
    <3>3. Leaving' = Leaving
      BY <2>2, <3>1, <3>2, Views DEF Dropping
    <3>4. /\ Settled' = [j \in Keys |-> IF j \in Leaving THEN 0 ELSE cache'[j]]
          /\ SettledOrder' = Order(lru, ToSet(lru) \ Leaving)
      BY <2>2, <3>1, <3>3, Views DEF Dropping
    <3>5. Settled' = Settled
      BY <1>1, <2>2, <3>1, <3>4, LoneFacts
    <3> QED
      BY <1>1, <3>4, <3>5 DEF Stutters
  <2>5. CASE cache[k] = 0
    <3>1. pc'[Only] = "purge" /\ cache' = cache /\ task'[Only] = rest(k)
      BY <2>1, <2>5, LoneFacts DEF RemoveEntry, Goto, TypeOK
    <3>2. Leaving' = Leaving \ {k}
      BY <2>2, <3>1, Views DEF Dropping
    <3>3. /\ Settled' = [j \in Keys |-> IF j \in Leaving \ {k} THEN 0 ELSE cache[j]]
          /\ SettledOrder' = Order(lru, ToSet(lru) \ (Leaving \ {k}))
      BY <2>2, <3>1, <3>2, Views DEF Dropping
    <3>4. ToSet(lru) \ (Leaving \ {k}) = ToSet(lru) \ Leaving
      BY <2>3, <2>5 DEF Cached
    <3>5. Settled' = Settled
      BY <1>1, <2>5, <3>3
    <3> QED
      BY <1>1, <3>3, <3>4, <3>5 DEF Stutters
  <2> QED
    BY <2>4, <2>5
<1>6. CASE PurgeTag(Only)
  <2>1. /\ pc[Only] = "purge" /\ task[Only].todo = {} /\ pc'[Only] = "idle"
        /\ UNCHANGED <<cache, lru>>
    BY <1>6, LoneFacts DEF PurgeTag, Return, Goto, TypeOK
  <2>2. Leaving = {}
    BY <1>1, <2>1
  <2>3. Settled = cache /\ SettledOrder = Order(lru, ToSet(lru))
    BY <1>1, <2>2, LoneFacts
  <2>4. Settled' = cache' /\ SettledOrder' = Order(lru', ToSet(lru'))
    BY <2>1, Views DEF Resting
  <2> QED
    BY <2>1, <2>3, <2>4 DEF Stutters
<1> QED
  BY <1>2, <1>3, <1>4, <1>5, <1>6 DEF Drop

\* LruCache counts as the cache does.
LEMMA SameCardinality ==
  ASSUME NEW S
  PROVE  Abstract!Cardinality(S) = Cardinality(S)
  BY DEF Abstract!Cardinality, Cardinality

\* A task that is at rest or at its call sees the cache as it is.
LEMMA RestFacts ==
  ASSUME Lone, pc[Only] \in Resting, pc[Only] # "count"
  PROVE  /\ Settled = cache /\ SettledOrder = Order(lru, ToSet(lru))
         /\ ToSet(lru) = Cached /\ Abstract!Held = Cached
         /\ Cardinality(Abstract!Held) = Len(lru)
<1>1. Settled = cache /\ SettledOrder = Order(lru, ToSet(lru))
  BY LoneFacts, RestView
<1>2. ToSet(lru) = Cached
  BY LoneFacts DEF LruAt, Linked, Resting
<1>3. Abstract!Held = Cached
  BY <1>1 DEF Abstract!Held, Cached
<1> QED
  BY <1>1, <1>2, <1>3, LoneFacts, DistinctCardinality

LEMMA UsedLastOrder ==
  ASSUME Lone, pc[Only] \in Resting, pc[Only] # "count",
         NEW K \in SUBSET ToSet(lru), NEW k
  PROVE  Abstract!UsedLast(K, k) = PutAfter(lru, K, k)
<1> DEFINE L == K \ {k}
<1>1. ToSet(lru) \cap L = L
  OBVIOUS
<1>2. SettledOrder = Order(lru, ToSet(lru)) /\ lru \in Seq(Keys)
  BY RestFacts, LoneFacts
<1>3. Abstract!UsedLast(K, k) = (SettledOrder \cap (L \X L)) \cup (L \X {k})
  BY DEF Abstract!UsedLast, Abstract!Among
<1>4. PutAfter(lru, K, k) = Order(lru, L) \cup (L \X {k})
  BY DEF PutAfter
<1> HIDE DEF L
<1>5. SettledOrder \cap (L \X L) = Order(lru, L)
  <2>1. Order(lru, ToSet(lru)) \cap (L \X L) = Order(lru, ToSet(lru) \cap L)
    BY <1>2, OrderWithin
  <2> QED
    BY <1>1, <1>2, <2>1
<1> QED
  BY <1>3, <1>4, <1>5

\* get(key): a hit is promoted if the key is still listed.
LEMMA PromoteRefines ==
  ASSUME Lone, TypeOK', GetPromote(Only)
  PROVE  Stutters \/ \E k \in Keys : Abstract!Hit(k)
<1> DEFINE k == task[Only].key
<1>1. /\ pc[Only] = "promote" /\ pc'[Only] = "hit" /\ cache' = cache
      /\ lru' = IF Contains(lru, k) THEN Append(RemoveFirst(lru, k), k) ELSE lru
  BY LoneFacts DEF GetPromote, Goto, TypeOK
<1>2. k \in Keys
  BY <1>1 DEF Lone, IInv, LocalsInUse
<1>3. Contains(lru, k) <=> k \in ToSet(lru)
  BY DEF Contains, ToSet
<1>4. CASE k \notin ToSet(lru)
  BY <1>1, <1>3, <1>4, Rests DEF Resting
<1>5. CASE k \in ToSet(lru)
  <2>1. lru' = LruPut(lru, k)
    BY <1>1, <1>3, <1>5 DEF LruPut
  <2>2. Settled' = cache' /\ SettledOrder' = Order(lru', ToSet(lru'))
    BY <1>1, Views DEF Resting
  <2>3. SettledOrder' = PutAfter(lru, ToSet(lru), k)
    BY <1>2, <1>5, <2>1, <2>2, LoneFacts, OrderPut DEF PutAfter
  <2>4. Abstract!UsedLast(Abstract!Held, k) = PutAfter(lru, ToSet(lru), k)
    BY <1>1, RestFacts, UsedLastOrder DEF Resting
  <2>5. k \in Abstract!Held /\ Settled' = Settled
    BY <1>1, <1>5, <2>2, RestFacts DEF Resting
  <2> QED
    BY <1>2, <2>3, <2>4, <2>5 DEF Abstract!Hit
<1> QED
  BY <1>4, <1>5

\* set(key, response) takes effect at its test.
LEMMA SetTestRefines ==
  ASSUME Lone, TypeOK', NEW k \in Keys, SetTest(Only, k)
  PROVE  \E i \in 1..MaxSets :
           Abstract!Overwrite(k, i) \/ Abstract!Add(k, i) \/ Abstract!AddEvicting(k, i)
<1> DEFINE i == sets + 1
           full == Len(lru) >= MaxEntries /\ cache[k] = 0
           v == Head(lru)
<1>1. /\ pc[Only] = "idle" /\ cache' = cache /\ lru' = lru /\ i \in 1..MaxSets
      /\ task'[Only].key = k /\ task'[Only].id = i
      /\ pc'[Only] = IF full THEN "evict" ELSE "index"
  <2>1. sets \in Nat /\ sets < MaxSets /\ MaxSets \in Nat
    BY LoneFacts, ConstantsAssumption DEF SetTest, TypeOK
  <2>2. task'[Only] = [task[Only] EXCEPT !.key = k, !.id = i]
    BY LoneFacts DEF SetTest, TypeOK
  <2>3. task'[Only].key = k /\ task'[Only].id = i
    BY <2>2, LoneFacts DEF Locals
  <2>4. pc'[Only] = IF full THEN "evict" ELSE "index"
    BY LoneFacts DEF SetTest, Goto, TypeOK
  <2> QED
    BY <2>1, <2>3, <2>4 DEF SetTest
<1>2. /\ Settled = cache /\ ToSet(lru) = Cached /\ Abstract!Held = Cached
      /\ Cardinality(Abstract!Held) = Len(lru)
      /\ Cached = {j \in Keys : cache[j] # 0}
  BY <1>1, RestFacts DEF Resting, Cached
<1>3. /\ Settled' = [j \in Keys |-> IF j = k THEN i ELSE IF j \in Leaving' THEN 0 ELSE cache[j]]
      /\ SettledOrder' = PutAfter(lru, ToSet(lru) \ Leaving', k)
      /\ Leaving' = IF full /\ lru # <<>> THEN {v} ELSE {}
  BY <1>1, Views DEF Putting
<1>4. \A K \in SUBSET ToSet(lru) : Abstract!UsedLast(K, k) = PutAfter(lru, K, k)
  BY <1>1, UsedLastOrder DEF Resting
<1>5. /\ Len(lru) \in Nat /\ Len(lru) <= Room /\ MaxEntries \in Nat
      /\ lru = <<>> <=> Len(lru) = 0
      /\ Room = IF MaxEntries = 0 THEN 1 ELSE MaxEntries
  BY LoneFacts, EmptySeq, ConstantsAssumption DEF Room
<1> HIDE DEF i, v
<1>6. CASE ~full \/ lru = <<>>
  <2>1. Leaving' = {}
    BY <1>3, <1>6
  <2>2. Settled' = [Settled EXCEPT ![k] = i]
    BY <1>2, <1>3, <2>1, LoneFacts
  <2>3. SettledOrder' = Abstract!UsedLast(Abstract!Held, k)
    BY <1>2, <1>3, <1>4, <2>1
  <2>4. CASE cache[k] # 0
    <3>1. k \in Abstract!Held
      BY <1>2, <2>4
    <3>2. Abstract!Overwrite(k, i)
      BY <2>2, <2>3, <3>1 DEF Abstract!Overwrite
    <3> QED
      BY <1>1, <3>2
  <2>5. CASE cache[k] = 0
    <3>1. k \notin Abstract!Held
      BY <1>2, <2>5
    <3>2. Len(lru) < Room
      BY <1>5, <1>6, <2>5
    <3>3. Cardinality(Abstract!Held) < IF MaxEntries = 0 THEN 1 ELSE MaxEntries
      BY ONLY <1>2, <1>5, <3>2
    <3>4. Abstract!Add(k, i)
      BY ONLY <2>2, <2>3, <3>1, <3>3, SameCardinality DEF Abstract!Add
    <3> QED
      BY <1>1, <3>4
  <2> QED
    BY <2>4, <2>5
<1>7. CASE full /\ lru # <<>>
  <2>a. Leaving' = {v} /\ cache[k] = 0 /\ Len(lru) >= MaxEntries /\ Len(lru) # 0
    BY <1>3, <1>5, <1>7
  <2>b. Len(lru) = Room
    <3>1. Len(lru) \in Nat /\ Room \in Nat /\ Room <= Len(lru) /\ Len(lru) <= Room
      BY <1>5, <2>a
    <3> QED
      BY ONLY <3>1
  <2>1. Leaving' = {v} /\ cache[k] = 0 /\ Len(lru) = Room
    BY ONLY <2>a, <2>b
  <2>2. v \in ToSet(lru) /\ v \in Keys /\ v # k
    <3>1. v \in ToSet(lru)
      BY <1>7, LoneFacts, TailDistinct DEF v
    <3> QED
      BY <1>2, <2>1, <3>1
  <2>3. Settled' = [Settled EXCEPT ![v] = 0, ![k] = i]
    BY <1>2, <1>3, <2>1, <2>2, LoneFacts
  <2>4. SettledOrder' = Abstract!UsedLast(Abstract!Held \ {v}, k)
    <3>1. ToSet(lru) \ {v} \in SUBSET ToSet(lru)
      OBVIOUS
    <3> QED
      BY <1>2, <1>3, <1>4, <2>1, <3>1
  <2>5. Abstract!Oldest(v)
    <3>1. \A j \in ToSet(lru) \ {v} : <<v, j>> \in Order(lru, ToSet(lru))
      BY <1>7, <2>2, LoneFacts, OrderTail DEF v
    <3> QED
      BY <1>1, <1>2, <2>2, <3>1, RestFacts DEF Abstract!Oldest, Resting
  <2>6. k \notin Abstract!Held
    BY <1>2, <2>1
  <2>7. Cardinality(Abstract!Held) = IF MaxEntries = 0 THEN 1 ELSE MaxEntries
    BY ONLY <1>2, <1>5, <2>1
  <2>8. Abstract!AddEvicting(k, i)
    BY ONLY <2>2, <2>3, <2>4, <2>5, <2>6, <2>7, SameCardinality DEF Abstract!AddEvicting
  <2> QED
    BY <1>1, <2>8
<1> QED
  BY <1>6, <1>7

\* The rest of a set: the abstract one has already taken effect.
LEMMA PutStutters ==
  ASSUME Lone, TypeOK',
         EvictPop(Only) \/ EvictRemove(Only) \/ SetIndex(Only) \/ SetInsert(Only) \/ SetLink(Only)
  PROVE  Stutters
<1> DEFINE k == task[Only].key
           v == Head(lru)
<1>0. /\ k \in Keys /\ task[Only] \in Locals
  BY LoneFacts DEF Lone, IInv, LocalsInUse, EvictPop, EvictRemove, SetIndex, SetInsert, SetLink
<1>1. pc[Only] \in Putting =>
        /\ Settled = [j \in Keys |-> IF j = k THEN task[Only].id
                                     ELSE IF j \in Leaving THEN 0 ELSE cache[j]]
        /\ SettledOrder = PutAfter(lru, ToSet(lru) \ Leaving, k)
        /\ Leaving = IF pc[Only] = "evict" /\ lru # <<>> THEN {v}
                     ELSE IF pc[Only] = "evicted" THEN {task[Only].victim} ELSE {}
  BY PutView
<1>2. ASSUME pc'[Only] \in Putting, task'[Only].key = k, task'[Only].id = task[Only].id
      PROVE  /\ Settled' = [j \in Keys |-> IF j = k THEN task[Only].id
                                           ELSE IF j \in Leaving' THEN 0 ELSE cache'[j]]
             /\ SettledOrder' = PutAfter(lru', ToSet(lru') \ Leaving', k)
             /\ Leaving' = IF pc'[Only] = "evict" /\ lru' # <<>> THEN {Head(lru')}
                           ELSE IF pc'[Only] = "evicted" THEN {task'[Only].victim} ELSE {}
  BY <1>2, Views
<1> HIDE DEF v
<1>3. CASE EvictPop(Only)
  <2>1. /\ pc[Only] = "evict" /\ cache' = cache
        /\ task'[Only].key = k /\ task'[Only].id = task[Only].id
        /\ lru = <<>> => pc'[Only] = "index" /\ lru' = lru
        /\ lru # <<>> => /\ pc'[Only] = "evicted" /\ lru' = Tail(lru)
                         /\ task'[Only].victim = v
    BY <1>0, <1>3, LoneFacts DEF EvictPop, Goto, TypeOK, Locals, v
  <2>2. CASE lru = <<>>
    <3>1. Leaving = {} /\ Leaving' = {}
      BY <1>1, <1>2, <2>1, <2>2 DEF Putting
    <3> QED
      BY <1>1, <1>2, <2>1, <2>2, <3>1 DEF Putting, Stutters
  <2>3. CASE lru # <<>>
    <3>1. Leaving = {v} /\ Leaving' = {v}
      BY <1>1, <1>2, <2>1, <2>3 DEF Putting
    <3>2. ToSet(lru') \ {v} = ToSet(lru) \ {v}
      BY <2>1, <2>3, LoneFacts, TailDistinct DEF v
    <3>3. Order(lru', (ToSet(lru) \ {v}) \ {k}) = Order(lru, ((ToSet(lru) \ {v}) \ {k}) \ {v})
      BY <2>1, <2>3, LoneFacts, OrderTail DEF v
    <3>4. ((ToSet(lru) \ {v}) \ {k}) \ {v} = (ToSet(lru) \ {v}) \ {k}
      OBVIOUS
    <3>5. PutAfter(lru', ToSet(lru) \ {v}, k) = PutAfter(lru, ToSet(lru) \ {v}, k)
      BY <3>3, <3>4 DEF PutAfter
    <3> QED
      BY <1>1, <1>2, <2>1, <2>3, <3>1, <3>2, <3>5 DEF Putting, Stutters
  <2> QED
    BY <2>2, <2>3
<1>4. CASE EvictRemove(Only)
  <2> DEFINE w == task[Only].victim
  <2>1. /\ pc[Only] = "evicted" /\ pc'[Only] = "index" /\ lru' = lru
        /\ cache' = [cache EXCEPT ![w] = 0]
        /\ task'[Only].key = k /\ task'[Only].id = task[Only].id
    BY <1>0, <1>4, LoneFacts DEF EvictRemove, Goto, TypeOK, Locals
  <2>2. Leaving = {w} /\ Leaving' = {}
    BY <1>1, <1>2, <2>1 DEF Putting
  <2>3. w \notin ToSet(lru) /\ w \in Keys
    BY <2>1, LoneFacts DEF LruAt, Linked, Lone, IInv, LocalsInUse
  <2>4. ToSet(lru) \ {w} = ToSet(lru) /\ ToSet(lru) \ {} = ToSet(lru)
    BY <2>3
  <2>5. /\ Settled' = [j \in Keys |-> IF j = k THEN task[Only].id ELSE cache'[j]]
        /\ SettledOrder' = PutAfter(lru, ToSet(lru), k)
    BY <1>2, <2>1, <2>2, <2>4 DEF Putting
  <2>6. Settled' = Settled
    BY <1>1, <2>1, <2>2, <2>5, LoneFacts DEF Putting
  <2> QED
    BY <1>1, <2>1, <2>2, <2>4, <2>5, <2>6 DEF Putting, Stutters
<1>5. CASE SetIndex(Only)
  <2>1. /\ pc[Only] = "index" /\ pc'[Only] = "insert"
        /\ UNCHANGED <<cache, lru, task>>
    BY <1>5, LoneFacts DEF SetIndex, Goto, TypeOK
  <2>2. Leaving = {} /\ Leaving' = {}
    BY <1>1, <1>2, <2>1 DEF Putting
  <2> QED
    BY <1>1, <1>2, <2>1, <2>2 DEF Putting, Stutters
<1>6. CASE SetInsert(Only)
  <2>1. /\ pc[Only] = "insert" /\ pc'[Only] = "link" /\ lru' = lru
        /\ cache' = [cache EXCEPT ![k] = task[Only].id] /\ task'[Only].key = k
    BY <1>0, <1>6, LoneFacts DEF SetInsert, Goto, TypeOK, Locals
  <2>2. Leaving = {} /\ ToSet(lru) \ {} = ToSet(lru)
    BY <1>1, <2>1 DEF Putting
  <2>3. Settled' = cache' /\ SettledOrder' = PutAfter(lru, ToSet(lru), k)
    BY <2>1, Views
  <2>4. Settled = cache'
    BY <1>1, <2>1, <2>2, LoneFacts DEF Putting
  <2> QED
    BY <1>1, <2>1, <2>2, <2>3, <2>4 DEF Putting, Stutters
<1>7. CASE SetLink(Only)
  <2>1. /\ pc[Only] = "link" /\ pc'[Only] = "count" /\ cache' = cache
        /\ lru' = LruPut(lru, k)
    BY <1>7, LoneFacts DEF SetLink, Goto, TypeOK
  <2>2. Settled = cache /\ SettledOrder = PutAfter(lru, ToSet(lru), k)
    BY <2>1, LoneFacts, LinkView
  <2>3. Settled' = cache' /\ SettledOrder' = Order(lru', ToSet(lru'))
    BY <2>1, Views DEF Resting
  <2>4. k \in ToSet(lru) \/ Len(lru) < Room
    BY <2>1, LoneFacts DEF LruAt
  <2>5. SettledOrder' = PutAfter(lru, ToSet(lru), k)
    BY <1>0, <2>1, <2>3, <2>4, LoneFacts, OrderPut DEF PutAfter
  <2> QED
    BY <2>1, <2>2, <2>3, <2>5 DEF Stutters
<1> QED
  BY <1>3, <1>4, <1>5, <1>6, <1>7

\* The reads of the cache, and what writes back what is there.
LEMMA ReadStutters ==
  ASSUME Lone, TypeOK',
         \/ \E k \in Keys : GetLookup(Only, k)
         \/ GetValid(Only) \/ Serve(Only) \/ UpdateTest(Only)
         \/ UpdateInsert(Only) \/ SetCount(Only)
  PROVE  Stutters
<1>1. CASE \E k \in Keys : GetLookup(Only, k)
  BY <1>1, LoneFacts, Rests DEF GetLookup, Goto, Resting, TypeOK
<1>2. CASE GetValid(Only) \/ UpdateTest(Only)
  BY <1>2, LoneFacts, Rests DEF GetValid, UpdateTest, Goto, Resting, TypeOK
<1>3. CASE Serve(Only) \/ SetCount(Only)
  BY <1>3, LoneFacts, Rests DEF Serve, SetCount, Return, Goto, Resting, TypeOK
<1>4. CASE UpdateInsert(Only)
  <2>1. /\ pc[Only] = "rewrite" /\ pc'[Only] = "idle" /\ lru' = lru
        /\ cache' = [cache EXCEPT ![task[Only].key] = task[Only].id]
    BY <1>4, LoneFacts DEF UpdateInsert, Return, Goto, TypeOK
  <2>2. task[Only].id = cache[task[Only].key]
    BY <2>1, LoneFacts DEF Lone, OperationInv
  <2>3. cache' = cache
    BY <2>1, <2>2, LoneFacts
  <2> QED
    BY <2>1, <2>3, Rests DEF Resting
<1> QED
  BY <1>1, <1>2, <1>3, <1>4

LEMMA InitOperation == Init => OperationInv
  BY DEF Init, OperationInv, Blank

LEMMA LoneInit == Init /\ Tasks = {Only} => Abstract!Init
<1> SUFFICES ASSUME Init, Tasks = {Only} PROVE Abstract!Init
  OBVIOUS
<1>1. /\ pc[Only] = "idle" /\ lru = <<>> /\ cache = [k \in Keys |-> 0]
  BY DEF Init
<1>2. Leaving = {}
  BY <1>1 DEF Leaving, In
<1>3. Settled = [k \in Keys |-> 0]
  BY <1>1, <1>2 DEF Settled, In
<1>4. SettledOrder = {}
  BY <1>1 DEF SettledOrder, In, Order
<1> QED
  BY <1>3, <1>4 DEF Abstract!Init

LEMMA LoneStep ==
  ASSUME Lone, TypeOK', [Next]_vars
  PROVE  [Abstract!Next]_(Abstract!absVars)
<1>0. Stutters => [Abstract!Next]_(Abstract!absVars)
  BY DEF Stutters, Abstract!absVars
<1>1. CASE UNCHANGED vars \/ \E i \in Ids : Expire(i)
  <2>1. UNCHANGED <<cache, lru, pc, task>>
    BY <1>1 DEF vars, Expire
  <2>2. Stutters
    BY <2>1 DEF Stutters, Settled, SettledOrder, Order, Staying, Leaving, In, Self
  <2> QED
    BY <1>0, <2>2
<1>2. ASSUME NEW k \in Keys, Invalidate(Only, k) PROVE [Abstract!Next]_(Abstract!absVars)
  <2>1. Stutters \/ Abstract!Drop({k})
    BY <1>2, RemoveRefines DEF Invalidate
  <2> QED
    BY <1>0, <2>1 DEF Abstract!Next
<1>3. CASE GetExpired(Only)
  <2>1. task[Only].key \in Keys
    BY <1>3 DEF GetExpired, Lone, IInv, LocalsInUse
  <2>2. Stutters \/ Abstract!Drop({task[Only].key})
    BY <1>3, <2>1, RemoveRefines DEF GetExpired
  <2> QED
    BY <1>0, <2>1, <2>2 DEF Abstract!Next
<1>4. ASSUME NEW g \in Tags, PurgeSnapshot(Only, g) PROVE [Abstract!Next]_(Abstract!absVars)
  BY <1>4, SnapshotRefines DEF Abstract!Next
<1>5. CASE Drop(Only)
  <2>1. pc[Only] \in Dropping
    BY <1>5 DEF Drop, Dropping, Unindex, Unlink, Uncount, PurgeNext, PurgeTag
  <2> QED
    BY <1>0, <1>5, <2>1, DropStutters
<1>6. CASE GetPromote(Only)
  BY <1>0, <1>6, PromoteRefines DEF Abstract!Next
<1>7. ASSUME NEW k \in Keys, SetTest(Only, k) PROVE [Abstract!Next]_(Abstract!absVars)
  BY <1>7, SetTestRefines DEF Abstract!Next
<1>8. CASE EvictPop(Only) \/ EvictRemove(Only) \/ SetIndex(Only) \/ SetInsert(Only)
             \/ SetLink(Only)
  BY <1>0, <1>8, PutStutters
<1>9. CASE \/ \E k \in Keys : GetLookup(Only, k)
           \/ GetValid(Only) \/ Serve(Only) \/ UpdateTest(Only)
           \/ UpdateInsert(Only) \/ SetCount(Only)
  BY <1>0, <1>9, ReadStutters
<1>10. Next => (\E i \in Ids : Expire(i)) \/ Step(Only) \/ Call(Only)
  BY DEF Lone, Next
<1> QED
  BY <1>1, <1>2, <1>3, <1>4, <1>5, <1>6, <1>7, <1>8, <1>9, <1>10
  DEF Step, Call, Get, Set

(* With one task the cache is the LRU cache of LruCache: what the task     *)
(* calls takes effect in one step, drops what is asked and nothing else,   *)
(* and evicts the least recently used response only when it must.          *)
THEOREM LoneImplementsLruCache ==
  ASSUME Tasks = {Only}
  PROVE  Spec => ImplementsLruCache
<1>1. Init => IndexInv /\ LruInv /\ OperationInv
  BY InitLru, InitOperation DEF Init, IndexInv, Cached, Blank
<1>2. IInv /\ IndexInv /\ [Next]_vars => IndexInv'
  BY StepIndexInv
<1>3. IInv /\ IInv' /\ LruInv /\ [Next]_vars => LruInv'
  BY StepLru
<1>4. IInv /\ OperationInv /\ [Next]_vars => OperationInv'
  BY StepOperation
<1>5. Init => Abstract!Init
  BY LoneInit
<1>6. IInv /\ IndexInv /\ LruInv /\ OperationInv /\ IInv' /\ [Next]_vars =>
        [Abstract!Next]_(Abstract!absVars)
  BY LoneStep DEF Lone, IInv
<1> QED
  BY <1>1, <1>2, <1>3, <1>4, <1>5, <1>6, AlwaysIInv, PTL
  DEF Spec, ImplementsLruCache, Abstract!Spec
=============================================================================
