--------------------------- MODULE ResponseCache ---------------------------
(***************************************************************************)
(* The server's response cache (server/cache/response_cache.rs).           *)
(*                                                                         *)
(* The cache is three structures, each behind a lock of its own: the       *)
(* DashMap of responses, the LRU list and the tag index.  An operation     *)
(* takes the locks one after the other and holds none in between, so the   *)
(* request tasks of the server interleave between the steps below.  One    *)
(* action is one critical section; pc[t] is the critical section the task  *)
(* t executes next, and the other fields of task[t] are the locals of the  *)
(* operation it is in.                                                     *)
(*                                                                         *)
(* A response is identified by the number of the `set` call that brought   *)
(* it, so that the render which is served can be told from an earlier or a *)
(* later one; its body, headers and etag are left out.  Every caller tags  *)
(* a response with the one path of its route (RouteCachePolicy), which is  *)
(* TagOf.  HtmlKeys are the keys of server-rendered HTML, the only ones    *)
(* whose hits are written back with a compressed variant.                  *)
(***************************************************************************)
EXTENDS Integers, Sequences, FiniteSets, SequencesExt

CONSTANTS
  Tasks,        \* the request tasks of the server
  Keys,         \* the cache keys
  HtmlKeys,     \* the keys the SSR branch of the app handler uses
  Tags,         \* the tags: the paths of the routes
  TagOf,        \* the tag that a response for a key carries
  MaxEntries,   \* CacheConfig.max_entries
  Enabled,      \* CacheConfig.enabled
  ZeroCap,      \* the LRU capacity when max_entries is 0 (1000 in the code)
  MaxSets,      \* bound on the number of `set` calls
  None          \* no key, no tag

ASSUME ConstantsAssumption ==
  /\ IsFiniteSet(Keys)
  /\ HtmlKeys \subseteq Keys
  /\ TagOf \in [Keys -> Tags]
  /\ MaxEntries \in Nat
  /\ Enabled \in BOOLEAN
  /\ ZeroCap \in Nat \ {0}
  /\ MaxSets \in Nat
  /\ None \notin Keys
  /\ None \notin Tags

VARIABLES
  cache,    \* the response stored under each key, 0 when there is none
  lru,      \* the keys of the LRU list, least recently used first
  index,    \* the keys the tag index lists for each tag
  total,    \* metrics.total_entries
  restored, \* history: update_in_place has put back, since the last count,
            \* a response whose key had just left the map
  expired,  \* the responses whose TTL has elapsed
  sets,     \* how many `set` calls have begun
  pc, task  \* where each task is, and the locals of its operation

vars == <<cache, lru, index, total, restored, expired, sets, pc, task>>

Ids == 1..MaxSets

(* A maximum of 0 entries makes an LRU list of 1000 (response_cache.rs:144). *)
LruCap == IF MaxEntries = 0 THEN ZeroCap ELSE MaxEntries

Cached == {k \in Keys : cache[k] # 0}

Blank == [key |-> None, id |-> 0, victim |-> None, tag |-> None,
          todo |-> {}, then |-> "idle"]

Init ==
  /\ cache = [k \in Keys |-> 0]
  /\ lru = <<>>
  /\ index = [g \in Tags |-> {}]
  /\ total = 0
  /\ restored = FALSE
  /\ expired = {}
  /\ sets = 0
  /\ pc = [t \in Tasks |-> "idle"]
  /\ task = [t \in Tasks |-> Blank]

Goto(t, label) == pc' = [pc EXCEPT ![t] = label]

(* The operation of t returns and its locals go out of scope. *)
Return(t) == Goto(t, "idle") /\ task' = [task EXCEPT ![t] = Blank]

-----------------------------------------------------------------------------
(* Time: the TTL of a response that some `set` has brought elapses. *)

Expire(i) ==
  /\ i <= sets
  /\ i \notin expired
  /\ expired' = expired \cup {i}
  /\ UNCHANGED <<cache, lru, index, total, restored, sets, pc, task>>

-----------------------------------------------------------------------------
(* invalidate(key), called on its own or from get and invalidate_by_tag.   *)
(* The first critical section is self.cache.remove(key), and nothing more  *)
(* is done when the key is absent: the task then goes on at `then` with    *)
(* the locals `rest`.                                                      *)

RemoveEntry(t, k, then, rest) ==
  IF cache[k] # 0
  THEN /\ cache' = [cache EXCEPT ![k] = 0]
       /\ task' = [task EXCEPT ![t] = [rest EXCEPT !.key = k, !.then = then]]
       /\ Goto(t, "unindex")
  ELSE /\ task' = [task EXCEPT ![t] = rest]
       /\ Goto(t, then)
       /\ UNCHANGED cache

Invalidate(t, k) ==
  /\ pc[t] = "idle"
  /\ RemoveEntry(t, k, "idle", Blank)
  /\ UNCHANGED <<lru, index, total, restored, expired, sets>>

(* Mutated: the whole tag entry goes, not the key in it.                   *)
UnindexAll(t) ==
  /\ pc[t] = "unindex"
  /\ index' = [index EXCEPT ![TagOf[task[t].key]] = {}]
  /\ Goto(t, "unlink")
  /\ UNCHANGED <<cache, lru, total, restored, expired, sets, task>>

Unindex(t) ==
  /\ pc[t] = "unindex"
  /\ index' = [index EXCEPT ![TagOf[task[t].key]] = @ \ {task[t].key}]
  /\ Goto(t, "unlink")
  /\ UNCHANGED <<cache, lru, total, restored, expired, sets, task>>

(* Mutated: the key stays in the LRU list.                                 *)
UnlinkNothing(t) ==
  /\ pc[t] = "unlink"
  /\ Goto(t, "uncount")
  /\ UNCHANGED <<cache, lru, index, total, restored, expired, sets, task>>

Unlink(t) ==
  /\ pc[t] = "unlink"
  /\ lru' = RemoveFirst(lru, task[t].key)
  /\ Goto(t, "uncount")
  /\ UNCHANGED <<cache, index, total, restored, expired, sets, task>>

(* Mutated: the count is decremented instead of being read off the map.    *)
UncountOne(t) ==
  /\ pc[t] = "uncount"
  /\ total' = total - 1
  /\ restored' = FALSE
  /\ task' = [task EXCEPT ![t].key = None, ![t].then = "idle"]
  /\ Goto(t, task[t].then)
  /\ UNCHANGED <<cache, lru, index, expired, sets>>

Uncount(t) ==
  /\ pc[t] = "uncount"
  /\ total' = Cardinality(Cached)
  /\ restored' = FALSE
  /\ task' = [task EXCEPT ![t].key = None, ![t].then = "idle"]
  /\ Goto(t, task[t].then)
  /\ UNCHANGED <<cache, lru, index, expired, sets>>

-----------------------------------------------------------------------------
(* invalidate_by_tag(tag): a copy of the tag's keys is invalidated key by  *)
(* key, then the tag leaves the index.                                     *)

PurgeSnapshot(t, g) ==
  /\ pc[t] = "idle"
  /\ task' = [task EXCEPT ![t].tag = g, ![t].todo = index[g]]
  /\ Goto(t, "purge")
  /\ UNCHANGED <<cache, lru, index, total, restored, expired, sets>>

(* Mutated: a key leaves the copy only if it is found in the cache.        *)
PurgeNextPresent(t) ==
  /\ pc[t] = "purge"
  /\ \E k \in task[t].todo :
       /\ cache[k] # 0
       /\ RemoveEntry(t, k, "purge", [task[t] EXCEPT !.todo = @ \ {k}])
  /\ UNCHANGED <<lru, index, total, restored, expired, sets>>

PurgeNext(t) ==
  /\ pc[t] = "purge"
  /\ \E k \in task[t].todo :
       RemoveEntry(t, k, "purge", [task[t] EXCEPT !.todo = @ \ {k}])
  /\ UNCHANGED <<lru, index, total, restored, expired, sets>>

PurgeTag(t) ==
  /\ pc[t] = "purge"
  /\ task[t].todo = {}
  /\ index' = [index EXCEPT ![task[t].tag] = {}]
  /\ Return(t)
  /\ UNCHANGED <<cache, lru, total, restored, expired, sets>>

-----------------------------------------------------------------------------
(* get(key): the entry is cloned and its guard dropped, then the clone is  *)
(* checked against the clock; a stale one is invalidated, by key.          *)

GetLookup(t, k) ==
  /\ pc[t] = "idle"
  /\ Enabled
  /\ cache[k] # 0          \* a miss changes nothing but the miss counter
  /\ task' = [task EXCEPT ![t].key = k, ![t].id = cache[k]]
  /\ Goto(t, "check")
  /\ UNCHANGED <<cache, lru, index, total, restored, expired, sets>>

GetExpired(t) ==
  /\ pc[t] = "check"
  /\ task[t].id \in expired
  /\ RemoveEntry(t, task[t].key, "idle", Blank)
  /\ UNCHANGED <<lru, index, total, restored, expired, sets>>

GetValid(t) ==
  /\ pc[t] = "check"
  /\ task[t].id \notin expired
  /\ Goto(t, "promote")
  /\ UNCHANGED <<cache, lru, index, total, restored, expired, sets, task>>

(* lru.promote(key): the key becomes the most recently used if listed.     *)
GetPromote(t) ==
  /\ pc[t] = "promote"
  /\ lru' = IF Contains(lru, task[t].key)
            THEN Append(RemoveFirst(lru, task[t].key), task[t].key)
            ELSE lru
  /\ Goto(t, "hit")
  /\ UNCHANGED <<cache, index, total, restored, expired, sets, task>>

(* The caller has its hit, and leaves the cache alone ...                  *)
Serve(t) ==
  /\ pc[t] = "hit"
  /\ Return(t)
  /\ UNCHANGED <<cache, lru, index, total, restored, expired, sets>>

(* ... or has compressed the body and calls update_in_place(key, clone):   *)
(* the presence of the key is tested in one critical section,              *)
UpdateTest(t) ==
  /\ pc[t] = "hit"
  /\ task[t].key \in HtmlKeys
  /\ cache[task[t].key] # 0
  /\ Goto(t, "rewrite")
  /\ UNCHANGED <<cache, lru, index, total, restored, expired, sets, task>>

(* and the clone is inserted in the next.                                  *)
UpdateInsert(t) ==
  /\ pc[t] = "rewrite"
  /\ cache' = [cache EXCEPT ![task[t].key] = task[t].id]
  /\ restored' = (restored \/ cache[task[t].key] = 0)
  /\ Return(t)
  /\ UNCHANGED <<lru, index, total, expired, sets>>

-----------------------------------------------------------------------------
(* set(key, response).                                                     *)

(* should_evict is decided under the LRU lock, which is then released.     *)
SetTest(t, k) ==
  /\ pc[t] = "idle"
  /\ Enabled
  /\ sets < MaxSets
  /\ sets' = sets + 1
  /\ task' = [task EXCEPT ![t].key = k, ![t].id = sets + 1]
  /\ IF Len(lru) >= MaxEntries /\ cache[k] = 0
     THEN Goto(t, "evict")
     ELSE Goto(t, "index")
  /\ UNCHANGED <<cache, lru, index, total, restored, expired>>

(* Mutated: the most recently used key is popped.                          *)
EvictPopNewest(t) ==
  /\ pc[t] = "evict"
  /\ IF lru = <<>>
     THEN Goto(t, "index") /\ UNCHANGED <<lru, task>>
     ELSE /\ lru' = Front(lru)
          /\ task' = [task EXCEPT ![t].victim = Last(lru)]
          /\ Goto(t, "evicted")
  /\ UNCHANGED <<cache, index, total, restored, expired, sets>>

EvictPop(t) ==
  /\ pc[t] = "evict"
  /\ IF lru = <<>>
     THEN Goto(t, "index") /\ UNCHANGED <<lru, task>>
     ELSE /\ lru' = Tail(lru)
          /\ task' = [task EXCEPT ![t].victim = Head(lru)]
          /\ Goto(t, "evicted")
  /\ UNCHANGED <<cache, index, total, restored, expired, sets>>

(* The victim leaves the map; the tag index keeps its key.                 *)
EvictRemove(t) ==
  /\ pc[t] = "evicted"
  /\ cache' = [cache EXCEPT ![task[t].victim] = 0]
  /\ task' = [task EXCEPT ![t].victim = None]
  /\ Goto(t, "index")
  /\ UNCHANGED <<lru, index, total, restored, expired, sets>>

SetIndex(t) ==
  /\ pc[t] = "index"
  /\ index' = [index EXCEPT ![TagOf[task[t].key]] = @ \cup {task[t].key}]
  /\ Goto(t, "insert")
  /\ UNCHANGED <<cache, lru, total, restored, expired, sets, task>>

SetInsert(t) ==
  /\ pc[t] = "insert"
  /\ cache' = [cache EXCEPT ![task[t].key] = task[t].id]
  /\ task' = [task EXCEPT ![t].id = 0]
  /\ Goto(t, "link")
  /\ UNCHANGED <<lru, index, total, restored, expired, sets>>

(* lru.put(key): a full list drops its least recently used key, unseen.    *)
LruPut(s, k) ==
  IF Contains(s, k) THEN Append(RemoveFirst(s, k), k)
  ELSE IF Len(s) >= LruCap THEN Append(Tail(s), k)
  ELSE Append(s, k)

SetLink(t) ==
  /\ pc[t] = "link"
  /\ lru' = LruPut(lru, task[t].key)
  /\ Goto(t, "count")
  /\ UNCHANGED <<cache, index, total, restored, expired, sets, task>>

SetCount(t) ==
  /\ pc[t] = "count"
  /\ total' = Cardinality(Cached)
  /\ restored' = FALSE
  /\ Return(t)
  /\ UNCHANGED <<cache, lru, index, expired, sets>>

-----------------------------------------------------------------------------

Get(t) == \/ GetExpired(t) \/ GetValid(t) \/ GetPromote(t) \/ Serve(t)
          \/ UpdateTest(t) \/ UpdateInsert(t)

Set(t) == \/ EvictPop(t) \/ EvictRemove(t) \/ SetIndex(t) \/ SetInsert(t)
          \/ SetLink(t) \/ SetCount(t)

Drop(t) == Unindex(t) \/ Unlink(t) \/ Uncount(t) \/ PurgeNext(t) \/ PurgeTag(t)

(* A task that is in an operation takes its next step.                     *)
Step(t) == Get(t) \/ Set(t) \/ Drop(t)

(* An idle task is called.                                                 *)
Call(t) ==
  \/ \E k \in Keys : GetLookup(t, k) \/ SetTest(t, k) \/ Invalidate(t, k)
  \/ \E g \in Tags : PurgeSnapshot(t, g)

Next == (\E i \in Ids : Expire(i)) \/ (\E t \in Tasks : Step(t) \/ Call(t))

Spec == Init /\ [][Next]_vars

(* A task that runs is polled by the tokio scheduler until it returns; no  *)
(* critical section waits for anything but a lock held for a moment.       *)
FairSpec == Spec /\ \A t \in Tasks : WF_vars(Step(t))

-----------------------------------------------------------------------------
(* Properties.                                                             *)

Labels == {"idle", "check", "promote", "hit", "rewrite",
           "evict", "evicted", "index", "insert", "link", "count",
           "unindex", "unlink", "uncount", "purge"}

Locals == [key : Keys \cup {None}, id : Ids \cup {0},
           victim : Keys \cup {None}, tag : Tags \cup {None},
           todo : SUBSET Keys, then : {"idle", "purge"}]

(* The types of the variables.                                             *)
TypeOK ==
  /\ cache \in [Keys -> Ids \cup {0}]
  /\ lru \in Seq(Keys)
  /\ index \in [Tags -> SUBSET Keys]
  /\ total \in Nat
  /\ restored \in BOOLEAN
  /\ expired \subseteq Ids
  /\ sets \in 0..MaxSets
  /\ pc \in [Tasks -> Labels]
  /\ task \in [Tasks -> Locals]

Quiet == \A t \in Tasks : pc[t] = "idle"

(* Between operations every stored response is listed under its tag, so an *)
(* invalidate_by_tag reaches all of them (test_cache_tag_invalidation).    *)
IndexCoversCache ==
  Quiet => \A k \in Cached : k \in index[TagOf[k]]

(* Between operations the LRU list names exactly the stored responses, so  *)
(* every one can be evicted, and there are no more than max_entries of     *)
(* them, or one when max_entries is 0 (test_cache_lru_eviction).           *)
LruMatchesCache ==
  Quiet => /\ ToSet(lru) = Cached
           /\ Cardinality(Cached) <= IF MaxEntries = 0 THEN 1 ELSE MaxEntries

(* Between operations metrics.total_entries is the size of the map, in     *)
(* whatever order the operations took the metrics lock, unless the hit of  *)
(* an HTML key was written back after its key had left the map: then the   *)
(* map has grown uncounted, until the next operation that counts.          *)
CountMatches == Quiet /\ ~restored => total = Cardinality(Cached)

(* The tasks whose `set` has yet to insert its response, and the responses *)
(* that have been stored: brought by a `set` that is past its insertion.   *)
Setting == {t \in Tasks : pc[t] \in {"evict", "evicted", "index", "insert"}}

Stored == (1..sets) \ {task[t].id : t \in Setting}

(* Every operation returns: the loop of invalidate_by_tag ends whatever    *)
(* other tasks put under the keys of its copy.                             *)
OperationsReturn == \A t \in Tasks : pc[t] # "idle" ~> pc[t] = "idle"

-----------------------------------------------------------------------------
(* The parts of the inductive invariants of the proofs.                    *)

(* What the locals of an operation hold at its labels.                     *)
LocalsInUse ==
  \A t \in Tasks :
    /\ pc[t] \notin {"idle", "purge"} => task[t].key \in Keys
    /\ pc[t] = "evicted" => task[t].victim \in Keys
    /\ pc[t] = "rewrite" => task[t].key \in HtmlKeys
    /\ pc[t] = "purge" \/ task[t].then = "purge" => task[t].tag \in Tags
    /\ task[t].then = "purge" => pc[t] \in {"unindex", "unlink", "uncount"}
    /\ pc[t] \in {"check", "promote", "hit", "rewrite"} => task[t].id \in Stored

(* A `set` brings a response of its own, stored by nobody else.            *)
ResponsesDistinct ==
  /\ \A t \in Setting : task[t].id \in 1..sets
  /\ \A t, u \in Setting : t # u => task[t].id # task[u].id
  /\ \A k \in Cached : cache[k] \in Stored

IInv == TypeOK /\ LocalsInUse /\ ResponsesDistinct
=============================================================================
