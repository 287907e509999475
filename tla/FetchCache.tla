----------------------------- MODULE FetchCache -----------------------------
(***************************************************************************)
(* fetch() of the JavaScript runtime (runtime/ext/web/init_fetch.js,       *)
(* op_fetch_with_cache in runtime/ops.rs, RequestContext::fetch_with_cache *)
(* in server/middleware/request_context.rs).                               *)
(*                                                                         *)
(* A fetch meets two layers.  In the isolate requestDedupeMap joins the    *)
(* fetches of one deduplication key (URL, headers and tags) to the one     *)
(* that is under way.  In Rust an LRU cache with a TTL, and an in-flight   *)
(* table with one mutex per cache key (URL and headers), outlive the       *)
(* isolate.  Everything runs on the one JavaScript thread, so what lies    *)
(* between two awaits is one action, and the reactions to a promise run in *)
(* the order of the microtask queue `jobs`.                                *)
(*                                                                         *)
(* A call is one call of fetch; an entry of the in-flight table is named   *)
(* by the call that made it.  A response is the time it was fetched: one   *)
(* with an error status is stored and served like any other.               *)
(***************************************************************************)
EXTENDS Integers, Sequences, SequencesExt

CONSTANTS
  Calls,        \* the calls of fetch
  JsKeys,       \* the keys of requestDedupeMap
  Urls,         \* the keys of the Rust cache
  UrlOf,        \* the cache key of a deduplication key: it leaves the tags out
  Revalidates,  \* the values of revalidate; None when it is not given
  DefaultTtl,   \* the TTL when it is not given (60 s in the code)
  Contexts,     \* whether a request context may be set: a subset of BOOLEAN
  MaxEntries,   \* MAX_CACHE_ENTRIES
  MaxTime,      \* bound on the clock
  None, Failed  \* nothing; an error in place of a response

Responses == 0..MaxTime

ASSUME FetchAssumption ==
  /\ UrlOf \in [JsKeys -> Urls]
  /\ MaxEntries \in Nat \ {0}
  /\ MaxTime \in Nat
  /\ DefaultTtl \in Nat
  /\ Revalidates \subseteq Nat \cup {None}
  /\ Contexts \subseteq BOOLEAN
  /\ None \notin Calls /\ None \notin Nat
  /\ None # Failed /\ Failed \notin Nat

VARIABLES
  now,        \* the clock
  dedupe,     \* requestDedupeMap: the call whose promise is under way
  jobs,       \* the microtask queue
  stored,     \* GLOBAL_FETCH_CACHE: the response stored under each key
  order,      \* its keys, least recently used first
  inFlight,   \* GLOBAL_IN_FLIGHT_FETCHES: the entry of each cache key
  holder,     \* the call that holds the mutex of an entry
  result,     \* what the mutex of an entry guards
  consumed,   \* the calls whose caller has read the body of its response
  pc, call    \* where each call is; its arguments, place and answer

rust == <<stored, order, inFlight, holder, result>>
vars == <<now, dedupe, jobs, stored, order, inFlight, holder, result, consumed,
          pc, call>>

Blank == [key |-> None, revalidate |-> None, at |-> 0, followers |-> <<>>,
          entry |-> None, answer |-> None]

Init ==
  /\ now = 0
  /\ dedupe = [k \in JsKeys |-> None]
  /\ jobs = <<>>
  /\ stored = [u \in Urls |-> None]
  /\ order = <<>>
  /\ inFlight = [u \in Urls |-> None]
  /\ holder = [e \in Calls |-> None]
  /\ result = [e \in Calls |-> None]
  /\ consumed = {}
  /\ pc = [c \in Calls |-> "idle"]
  /\ call = [c \in Calls |-> Blank]

Url(c) == UrlOf[call[c].key]

Ttl(c) == IF call[c].revalidate = None THEN DefaultTtl ELSE call[c].revalidate

Goto(c, label) == pc' = [pc EXCEPT ![c] = label]

-----------------------------------------------------------------------------
(* The isolate: microtasks and requestDedupeMap.                           *)

(* What the call c does with the promise that the call `leader` made.      *)
Job(c, kind, leader) == [call |-> c, kind |-> kind, leader |-> leader]

(* Mutated: a rejection reaches the leader alone.                          *)
ReactionsIfOk(c, outcome) ==
  <<Job(c, "deliver", c)>>
    \o IF outcome = Failed THEN <<>>
       ELSE [i \in DOMAIN call[c].followers |-> Job(call[c].followers[i], "clone", c)]

(* Mutated: the leader's caller comes before the followers.                *)
ReactionsReadFirst(c, outcome) ==
  <<Job(c, "deliver", c), Job(c, "read", c)>>
    \o [i \in DOMAIN call[c].followers |-> Job(call[c].followers[i], "clone", c)]

(* The reactions to the promise of c: the leader awaits it first.          *)
Reactions(c, outcome) ==
  <<Job(c, "deliver", c)>>
    \o [i \in DOMAIN call[c].followers |-> Job(call[c].followers[i], "clone", c)]

(* The promise in requestDedupeMap is settled with a response or Failed.   *)
Resolve(c, outcome) ==
  /\ Goto(c, "resolved")
  /\ call' = [call EXCEPT ![c].answer = outcome]
  /\ jobs' = jobs \o Reactions(c, outcome)

(* fetch with revalidate: 0 (or no-store, or another method than GET) is   *)
(* the fetch of Deno, with none of this.                                   *)
CallUncached(c, k) ==
  /\ pc[c] = "idle"
  /\ 0 \in Revalidates
  /\ call' = [call EXCEPT ![c].key = k, ![c].revalidate = 0, ![c].at = now]
  /\ Goto(c, "direct")
  /\ UNCHANGED <<now, dedupe, jobs, consumed, rust>>

(* The first call of a key calls the op ...                                *)
CallLeading(c, k, r) ==
  /\ pc[c] = "idle"
  /\ dedupe[k] = None
  /\ dedupe' = [dedupe EXCEPT ![k] = c]
  /\ call' = [call EXCEPT ![c].key = k, ![c].revalidate = r, ![c].at = now]
  /\ Goto(c, "op")
  /\ UNCHANGED <<now, jobs, consumed, rust>>

(* ... and a call that finds its promise awaits it, after those before.    *)
CallFollowing(c, k, r) ==
  /\ pc[c] = "idle"
  /\ dedupe[k] # None
  /\ LET leader == dedupe[k] IN
       /\ call' = [call EXCEPT ![c].key = k, ![c].revalidate = r, ![c].at = now,
                               ![leader].followers = Append(@, c)]
       /\ jobs' = IF pc[leader] \in {"resolved", "settled"}
                  THEN Append(jobs, Job(c, "clone", leader)) ELSE jobs
  /\ Goto(c, "following")
  /\ UNCHANGED <<now, dedupe, consumed, rust>>

(* Mutated: no finally, the promise stays in the map.                      *)
DeliverKeeping(c) ==
  /\ jobs' = Append(Tail(jobs), Job(c, "read", c))
  /\ Goto(c, "settled")
  /\ UNCHANGED <<dedupe, consumed, call>>

(* The leader goes on: finally, the promise leaves the map, and the caller *)
(* is next to run.                                                         *)
Deliver(c) ==
  /\ dedupe' = [dedupe EXCEPT ![call[c].key] = None]
  /\ jobs' = Append(Tail(jobs), Job(c, "read", c))
  /\ Goto(c, "settled")
  /\ UNCHANGED <<consumed, call>>

(* A follower goes on: it clones the leader's response.                    *)
Clone(c, leader) ==
  /\ jobs' = Tail(jobs)
  /\ call' = [call EXCEPT ![c].answer = call[leader].answer]
  /\ Goto(c, "settled")
  /\ UNCHANGED <<dedupe, consumed>>

(* The leader's caller reads the body.                                     *)
Read(c) ==
  /\ jobs' = Tail(jobs)
  /\ consumed' = consumed \cup {c}
  /\ UNCHANGED <<dedupe, pc, call>>

RunJob ==
  /\ jobs # <<>>
  /\ LET job == Head(jobs) IN
       \/ job.kind = "deliver" /\ Deliver(job.call)
       \/ job.kind = "clone" /\ Clone(job.call, job.leader)
       \/ job.kind = "read" /\ Read(job.call)
  /\ UNCHANGED <<now, rust>>

-----------------------------------------------------------------------------
(* op_fetch_with_cache and RequestContext::fetch_with_cache.               *)

(* Mutated: the list grows past its capacity.                              *)
PutUnbounded(u, response) ==
  /\ order' = Append(RemoveFirst(order, u), u)
  /\ stored' = [stored EXCEPT ![u] = response]

(* cache.put: the key becomes the most recently used; a full list drops    *)
(* its least recently used one.                                            *)
Put(u, response) ==
  LET others == RemoveFirst(order, u)
      full == Len(others) = MaxEntries
  IN /\ order' = Append(IF full THEN Tail(others) ELSE others, u)
     /\ stored' = [v \in Urls |-> IF v = u THEN response
                                  ELSE IF full /\ v = Head(others) THEN None
                                  ELSE stored[v]]

(* cache.get of a response that is younger than the TTL of the call.       *)
Hits(c) == stored[Url(c)] # None /\ now - stored[Url(c)] < Ttl(c)

(* A hit that is younger than the TTL of this call answers it.             *)
LookupHit(c) ==
  /\ pc[c] = "op"
  /\ TRUE \in Contexts
  /\ Hits(c)
  /\ Put(Url(c), stored[Url(c)])
  /\ Resolve(c, stored[Url(c)])
  /\ UNCHANGED <<now, dedupe, consumed, inFlight, holder, result>>

(* Mutated: each call makes an entry of its own.                           *)
LookupMissAlone(c) ==
  /\ pc[c] = "op"
  /\ TRUE \in Contexts
  /\ ~Hits(c)
  /\ stored' = [stored EXCEPT ![Url(c)] = None]
  /\ order' = RemoveFirst(order, Url(c))
  /\ inFlight' = [inFlight EXCEPT ![Url(c)] = c]
  /\ call' = [call EXCEPT ![c].entry = c]
  /\ Goto(c, "queued")
  /\ UNCHANGED <<now, dedupe, jobs, consumed, holder, result>>

(* Otherwise the stale entry is dropped, and the call shares or makes the  *)
(* in-flight entry of its key.                                             *)
LookupMiss(c) ==
  /\ pc[c] = "op"
  /\ TRUE \in Contexts
  /\ ~Hits(c)
  /\ stored' = [stored EXCEPT ![Url(c)] = None]
  /\ order' = RemoveFirst(order, Url(c))
  /\ LET entry == IF inFlight[Url(c)] = None THEN c ELSE inFlight[Url(c)] IN
       /\ inFlight' = [inFlight EXCEPT ![Url(c)] = entry]
       /\ call' = [call EXCEPT ![c].entry = entry]
  /\ Goto(c, "queued")
  /\ UNCHANGED <<now, dedupe, jobs, consumed, holder, result>>

(* With no request context in the op state nothing is shared or cached.    *)
LookupNoContext(c) ==
  /\ pc[c] = "op"
  /\ FALSE \in Contexts
  /\ Goto(c, "simple")
  /\ UNCHANGED <<now, dedupe, jobs, consumed, call, rust>>

(* The mutex of the entry is free.  The first to take it fetches; the ones *)
(* after it find the result: a response, which they store again, or an     *)
(* error, after which the isolate falls back to the fetch of Deno.         *)
AcquireFirst(c) ==
  /\ pc[c] = "queued"
  /\ LET e == call[c].entry IN
       /\ holder[e] = None
       /\ result[e] = None
       /\ holder' = [holder EXCEPT ![e] = c]
  /\ Goto(c, "fetching")
  /\ UNCHANGED <<now, dedupe, jobs, consumed, call, stored, order, inFlight, result>>

AcquireAfter(c) ==
  /\ pc[c] = "queued"
  /\ LET e == call[c].entry IN
       /\ holder[e] = None
       /\ result[e] \in Responses
       /\ Put(Url(c), result[e])
       /\ Resolve(c, result[e])
  /\ UNCHANGED <<now, dedupe, consumed, inFlight, holder, result>>

AcquireAfterError(c) ==
  /\ pc[c] = "queued"
  /\ holder[call[c].entry] = None
  /\ result[call[c].entry] = Failed
  /\ Goto(c, "direct")
  /\ UNCHANGED <<now, dedupe, jobs, consumed, call, rust>>

(* perform_fetch returns: the result is left in the entry for those that   *)
(* wait, the entry leaves the table and the mutex is released.             *)
Finish(c, outcome) ==
  /\ result' = [result EXCEPT ![call[c].entry] = outcome]
  /\ holder' = [holder EXCEPT ![call[c].entry] = None]
  /\ inFlight' = [inFlight EXCEPT ![Url(c)] = None]

(* A response of whatever status is stored.                                *)
FetchAnswered(c) ==
  /\ pc[c] = "fetching"
  /\ Finish(c, now)
  /\ Put(Url(c), now)
  /\ Resolve(c, now)
  /\ UNCHANGED <<now, dedupe, consumed>>

(* The request fails, or has reached its timeout.                          *)
FetchFailed(c) ==
  /\ pc[c] = "fetching"
  /\ Finish(c, Failed)
  /\ Goto(c, "direct")
  /\ UNCHANGED <<now, dedupe, jobs, consumed, call, stored, order>>

(* perform_simple_fetch: another status than 2xx is an error here.         *)
SimpleAnswered(c) ==
  /\ pc[c] = "simple"
  /\ Resolve(c, now)
  /\ UNCHANGED <<now, dedupe, consumed, rust>>

SimpleFailed(c) ==
  /\ pc[c] = "simple"
  /\ Goto(c, "direct")
  /\ UNCHANGED <<now, dedupe, jobs, consumed, call, rust>>

(* originalFetch answers or fails.  It has no timeout of its own.  The     *)
(* promise of an uncached fetch is in no map and has no reactions here.    *)
DirectSettled(c, outcome) ==
  /\ pc[c] = "direct"
  /\ IF call[c].revalidate = 0
     THEN /\ Goto(c, "settled")
          /\ call' = [call EXCEPT ![c].answer = outcome]
          /\ UNCHANGED jobs
     ELSE Resolve(c, outcome)
  /\ UNCHANGED <<now, dedupe, consumed, rust>>

-----------------------------------------------------------------------------
(* A unit of time is far longer than the thread takes for what it can run: *)
(* microtasks, ops that were called, waiters whose mutex is free.          *)

Busy ==
  \/ jobs # <<>>
  \/ \E c \in Calls :
       pc[c] = "op" \/ (pc[c] = "queued" /\ holder[call[c].entry] = None)

Tick ==
  /\ now < MaxTime
  /\ ~Busy
  /\ now' = now + 1
  /\ UNCHANGED <<dedupe, jobs, consumed, pc, call, rust>>

(* The isolate is dropped with the fetches in it, and built again.  The    *)
(* cleanup guard of a call that was fetching takes its entry out of the    *)
(* in-flight table.                                                        *)
Restart ==
  /\ pc' = [c \in Calls |->
              IF pc[c] \in {"idle", "settled"} THEN pc[c] ELSE "dead"]
  /\ dedupe' = [k \in JsKeys |-> None]
  /\ jobs' = <<>>
  /\ inFlight' = [u \in Urls |->
       IF \E c \in Calls : pc[c] = "fetching" /\ Url(c) = u
       THEN None ELSE inFlight[u]]
  /\ holder' = [e \in Calls |-> None]
  /\ UNCHANGED <<now, consumed, call, stored, order, result>>

-----------------------------------------------------------------------------

Call(c) ==
  \E k \in JsKeys :
    \/ CallUncached(c, k)
    \/ \E r \in Revalidates \ {0} : CallLeading(c, k, r) \/ CallFollowing(c, k, r)

(* What the thread does for a call by itself, and the timeout of reqwest.  *)
Progress(c) ==
  \/ LookupHit(c) \/ LookupMiss(c) \/ LookupNoContext(c)
  \/ AcquireFirst(c) \/ AcquireAfter(c) \/ AcquireAfterError(c)
  \/ FetchFailed(c) \/ SimpleFailed(c)

(* What the network decides.                                               *)
Answered(c) == FetchAnswered(c) \/ SimpleAnswered(c)

Direct(c) ==
  \E outcome \in {now, Failed} : DirectSettled(c, outcome)

Next ==
  \/ \E c \in Calls : Call(c) \/ Progress(c) \/ Answered(c) \/ Direct(c)
  \/ RunJob \/ Tick \/ Restart

Spec == Init /\ [][Next]_vars

(* The thread runs its jobs and polls its ops, and the timer of a request  *)
(* with a timeout fires.  A server need never answer.                      *)
FairSpec == Spec /\ WF_vars(RunJob) /\ \A c \in Calls : WF_vars(Progress(c))

(* A server that answers, or drops the connection, in the end.             *)
AnsweringSpec == FairSpec /\ \A c \in Calls : WF_vars(Direct(c))

-----------------------------------------------------------------------------
(* Properties.                                                             *)

Labels == {"idle", "op", "queued", "fetching", "simple", "direct", "following",
           "resolved", "settled", "dead"}

Jobs == [call : Calls, kind : {"deliver", "clone", "read"}, leader : Calls]

CallRecords ==
  [key : JsKeys \cup {None}, revalidate : Revalidates \cup {None},
   at : 0..MaxTime, followers : Seq(Calls), entry : Calls \cup {None},
   answer : Responses \cup {None, Failed}]

TypeOK ==
  /\ now \in 0..MaxTime
  /\ dedupe \in [JsKeys -> Calls \cup {None}]
  /\ jobs \in Seq(Jobs)
  /\ stored \in [Urls -> Responses \cup {None}]
  /\ order \in Seq(Urls) /\ Len(order) <= MaxEntries
  /\ inFlight \in [Urls -> Calls \cup {None}]
  /\ holder \in [Calls -> Calls \cup {None}]
  /\ result \in [Calls -> Responses \cup {None, Failed}]
  /\ consumed \subseteq Calls
  /\ pc \in [Calls -> Labels]
  /\ call \in [Calls -> CallRecords]

(* Through restarts, failures and late waiters, at most one request of the *)
(* Rust cache is on the network for each cache key (fetch.mdx: only one    *)
(* network request is made).                                               *)
OneFetchPerKey ==
  \A c, d \in Calls :
    pc[c] = "fetching" /\ pc[d] = "fetching" /\ Url(c) = Url(d) => c = d

(* A follower clones the response before the leader's caller reads it: the *)
(* clone of a body that was read is a TypeError.                           *)
CloneBeforeRead ==
  \A i \in DOMAIN jobs :
    jobs[i].kind = "clone" => jobs[i].leader \notin consumed

(* The call whose promise c awaits, which is another's if c joined it.     *)
Awaited(c) == {c} \cup {d \in Calls : c \in ToSet(call[d].followers)}

(* A response of the time t was, when c was made, of less than the TTL     *)
(* that the call d asks for.                                               *)
Fresh(c, d, t) == t >= call[c].at \/ call[c].at - t < Ttl(d)

(* The answer of a fetch is no older, when the fetch is made, than the TTL *)
(* asked for by the call whose promise it awaits: its own, or that of the  *)
(* call it joined.  The TTL is no part of a deduplication key, so it may   *)
(* be older than its own, and no other path may let an old response        *)
(* through: not a hit, a late waiter, a failure or a restart.              *)
FreshAnswers ==
  \A c \in Calls :
    pc[c] = "settled" /\ call[c].answer \in Responses
      => \E d \in Awaited(c) : Fresh(c, d, call[c].answer)

(* A fetch is answered, or dies with its isolate, if servers answer.  If   *)
(* they never do it may not be, whatever timeout rari.timeout sets.        *)
FetchSettlesIfAnswered ==
  \A c \in Calls : pc[c] # "idle" ~> pc[c] \in {"settled", "dead"}

-----------------------------------------------------------------------------
(* The inductive invariant of the proofs.                                  *)

(* An entry is shared by the calls of one cache key; it is in the table    *)
(* from its making until its result is there; and whoever fetches holds    *)
(* its mutex.                                                              *)
EntriesShared ==
  /\ \A u \in Urls : inFlight[u] # None =>
       /\ call[inFlight[u]].entry = inFlight[u]
       /\ Url(inFlight[u]) = u
       /\ result[inFlight[u]] = None
  /\ \A c \in Calls :
       /\ pc[c] \in {"queued", "fetching"} => call[c].entry # None
       /\ pc[c] \in {"queued", "fetching"} /\ result[call[c].entry] = None
            => inFlight[Url(c)] = call[c].entry
       /\ pc[c] = "fetching" =>
            holder[call[c].entry] = c /\ result[call[c].entry] = None

(* What a call has not reached yet is blank, and what it has is not.       *)
CallsInOrder ==
  \A c \in Calls :
    /\ pc[c] \in {"op", "queued", "fetching"} => call[c].key \in JsKeys
    /\ pc[c] \in {"idle", "op"} => call[c].entry = None
    /\ call[c].entry = None => result[c] = None

IInv == TypeOK /\ EntriesShared /\ CallsInOrder

Leading == {"op", "queued", "fetching", "simple", "direct", "resolved"}

(* A call that joined the promise of another has none that joined it.      *)
Follows(c) ==
  /\ pc[c] \in {"following", "settled", "dead"}
  /\ call[c].followers = <<>>
  /\ call[c].revalidate # 0

(* A call leads or follows, and what is in the map has not been delivered. *)
LeadersLead ==
  /\ \A k \in JsKeys : dedupe[k] # None =>
       /\ call[dedupe[k]].key = k
       /\ pc[dedupe[k]] \in Leading
       /\ call[dedupe[k]].revalidate # 0
  /\ \A c \in Calls :
       /\ pc[c] = "idle" => call[c].followers = <<>>
       /\ pc[c] # "idle" => call[c].revalidate \in Revalidates
       /\ pc[c] \in Leading \ {"direct"} => call[c].revalidate # 0
       /\ \A i \in DOMAIN call[c].followers : Follows(call[c].followers[i])

(* The clones of a response stand before the read of it, and the thread is *)
(* not idle between the answer and its delivery.                           *)
JobsInOrder ==
  /\ \A i \in DOMAIN jobs :
       /\ jobs[i].kind = "deliver" => pc[jobs[i].call] \in {"resolved", "settled"}
       /\ jobs[i].kind = "read" => pc[jobs[i].call] = "settled"
       /\ jobs[i].kind = "clone" =>
            /\ Follows(jobs[i].call)
            /\ call[jobs[i].leader].followers # <<>>
            /\ pc[jobs[i].leader] \in {"resolved", "settled"}
            /\ jobs[i].leader \notin consumed
            /\ \A j \in DOMAIN jobs :
                 j < i /\ jobs[j].kind = "read" => jobs[j].call # jobs[i].leader
  /\ \A c \in consumed : pc[c] = "settled"
  /\ \A c \in Calls : pc[c] = "resolved" =>
       \E i \in DOMAIN jobs : jobs[i].kind = "deliver" /\ jobs[i].call = c

JInv == IInv /\ LeadersLead /\ JobsInOrder

(* A result that waits to be taken is of this instant.                     *)
EntriesRecent ==
  \A c \in Calls :
    /\ holder[c] # None => result[c] = None
    /\ pc[c] = "queued" /\ result[call[c].entry] \in Responses
         => result[call[c].entry] = now

(* A clone that waits its turn is of a promise its call awaits, and fresh. *)
CloneRecent(i) ==
  /\ jobs[i].leader \in Awaited(jobs[i].call)
  /\ call[jobs[i].leader].answer \in Responses =>
       Fresh(jobs[i].call, jobs[i].leader, call[jobs[i].leader].answer)

(* An answer that waits to be delivered is of less than a TTL ago.         *)
AnswersRecent ==
  /\ \A c \in Calls :
       /\ call[c].at <= now
       /\ pc[c] = "resolved" /\ call[c].answer \in Responses
            => call[c].answer = now \/ now - call[c].answer < Ttl(c)
  /\ \A i \in DOMAIN jobs : jobs[i].kind = "clone" => CloneRecent(i)

TInv == JInv /\ EntriesRecent /\ AnswersRecent /\ FreshAnswers
=============================================================================
