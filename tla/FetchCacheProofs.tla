-------------------------- MODULE FetchCacheProofs --------------------------
(***************************************************************************)
(* Theorems about FetchCache, for every set of calls and of keys.          *)
(***************************************************************************)
EXTENDS FetchCache, SequenceTheorems, WellFoundedInduction, TLAPS

-----------------------------------------------------------------------------
(* Lemmas about sequences: the LRU list, and what is sent in turn.         *)

(* A set of naturals that is not empty has a least element.                *)
LEMMA MinType ==
  ASSUME NEW I, I \subseteq Nat, I # {}
  PROVE  Min(I) \in I
<1>1. PICK x \in I : \A y \in I : ~ (<<y, x>> \in OpToRel(<, Nat))
  BY NatLessThanWellFounded, WFMin
<1>2. \A y \in I : ~ (y < x)
  BY <1>1 DEF OpToRel
<1>3. \A y \in I : x <= y
  BY <1>2
<1> QED
  BY <1>3 DEF Min

(* Leaving one element out of a sequence.                                  *)
LEMMA RemoveAtType ==
  ASSUME NEW S, NEW s \in Seq(S), NEW p \in 1..Len(s)
  PROVE  RemoveAt(s, p) \in Seq(S) /\ Len(RemoveAt(s, p)) = Len(s) - 1
<1> DEFINE before == SubSeq(s, 1, p - 1)
           after == SubSeq(s, p + 1, Len(s))
<1>1. before \in Seq(S) /\ Len(before) = p - 1
  BY SubSeqProperties, ElementOfSeq
<1>2. after \in Seq(S) /\ Len(after) = Len(s) - p
  BY SubSeqProperties, ElementOfSeq
<1>3. RemoveAt(s, p) = before \o after
  BY DEF RemoveAt
<1>4. Len(s) \in Nat /\ p \in Nat
  OBVIOUS
<1> HIDE DEF before, after
<1>5. before \o after \in Seq(S) /\ Len(before \o after) = Len(before) + Len(after)
  BY <1>1, <1>2, ConcatProperties
<1> QED
  BY <1>1, <1>2, <1>3, <1>4, <1>5

(* Popping a key from an LRU list leaves a sequence of keys, no longer.    *)
LEMMA RemoveFirstType ==
  ASSUME NEW S, NEW s \in Seq(S), NEW e
  PROVE  RemoveFirst(s, e) \in Seq(S) /\ Len(RemoveFirst(s, e)) <= Len(s)
<1>1. CASE \E i \in 1..Len(s) : s[i] = e
  <2> DEFINE I == {i \in 1..Len(s) : s[i] = e}
  <2>1. I # {} /\ I \subseteq Nat
    BY <1>1
  <2>2. Min(I) \in 1..Len(s)
    BY <2>1, MinType
  <2>3. SelectInSeq(s, LAMBDA v : v = e) = Min(I)
    BY <2>1 DEF SelectInSeq
  <2>4. /\ RemoveAt(s, Min(I)) \in Seq(S)
        /\ Len(RemoveAt(s, Min(I))) = Len(s) - 1
    BY <2>2, RemoveAtType
  <2>5. RemoveFirst(s, e) = RemoveAt(s, Min(I))
    BY <1>1, <2>3 DEF RemoveFirst
  <2>6. Len(s) \in Nat
    OBVIOUS
  <2> HIDE DEF I
  <2> QED
    BY <2>4, <2>5, <2>6
<1> QED
  BY <1>1 DEF RemoveFirst

(* The elements of a concatenation.                                        *)
LEMMA ConcatAt ==
  ASSUME NEW S, NEW s \in Seq(S), NEW t \in Seq(S)
  PROVE  /\ s \o t \in Seq(S)
         /\ Len(s) \in Nat /\ Len(t) \in Nat
         /\ Len(s \o t) = Len(s) + Len(t)
         /\ DOMAIN (s \o t) = 1..(Len(s) + Len(t))
         /\ \A i \in 1..Len(s) : (s \o t)[i] = s[i]
         /\ \A i \in 1..Len(t) : (s \o t)[Len(s) + i] = t[i]
<1>1. /\ s \o t \in Seq(S) /\ Len(s) \in Nat /\ Len(t) \in Nat
      /\ Len(s \o t) = Len(s) + Len(t)
  BY ConcatProperties
<1>2. \A i \in 1..(Len(s) + Len(t)) :
        (s \o t)[i] = IF i <= Len(s) THEN s[i] ELSE t[i - Len(s)]
  BY ConcatProperties
<1>3. DOMAIN (s \o t) = 1..(Len(s) + Len(t))
  BY <1>1
<1>4. ASSUME NEW i \in 1..Len(s) PROVE (s \o t)[i] = s[i]
  <2>1. i \in 1..(Len(s) + Len(t)) /\ i <= Len(s)
    BY <1>1
  <2> QED
    BY <1>2, <2>1
<1>5. ASSUME NEW i \in 1..Len(t) PROVE (s \o t)[Len(s) + i] = t[i]
  <2>1. /\ Len(s) + i \in 1..(Len(s) + Len(t)) /\ ~ (Len(s) + i <= Len(s))
        /\ (Len(s) + i) - Len(s) = i
    BY <1>1
  <2> QED
    BY <1>2, <2>1
<1> QED
  BY <1>1, <1>3, <1>4, <1>5

(* A sequence to which an element is appended is another one.              *)
LEMMA AppendLonger ==
  ASSUME NEW S, NEW s \in Seq(S), NEW e \in S
  PROVE  Append(s, e) # s
<1>1. Len(Append(s, e)) = Len(s) + 1 /\ Len(s) \in Nat
  BY AppendProperties
<1> QED
  BY <1>1

-----------------------------------------------------------------------------

(* The record of a call keeps its type under the updates the actions make. *)
LEMMA CallFields ==
  ASSUME NEW r \in CallRecords
  PROVE  /\ r.key \in JsKeys \cup {None}
         /\ r.revalidate \in Revalidates \cup {None}
         /\ r.at \in 0..MaxTime
         /\ r.followers \in Seq(Calls)
         /\ r.entry \in Calls \cup {None}
         /\ r.answer \in Responses \cup {None, Failed}
  BY DEF CallRecords

LEMMA BlankType == Blank \in CallRecords
<1>1. 0 \in 0..MaxTime
  BY FetchAssumption
<1>2. <<>> \in Seq(Calls)
  BY EmptySeq
<1> QED
  BY <1>1, <1>2 DEF Blank, CallRecords

LEMMA AnswerType ==
  ASSUME TypeOK, NEW c \in Calls, NEW a \in Responses \cup {None, Failed}
  PROVE  [call EXCEPT ![c].answer = a] \in [Calls -> CallRecords]
<1>1. call[c] \in CallRecords
  BY DEF TypeOK
<1>2. [call[c] EXCEPT !.answer = a] \in CallRecords
  BY <1>1 DEF CallRecords
<1> QED
  BY <1>2 DEF TypeOK

LEMMA EntryType ==
  ASSUME TypeOK, NEW c \in Calls, NEW e \in Calls
  PROVE  [call EXCEPT ![c].entry = e] \in [Calls -> CallRecords]
<1>1. call[c] \in CallRecords
  BY DEF TypeOK
<1>2. [call[c] EXCEPT !.entry = e] \in CallRecords
  BY <1>1 DEF CallRecords
<1> QED
  BY <1>2 DEF TypeOK

LEMMA ArgumentsType ==
  ASSUME TypeOK, NEW c \in Calls, NEW k \in JsKeys, NEW r \in Revalidates
  PROVE  [call EXCEPT ![c].key = k, ![c].revalidate = r, ![c].at = now]
           \in [Calls -> CallRecords]
<1>1. call[c] \in CallRecords /\ now \in 0..MaxTime
  BY DEF TypeOK
<1>2. [call[c] EXCEPT !.key = k, !.revalidate = r, !.at = now] \in CallRecords
  BY <1>1 DEF CallRecords
<1> QED
  BY <1>2 DEF TypeOK

LEMMA JobType ==
  ASSUME NEW c \in Calls, NEW d \in Calls, NEW kind \in {"deliver", "clone", "read"}
  PROVE  Job(c, kind, d) \in Jobs
  BY DEF Job, Jobs

LEMMA ReactionsType ==
  ASSUME TypeOK, NEW c \in Calls, NEW outcome
  PROVE  Reactions(c, outcome) \in Seq(Jobs)
<1> DEFINE fs == call[c].followers
           clones == [i \in DOMAIN fs |-> Job(fs[i], "clone", c)]
<1>1. fs \in Seq(Calls)
  BY CallFields DEF TypeOK
<1>2. DOMAIN fs = 1..Len(fs) /\ Len(fs) \in Nat
  BY <1>1
<1>3. \A i \in 1..Len(fs) : fs[i] \in Calls
  BY <1>1, ElementOfSeq
<1>4. \A i \in 1..Len(fs) : Job(fs[i], "clone", c) \in Jobs
  BY <1>3, JobType
<1>5. clones \in [1..Len(fs) -> Jobs]
  BY <1>2, <1>4
<1>6. clones \in Seq(Jobs)
  BY <1>2, <1>5, SeqDef
<1>7. <<Job(c, "deliver", c)>> \in Seq(Jobs)
  BY JobType
<1> QED
  BY <1>6, <1>7, ConcatProperties DEF Reactions

LEMMA ResolveType ==
  ASSUME TypeOK, NEW c \in Calls, NEW outcome \in Responses \cup {Failed},
         Resolve(c, outcome)
  PROVE  /\ pc' \in [Calls -> Labels]
         /\ call' \in [Calls -> CallRecords]
         /\ jobs' \in Seq(Jobs)
<1>1. jobs \o Reactions(c, outcome) \in Seq(Jobs)
  BY ReactionsType, ConcatProperties DEF TypeOK
<1> QED
  BY <1>1, AnswerType DEF TypeOK, Resolve, Goto, Labels

LEMMA PutType ==
  ASSUME TypeOK, NEW u \in Urls, NEW response \in Responses, Put(u, response)
  PROVE  /\ stored' \in [Urls -> Responses \cup {None}]
         /\ order' \in Seq(Urls) /\ Len(order') <= MaxEntries
<1> DEFINE others == RemoveFirst(order, u)
           kept == IF Len(others) = MaxEntries THEN Tail(others) ELSE others
<1>1. /\ others \in Seq(Urls) /\ Len(others) <= Len(order)
      /\ Len(order) \in Nat /\ Len(others) \in Nat
  BY RemoveFirstType, LenProperties DEF TypeOK
<1>2. MaxEntries \in Nat \ {0} /\ Len(order) <= MaxEntries
  BY FetchAssumption DEF TypeOK
<1>3. order' = Append(kept, u)
  BY DEF Put
<1>4. /\ stored' \in [Urls -> Responses \cup {None}]
  BY DEF Put, TypeOK
<1> HIDE DEF others
<1>5. CASE Len(others) = MaxEntries
  <2>1. others # <<>>
    BY <1>1, <1>2, <1>5, EmptySeq
  <2>2. Tail(others) \in Seq(Urls) /\ Len(Tail(others)) = Len(others) - 1
    BY <1>1, <2>1, HeadTailProperties
  <2>3. kept \in Seq(Urls) /\ Len(kept) + 1 <= MaxEntries
    BY <1>1, <1>2, <1>5, <2>2
  <2> HIDE DEF kept
  <2> QED
    BY <1>3, <1>4, <2>3, AppendProperties
<1>6. CASE Len(others) # MaxEntries
  <2>1. kept \in Seq(Urls) /\ Len(kept) \in Nat /\ Len(kept) + 1 <= MaxEntries
    BY <1>1, <1>2, <1>6
  <2> HIDE DEF kept
  <2> QED
    BY <1>3, <1>4, <2>1, AppendProperties
<1> QED
  BY <1>5, <1>6

(* A call that is in the op has a URL.                                     *)
LEMMA UrlType ==
  ASSUME CallsInOrder, NEW c \in Calls, pc[c] \in {"op", "queued", "fetching"}
  PROVE  Url(c) \in Urls
  BY FetchAssumption DEF CallsInOrder, Url

LEMMA InitIInv == Init => IInv
<1> SUFFICES ASSUME Init PROVE IInv
  OBVIOUS
<1>1. TypeOK
  BY FetchAssumption, BlankType, EmptySeq DEF Init, TypeOK, Labels
<1>2. EntriesShared
  BY DEF Init, EntriesShared
<1>3. CallsInOrder
  BY DEF Init, CallsInOrder, Blank
<1> QED
  BY <1>1, <1>2, <1>3 DEF IInv

(* One step of the microtask queue keeps the types.                        *)
LEMMA RunJobType == ASSUME TypeOK, RunJob PROVE TypeOK'
<1> DEFINE job == Head(jobs)
<1>1. jobs # <<>> /\ jobs \in Seq(Jobs)
  BY DEF RunJob, TypeOK
<1>2. job \in Jobs /\ Tail(jobs) \in Seq(Jobs)
  BY <1>1, HeadTailProperties
<1>3. job.call \in Calls /\ job.leader \in Calls
  BY <1>2 DEF Jobs
<1>4. UNCHANGED <<now, stored, order, inFlight, holder, result>>
  BY DEF RunJob, rust
<1> HIDE DEF job
<1>5. CASE Deliver(job.call)
  <2>1. Append(Tail(jobs), Job(job.call, "read", job.call)) \in Seq(Jobs)
    BY <1>2, <1>3, JobType, AppendProperties
  <2>2. None \in Calls \cup {None}
    OBVIOUS
  <2> QED
    BY <1>3, <1>4, <1>5, <2>1, <2>2 DEF TypeOK, Deliver, Goto, Labels
<1>6. CASE Clone(job.call, job.leader)
  <2>1. call[job.leader].answer \in Responses \cup {None, Failed}
    BY <1>3, CallFields DEF TypeOK
  <2>2. call' \in [Calls -> CallRecords]
    BY <1>3, <1>6, <2>1, AnswerType DEF Clone
  <2> QED
    BY <1>2, <1>3, <1>4, <1>6, <2>2 DEF TypeOK, Clone, Goto, Labels
<1>7. CASE Read(job.call)
  BY <1>2, <1>3, <1>4, <1>7 DEF TypeOK, Read
<1> QED
  BY <1>5, <1>6, <1>7 DEF RunJob, job

(* A later call notes its arguments, and then itself with its leader.      *)
LEMMA FollowedCalls ==
  ASSUME NEW c, NEW k, NEW r, CallFollowing(c, k, r)
  PROVE  call' = [[call EXCEPT ![c].key = k, ![c].revalidate = r, ![c].at = now]
                    EXCEPT ![dedupe[k]].followers = Append(@, c)]
  BY Zenon DEF CallFollowing

(* A later call joins the promise of its key.                              *)
LEMMA CallFollowingType ==
  ASSUME TypeOK, NEW c \in Calls, NEW k \in JsKeys, NEW r \in Revalidates,
         CallFollowing(c, k, r)
  PROVE  TypeOK'
<1> DEFINE leader == dedupe[k]
           begun == [call EXCEPT ![c].key = k, ![c].revalidate = r, ![c].at = now]
<1>1. leader \in Calls
  BY DEF CallFollowing, TypeOK
<1>2. begun \in [Calls -> CallRecords]
  BY ArgumentsType
<1>3. call' = [begun EXCEPT ![leader].followers = Append(@, c)]
  BY FollowedCalls
<1> HIDE DEF begun, leader
<1>4. Append(begun[leader].followers, c) \in Seq(Calls)
  BY <1>1, <1>2, CallFields, AppendProperties
<1>5. [begun[leader] EXCEPT !.followers = Append(@, c)] \in CallRecords
  <2>1. begun[leader] \in CallRecords
    BY <1>1, <1>2
  <2> QED
    BY <1>4, <2>1 DEF CallRecords
<1>6. call' \in [Calls -> CallRecords]
  BY <1>1, <1>2, <1>3, <1>5
<1>7. jobs' \in Seq(Jobs)
  BY <1>1, JobType, AppendProperties DEF TypeOK, CallFollowing, leader
<1> QED
  BY <1>6, <1>7 DEF TypeOK, CallFollowing, Goto, Labels, rust

LEMMA StepTypeOK == TypeOK /\ EntriesShared /\ CallsInOrder /\ [Next]_vars => TypeOK'
<1> SUFFICES ASSUME TypeOK, EntriesShared, CallsInOrder, [Next]_vars
             PROVE  TypeOK'
  OBVIOUS
<1>a. /\ now \in 0..MaxTime /\ MaxTime \in Nat /\ MaxEntries \in Nat
  BY FetchAssumption DEF TypeOK
<1>0. CASE UNCHANGED vars
  BY <1>0 DEF vars, TypeOK
<1>1. ASSUME NEW c \in Calls, NEW k \in JsKeys, CallUncached(c, k) PROVE TypeOK'
  BY <1>1, ArgumentsType DEF TypeOK, CallUncached, Goto, Labels, rust
<1>2. ASSUME NEW c \in Calls, NEW k \in JsKeys, NEW r \in Revalidates,
             CallLeading(c, k, r)
      PROVE  TypeOK'
  BY <1>2, ArgumentsType DEF TypeOK, CallLeading, Goto, Labels, rust
<1>3. ASSUME NEW c \in Calls, NEW k \in JsKeys, NEW r \in Revalidates,
             CallFollowing(c, k, r)
      PROVE  TypeOK'
  BY <1>3, CallFollowingType
<1>4. ASSUME NEW c \in Calls, LookupHit(c) PROVE TypeOK'
  <2>1. Url(c) \in Urls
    BY <1>4, UrlType DEF LookupHit
  <2>2. stored[Url(c)] \in Responses
    BY <1>4, <2>1 DEF TypeOK, LookupHit, Hits
  <2> QED
    BY <1>4, <2>1, <2>2, PutType, ResolveType DEF TypeOK, LookupHit
<1>5. ASSUME NEW c \in Calls, LookupMiss(c) PROVE TypeOK'
  <2>1. Url(c) \in Urls
    BY <1>5, UrlType DEF LookupMiss
  <2>2. /\ RemoveFirst(order, Url(c)) \in Seq(Urls)
        /\ Len(RemoveFirst(order, Url(c))) <= MaxEntries
    <3>1. /\ RemoveFirst(order, Url(c)) \in Seq(Urls)
          /\ Len(RemoveFirst(order, Url(c))) <= Len(order)
          /\ Len(RemoveFirst(order, Url(c))) \in Nat /\ Len(order) \in Nat
      BY RemoveFirstType, LenProperties DEF TypeOK
    <3> QED
      BY <1>a, <3>1 DEF TypeOK
  <2> DEFINE entry == IF inFlight[Url(c)] = None THEN c ELSE inFlight[Url(c)]
  <2>3. entry \in Calls
    BY <2>1 DEF TypeOK
  <2>4. call' \in [Calls -> CallRecords]
    BY <1>5, <2>3, EntryType DEF LookupMiss
  <2> QED
    BY <1>5, <2>1, <2>2, <2>3, <2>4 DEF TypeOK, LookupMiss, Goto, Labels
<1>6. ASSUME NEW c \in Calls, LookupNoContext(c) PROVE TypeOK'
  BY <1>6 DEF TypeOK, LookupNoContext, Goto, Labels, rust
<1>7. ASSUME NEW c \in Calls, AcquireFirst(c) PROVE TypeOK'
  BY <1>7 DEF TypeOK, AcquireFirst, Goto, Labels
<1>8. ASSUME NEW c \in Calls, AcquireAfter(c) PROVE TypeOK'
  <2>1. Url(c) \in Urls
    BY <1>8, UrlType DEF AcquireAfter
  <2> QED
    BY <1>8, <2>1, PutType, ResolveType DEF TypeOK, AcquireAfter
<1>9. ASSUME NEW c \in Calls, AcquireAfterError(c) PROVE TypeOK'
  BY <1>9 DEF TypeOK, AcquireAfterError, Goto, Labels, rust
<1>10. ASSUME NEW c \in Calls, FetchAnswered(c) PROVE TypeOK'
  <2>1. Url(c) \in Urls
    BY <1>10, UrlType DEF FetchAnswered
  <2>2. now \in Responses
    BY <1>a DEF Responses
  <2>3. Put(Url(c), now) /\ Resolve(c, now) /\ Finish(c, now)
    BY <1>10 DEF FetchAnswered
  <2>4. UNCHANGED <<now, dedupe, consumed>>
    BY <1>10 DEF FetchAnswered
  <2>5. /\ result' \in [Calls -> Responses \cup {None, Failed}]
        /\ holder' \in [Calls -> Calls \cup {None}]
        /\ inFlight' \in [Urls -> Calls \cup {None}]
    BY <2>2, <2>3 DEF TypeOK, Finish
  <2>6. /\ stored' \in [Urls -> Responses \cup {None}]
        /\ order' \in Seq(Urls) /\ Len(order') <= MaxEntries
    BY <2>1, <2>2, <2>3, PutType
  <2>7. /\ pc' \in [Calls -> Labels]
        /\ call' \in [Calls -> CallRecords]
        /\ jobs' \in Seq(Jobs)
    BY <2>2, <2>3, ResolveType
  <2> QED
    BY <2>4, <2>5, <2>6, <2>7 DEF TypeOK
<1>11. ASSUME NEW c \in Calls, FetchFailed(c) PROVE TypeOK'
  BY <1>11 DEF TypeOK, FetchFailed, Finish, Goto, Labels
<1>12. ASSUME NEW c \in Calls, SimpleAnswered(c) PROVE TypeOK'
  <2>1. now \in Responses
    BY <1>a DEF Responses
  <2> QED
    BY <1>12, <2>1, ResolveType DEF TypeOK, SimpleAnswered, rust
<1>13. ASSUME NEW c \in Calls, SimpleFailed(c) PROVE TypeOK'
  BY <1>13 DEF TypeOK, SimpleFailed, Goto, Labels, rust
<1>14. ASSUME NEW c \in Calls, Direct(c) PROVE TypeOK'
  <2>1. PICK outcome \in {now, Failed} :
          DirectSettled(c, outcome)
    BY <1>14 DEF Direct
  <2>2. outcome \in Responses \cup {Failed}
    BY <1>a DEF Responses
  <2>3. CASE call[c].revalidate = 0
    <3>1. [call EXCEPT ![c].answer = outcome] \in [Calls -> CallRecords]
      BY <2>2, AnswerType
    <3> QED
      BY <2>1, <2>3, <3>1 DEF TypeOK, DirectSettled, Goto, Labels, rust
  <2>4. CASE call[c].revalidate # 0
    BY <2>1, <2>2, <2>4, ResolveType DEF TypeOK, DirectSettled, rust
  <2> QED
    BY <2>3, <2>4
<1>15. CASE RunJob
  BY <1>15, RunJobType
<1>16. CASE Tick
  BY <1>16, <1>a DEF TypeOK, Tick, rust
<1>17. CASE Restart
  <2>1. pc' \in [Calls -> Labels]
    BY <1>17 DEF TypeOK, Restart, Labels
  <2>2. jobs' \in Seq(Jobs)
    BY <1>17, EmptySeq DEF Restart
  <2> QED
    BY <1>17, <2>1, <2>2 DEF TypeOK, Restart
<1> QED
  BY <1>0, <1>1, <1>2, <1>3, <1>4, <1>5, <1>6, <1>7, <1>8, <1>9, <1>10, <1>11,
     <1>12, <1>13, <1>14, <1>15, <1>16, <1>17
  DEF Next, Call, Progress, Answered

-----------------------------------------------------------------------------
(* A step that leaves the table alone, and moves no call to its mutex,     *)
(* keeps both parts of the invariant.                                      *)
LEMMA QuietStep ==
  ASSUME TypeOK, EntriesShared, CallsInOrder,
         UNCHANGED <<inFlight, holder, result>>,
         \A d \in Calls :
           /\ call'[d].entry = call[d].entry
           /\ pc[d] # "idle" => call'[d].key = call[d].key
           /\ pc'[d] \in {"queued", "fetching"} => pc'[d] = pc[d]
           /\ pc'[d] \in {"idle", "op"} => pc[d] \in {"idle", "op"}
           /\ pc'[d] = "op" => pc[d] = "op" \/ call'[d].key \in JsKeys
  PROVE  EntriesShared' /\ CallsInOrder'
<1>1. \A d \in Calls : call[d].entry # None => pc[d] # "idle" /\ Url(d)' = Url(d)
  BY DEF CallsInOrder, Url
<1>2. \A u \in Urls : inFlight[u] # None => inFlight[u] \in Calls
  BY DEF TypeOK
<1>3. EntriesShared'
  <2>1. ASSUME NEW u \in Urls, inFlight'[u] # None
        PROVE  /\ call'[inFlight'[u]].entry = inFlight'[u]
               /\ Url(inFlight[u])' = u
               /\ result'[inFlight'[u]] = None
    BY <1>1, <1>2, <2>1 DEF EntriesShared
  <2>2. ASSUME NEW d \in Calls
        PROVE  /\ pc'[d] \in {"queued", "fetching"} => call'[d].entry # None
               /\ pc'[d] \in {"queued", "fetching"} /\ result'[call'[d].entry] = None
                    => inFlight'[Url(d)'] = call'[d].entry
               /\ pc'[d] = "fetching" =>
                    holder'[call'[d].entry] = d /\ result'[call'[d].entry] = None
    BY <1>1 DEF EntriesShared
  <2> QED
    BY <2>1, <2>2 DEF EntriesShared
<1>4. CallsInOrder'
  BY DEF CallsInOrder
<1> QED
  BY <1>3, <1>4

(* An entry that is fetched is in the table under its own key alone.       *)
LEMMA FetchingEntry ==
  ASSUME TypeOK, EntriesShared, CallsInOrder, FetchAssumption,
         NEW c \in Calls, pc[c] = "fetching"
  PROVE  /\ call[c].entry \in Calls
         /\ Url(c) \in Urls
         /\ inFlight[Url(c)] = call[c].entry
         /\ call[call[c].entry].entry = call[c].entry
         /\ Url(call[c].entry) = Url(c)
         /\ holder[call[c].entry] = c
<1>1. Url(c) \in Urls
  BY UrlType
<1>2. call[c].entry # None /\ inFlight[Url(c)] = call[c].entry /\ holder[call[c].entry] = c
  BY DEF EntriesShared
<1>3. call[c].entry \in Calls
  BY <1>1, <1>2 DEF TypeOK
<1> QED
  BY <1>1, <1>2, <1>3 DEF EntriesShared

(* The step that settles an entry.                                         *)
LEMMA FinishStep ==
  ASSUME TypeOK, EntriesShared, CallsInOrder,
         NEW c \in Calls, NEW outcome \in Responses \cup {Failed},
         pc[c] = "fetching", Finish(c, outcome),
         pc'[c] \in Labels \ {"idle", "op", "queued", "fetching"},
         \A d \in Calls : /\ d # c => pc'[d] = pc[d]
                          /\ call'[d].entry = call[d].entry
                          /\ call'[d].key = call[d].key
  PROVE  EntriesShared' /\ CallsInOrder'
<1> DEFINE e == call[c].entry
           u == Url(c)
<1>1. /\ e \in Calls /\ u \in Urls /\ inFlight[u] = e
      /\ call[e].entry = e /\ Url(e) = u /\ holder[e] = c
  BY FetchingEntry, FetchAssumption
<1>2. outcome # None /\ None \notin Calls
  BY FetchAssumption DEF Responses
<1>3. /\ result' = [result EXCEPT ![e] = outcome]
      /\ holder' = [holder EXCEPT ![e] = None]
      /\ inFlight' = [inFlight EXCEPT ![u] = None]
  BY DEF Finish
<1>4. \A d \in Calls : Url(d)' = Url(d)
  BY DEF Url
<1> HIDE DEF e, u
<1>5. /\ \A d \in Calls : d # e => result'[d] = result[d] /\ holder'[d] = holder[d]
      /\ result'[e] # None
  BY <1>1, <1>2, <1>3 DEF TypeOK
<1>6. /\ \A v \in Urls : v # u => inFlight'[v] = inFlight[v]
      /\ inFlight'[u] = None
  BY <1>1, <1>3 DEF TypeOK
<1>7. \A d \in Calls : pc'[d] \in {"queued", "fetching"} => d # c /\ pc'[d] = pc[d]
  OBVIOUS
<1>8. EntriesShared'
  <2>1. ASSUME NEW v \in Urls, inFlight'[v] # None
        PROVE  /\ call'[inFlight'[v]].entry = inFlight'[v]
               /\ Url(inFlight[v])' = v
               /\ inFlight'[v] = inFlight[v]
               /\ result'[inFlight'[v]] = None
    <3>1. v # u /\ inFlight'[v] = inFlight[v] /\ inFlight[v] \in Calls
      BY <1>6, <2>1 DEF TypeOK
    <3>2. /\ call[inFlight[v]].entry = inFlight[v]
          /\ Url(inFlight[v]) = v
          /\ result[inFlight[v]] = None
      BY <2>1, <3>1 DEF EntriesShared
    <3>3. inFlight[v] # e
      BY <1>1, <3>1, <3>2
    <3> QED
      BY <1>4, <1>5, <3>1, <3>2, <3>3
  <2>2. ASSUME NEW d \in Calls, pc'[d] \in {"queued", "fetching"}
        PROVE  /\ call'[d].entry # None
               /\ result'[call'[d].entry] = None => inFlight'[Url(d)'] = call'[d].entry
               /\ pc'[d] = "fetching" =>
                    holder'[call'[d].entry] = d /\ result'[call'[d].entry] = None
    <3>1. d # c /\ pc'[d] = pc[d] /\ pc[d] \in {"queued", "fetching"}
      BY <1>7, <2>2
    <3>2. /\ call[d].entry # None
          /\ result[call[d].entry] = None => inFlight[Url(d)] = call[d].entry
          /\ pc[d] = "fetching" =>
               holder[call[d].entry] = d /\ result[call[d].entry] = None
      BY <2>2, <3>1 DEF EntriesShared
    <3>3. call[d].entry \in Calls /\ Url(d) \in Urls
      BY <3>1, <3>2, CallFields, UrlType DEF TypeOK
    <3>4. CASE call[d].entry = e
      BY <1>1, <1>5, <3>1, <3>2, <3>4
    <3>5. CASE call[d].entry # e
      <4>1. /\ result'[call[d].entry] = result[call[d].entry]
            /\ holder'[call[d].entry] = holder[call[d].entry]
        BY <1>5, <3>3, <3>5
      <4>2. result[call[d].entry] = None => Url(d) # u
        BY <1>1, <3>2, <3>5
      <4> QED
        BY <1>4, <1>6, <3>1, <3>2, <3>3, <4>1, <4>2
    <3> QED
      BY <3>4, <3>5
  <2> QED
    BY <2>1, <2>2 DEF EntriesShared
<1>9. CallsInOrder'
  <2>1. ASSUME NEW d \in Calls
        PROVE  /\ pc'[d] \in {"op", "queued", "fetching"} => call'[d].key \in JsKeys
               /\ pc'[d] \in {"idle", "op"} => call'[d].entry = None
    BY DEF CallsInOrder
  <2>2. ASSUME NEW d \in Calls, call'[d].entry = None
        PROVE  result'[d] = None
    BY <1>1, <1>2, <1>5, <2>2 DEF CallsInOrder
  <2> QED
    BY <2>1, <2>2 DEF CallsInOrder
<1> QED
  BY <1>8, <1>9

(* The promise that is settled is not one that waits.                      *)
LEMMA ResolveQuiet ==
  ASSUME TypeOK, NEW c \in Calls, NEW outcome, Resolve(c, outcome)
  PROVE  /\ pc'[c] = "resolved"
         /\ \A d \in Calls : /\ d # c => pc'[d] = pc[d]
                             /\ call'[d].entry = call[d].entry
                             /\ call'[d].key = call[d].key
<1>1. /\ pc' = [pc EXCEPT ![c] = "resolved"]
      /\ call' = [call EXCEPT ![c].answer = outcome]
  BY DEF Resolve, Goto
<1>2. call'[c].entry = call[c].entry /\ call'[c].key = call[c].key
  BY <1>1 DEF TypeOK, CallRecords
<1> QED
  BY <1>1, <1>2 DEF TypeOK

(* A call of fetch writes its own arguments and its leader's followers.    *)
LEMMA CallQuiet ==
  ASSUME TypeOK, EntriesShared, CallsInOrder, NEW c \in Calls, NEW k \in JsKeys,
         \/ CallUncached(c, k)
         \/ \E r \in Revalidates : CallLeading(c, k, r) \/ CallFollowing(c, k, r)
  PROVE  EntriesShared' /\ CallsInOrder'
<1>1. UNCHANGED <<inFlight, holder, result>> /\ pc[c] = "idle"
  BY DEF CallUncached, CallLeading, CallFollowing, rust
<1>2. \A d \in Calls : d # c => pc'[d] = pc[d]
  BY DEF CallUncached, CallLeading, CallFollowing, Goto, TypeOK
<1>3. pc'[c] \in {"direct", "op", "following"}
  BY DEF CallUncached, CallLeading, CallFollowing, Goto, TypeOK
<1>4. \A d \in Calls : /\ call'[d].entry = call[d].entry
                       /\ call'[d].key = IF d = c THEN k ELSE call[d].key
  <2>1. CASE CallUncached(c, k)
    BY <2>1 DEF CallUncached, TypeOK, CallRecords
  <2>2. ASSUME NEW r \in Revalidates, CallLeading(c, k, r)
        PROVE  \A d \in Calls : /\ call'[d].entry = call[d].entry
                                /\ call'[d].key = IF d = c THEN k ELSE call[d].key
    BY <2>2 DEF CallLeading, TypeOK, CallRecords
  <2>3. ASSUME NEW r \in Revalidates, CallFollowing(c, k, r)
        PROVE  \A d \in Calls : /\ call'[d].entry = call[d].entry
                                /\ call'[d].key = IF d = c THEN k ELSE call[d].key
    <3> DEFINE begun == [call EXCEPT ![c].key = k, ![c].revalidate = r, ![c].at = now]
    <3>1. \A d \in Calls : /\ begun[d] \in CallRecords
                           /\ begun[d].entry = call[d].entry
                           /\ begun[d].key = IF d = c THEN k ELSE call[d].key
      <4>1. begun \in [Calls -> CallRecords]
        BY ArgumentsType
      <4>2. \A d \in Calls : call[d] \in CallRecords
        BY DEF TypeOK
      <4> QED
        BY <4>1, <4>2 DEF TypeOK, CallRecords
    <3>2. dedupe[k] \in Calls
      BY <2>3 DEF CallFollowing, TypeOK
    <3>3. begun \in [Calls -> CallRecords]
      BY ArgumentsType
    <3>4. call' = [begun EXCEPT ![dedupe[k]].followers = Append(@, c)]
      BY <2>3, FollowedCalls
    <3> HIDE DEF begun
    <3>5. \A d \in Calls : call'[d].entry = begun[d].entry /\ call'[d].key = begun[d].key
      BY <3>2, <3>3, <3>4 DEF CallRecords
    <3> QED
      BY <3>1, <3>5
  <2> QED
    BY <2>1, <2>2, <2>3
<1> QED
  BY <1>1, <1>2, <1>3, <1>4, QuietStep

(* A microtask settles its call at most, and writes no more than answers.  *)
LEMMA RunJobQuiet ==
  ASSUME TypeOK, EntriesShared, CallsInOrder, RunJob
  PROVE  EntriesShared' /\ CallsInOrder'
<1> DEFINE job == Head(jobs)
<1>1. UNCHANGED <<inFlight, holder, result>>
  BY DEF RunJob, rust
<1>2. job \in Jobs
  BY HeadTailProperties DEF RunJob, TypeOK
<1>3. job.call \in Calls
  BY <1>2 DEF Jobs
<1> HIDE DEF job
<1>4. \A d \in Calls : pc'[d] \in {pc[d], "settled"}
  BY <1>3 DEF RunJob, Deliver, Clone, Read, Goto, TypeOK, job
<1>5. \A d \in Calls : call'[d].entry = call[d].entry /\ call'[d].key = call[d].key
  <2>1. CASE UNCHANGED call
    BY <2>1
  <2>2. ASSUME NEW a, call' = [call EXCEPT ![job.call].answer = a]
        PROVE  \A d \in Calls : call'[d].entry = call[d].entry /\ call'[d].key = call[d].key
    <3>1. /\ [call[job.call] EXCEPT !.answer = a].entry = call[job.call].entry
          /\ [call[job.call] EXCEPT !.answer = a].key = call[job.call].key
      BY <1>3 DEF TypeOK, CallRecords
    <3> QED
      BY <1>3, <2>2, <3>1 DEF TypeOK
  <2>3. \/ UNCHANGED call
        \/ call' = [call EXCEPT ![job.call].answer = call[job.leader].answer]
    BY DEF RunJob, Deliver, Clone, Read, job
  <2> QED
    BY <2>1, <2>2, <2>3
<1> QED
  BY <1>1, <1>4, <1>5, QuietStep

(* A call finds the entry of its key in the table, or makes it.            *)
LEMMA LookupMissStep ==
  ASSUME TypeOK, EntriesShared, CallsInOrder, NEW c \in Calls, LookupMiss(c)
  PROVE  EntriesShared' /\ CallsInOrder'
<1> DEFINE u == Url(c)
           entry == IF inFlight[u] = None THEN c ELSE inFlight[u]
<1>1. pc[c] = "op" /\ call[c].entry = None /\ call[c].key \in JsKeys /\ result[c] = None
  BY DEF LookupMiss, CallsInOrder
<1>2. u \in Urls /\ entry \in Calls /\ None \notin Calls
  BY <1>1, UrlType, FetchAssumption DEF TypeOK
<1>3. /\ UNCHANGED <<holder, result>>
      /\ inFlight' = [inFlight EXCEPT ![u] = entry]
      /\ call' = [call EXCEPT ![c].entry = entry]
      /\ pc' = [pc EXCEPT ![c] = "queued"]
  BY DEF LookupMiss, Goto
<1>4. /\ \A v \in Urls : inFlight[v] # None => inFlight[v] \in Calls /\ inFlight[v] # c
      /\ result[entry] = None
  BY <1>1, <1>2 DEF EntriesShared, TypeOK
<1>5. /\ call'[c].entry = entry /\ pc'[c] = "queued"
      /\ \A d \in Calls \ {c} : call'[d] = call[d] /\ pc'[d] = pc[d]
      /\ \A d \in Calls : call'[d].key = call[d].key
  <2>1. /\ [call[c] EXCEPT !.entry = entry].entry = entry
        /\ [call[c] EXCEPT !.entry = entry].key = call[c].key
    BY DEF TypeOK, CallRecords
  <2> HIDE DEF entry
  <2> QED
    BY <1>3, <2>1 DEF TypeOK
<1>6. \A d \in Calls : Url(d)' = Url(d)
  BY <1>5 DEF Url
<1>7. /\ inFlight'[u] = entry
      /\ \A v \in Urls : inFlight'[v] \in {inFlight[v], entry}
      /\ \A v \in Urls : v # u \/ inFlight[u] # None => inFlight'[v] = inFlight[v]
  BY <1>2, <1>3 DEF TypeOK
<1>8. inFlight[u] # None =>
        /\ call[inFlight[u]].entry = inFlight[u] /\ Url(inFlight[u]) = u
  BY <1>2 DEF EntriesShared
<1>9. inFlight[u] = None => entry = c
  OBVIOUS
<1>10. inFlight[u] # None => entry = inFlight[u]
  OBVIOUS
<1> HIDE DEF entry
<1>11. ASSUME NEW v \in Urls, inFlight'[v] # None
       PROVE  /\ call'[inFlight'[v]].entry = inFlight'[v]
              /\ Url(inFlight[v])' = v \/ inFlight[v] = None
              /\ inFlight[v] = None => v = u /\ inFlight'[v] = c
              /\ inFlight[v] # None => inFlight'[v] = inFlight[v]
              /\ result'[inFlight'[v]] = None
  <2>1. CASE inFlight[v] = None
    BY <1>2, <1>3, <1>4, <1>5, <1>7, <1>9, <1>11, <2>1
  <2>2. CASE inFlight[v] # None
    <3>1. inFlight'[v] = inFlight[v] /\ inFlight[v] \in Calls \ {c}
      BY <1>4, <1>7, <2>2
    <3>2. /\ call[inFlight[v]].entry = inFlight[v]
          /\ Url(inFlight[v]) = v
          /\ result[inFlight[v]] = None
      BY <2>2 DEF EntriesShared
    <3> QED
      BY <1>3, <1>5, <1>6, <2>2, <3>1, <3>2
  <2> QED
    BY <2>1, <2>2
<1>12. ASSUME NEW v \in Urls, inFlight'[v] # None
       PROVE  UrlOf[call'[inFlight'[v]].key] = v
  <2>1. CASE inFlight[v] = None
    <3>1. v = u /\ inFlight'[v] = c
      BY <1>11, <1>12, <2>1
    <3> QED
      BY <1>5, <3>1 DEF Url
  <2>2. CASE inFlight[v] # None
    <3>1. inFlight[v] \in Calls /\ inFlight'[v] = inFlight[v] /\ Url(inFlight[v])' = v
      BY <1>4, <1>11, <1>12, <2>2
    <3>2. Url(inFlight[v]) = v
      BY <1>6, <3>1
    <3> QED
      BY <1>5, <3>1, <3>2 DEF Url
  <2> QED
    BY <2>1, <2>2
<1>13. ASSUME NEW d \in Calls, pc'[d] \in {"queued", "fetching"}
       PROVE  /\ call'[d].entry # None
              /\ result'[call'[d].entry] = None => inFlight'[Url(d)'] = call'[d].entry
              /\ pc'[d] = "fetching" =>
                   holder'[call'[d].entry] = d /\ result'[call'[d].entry] = None
  <2>1. CASE d = c
    BY <1>2, <1>5, <1>6, <1>7, <2>1
  <2>2. CASE d # c
    <3>1. call'[d] = call[d] /\ pc'[d] = pc[d]
      BY <1>5, <2>2
    <3>2. Url(d) \in Urls
      BY <1>13, <3>1, UrlType
    <3>3. /\ call[d].entry # None
          /\ result[call[d].entry] = None => inFlight[Url(d)] = call[d].entry
          /\ pc[d] = "fetching" =>
               holder[call[d].entry] = d /\ result[call[d].entry] = None
      BY <1>13, <3>1 DEF EntriesShared
    <3> QED
      BY <1>3, <1>6, <1>7, <3>1, <3>2, <3>3
  <2> QED
    BY <2>1, <2>2
<1>14. EntriesShared'
  BY <1>11, <1>12, <1>13 DEF EntriesShared, Url
<1>15. CallsInOrder'
  BY <1>1, <1>2, <1>3, <1>5 DEF CallsInOrder
<1> QED
  BY <1>14, <1>15

(* The first to take the mutex of an entry becomes its holder.             *)
LEMMA AcquireFirstStep ==
  ASSUME TypeOK, EntriesShared, CallsInOrder, NEW c \in Calls, AcquireFirst(c)
  PROVE  EntriesShared' /\ CallsInOrder'
<1> DEFINE e == call[c].entry
<1>1. /\ pc[c] = "queued" /\ holder[e] = None /\ result[e] = None
      /\ UNCHANGED <<call, inFlight, result>>
      /\ holder' = [holder EXCEPT ![e] = c]
      /\ pc' = [pc EXCEPT ![c] = "fetching"]
  BY DEF AcquireFirst, Goto
<1>2. None \notin Calls
  BY FetchAssumption
<1>3. e \in Calls
  <2>1. e # None
    BY <1>1 DEF EntriesShared
  <2>2. call[c] \in CallRecords
    BY DEF TypeOK
  <2> QED
    BY <2>1, <2>2 DEF CallRecords
<1>4. holder'[e] = c /\ \A d \in Calls \ {e} : holder'[d] = holder[d]
  BY <1>1, <1>3 DEF TypeOK
<1>5. pc'[c] = "fetching" /\ \A d \in Calls \ {c} : pc'[d] = pc[d]
  BY <1>1 DEF TypeOK
<1>6. \A d \in Calls : Url(d)' = Url(d)
  BY <1>1 DEF Url
<1>7. \A d \in Calls : pc[d] = "fetching" => call[d].entry # e /\ call[d].entry \in Calls
  <2> SUFFICES ASSUME NEW d \in Calls, pc[d] = "fetching"
               PROVE  call[d].entry # e /\ call[d].entry \in Calls
    OBVIOUS
  <2>1. holder[call[d].entry] = d /\ call[d].entry # None
    BY DEF EntriesShared
  <2>2. call[d] \in CallRecords
    BY DEF TypeOK
  <2> QED
    BY <1>1, <1>2, <2>1, <2>2 DEF CallRecords
<1> HIDE DEF e
<1>8. EntriesShared'
  <2>1. ASSUME NEW u \in Urls, inFlight'[u] # None
        PROVE  /\ call'[inFlight'[u]].entry = inFlight'[u]
               /\ UrlOf[call'[inFlight'[u]].key] = u
               /\ result'[inFlight'[u]] = None
    BY <1>1, <2>1 DEF EntriesShared, Url
  <2>2. ASSUME NEW d \in Calls
        PROVE  /\ pc'[d] \in {"queued", "fetching"} => call'[d].entry # None
               /\ pc'[d] \in {"queued", "fetching"} /\ result'[call'[d].entry] = None
                    => inFlight'[Url(d)'] = call'[d].entry
    BY <1>1, <1>5, <1>6 DEF EntriesShared
  <2>3. ASSUME NEW d \in Calls, pc'[d] = "fetching"
        PROVE  holder'[call'[d].entry] = d /\ result'[call'[d].entry] = None
    <3>1. CASE d = c
      BY <1>1, <1>4, <3>1 DEF e
    <3>2. CASE d # c
      BY <1>1, <1>4, <1>5, <1>7, <2>3, <3>2 DEF EntriesShared
    <3> QED
      BY <3>1, <3>2
  <2> QED
    BY <2>1, <2>2, <2>3 DEF EntriesShared, Url
<1>9. CallsInOrder'
  BY <1>1, <1>5 DEF CallsInOrder
<1> QED
  BY <1>8, <1>9

(* No call waits for a mutex or holds one after a restart.                 *)
LEMMA RestartStep ==
  ASSUME TypeOK, EntriesShared, CallsInOrder, Restart
  PROVE  EntriesShared' /\ CallsInOrder'
<1>1. UNCHANGED <<call, result>>
  BY DEF Restart
<1>2. \A d \in Calls :
        \/ pc'[d] = pc[d] /\ pc[d] \in {"idle", "settled"}
        \/ pc'[d] = "dead"
  BY DEF Restart
<1>3. \A u \in Urls : inFlight'[u] \in {inFlight[u], None}
  BY DEF Restart
<1>4. EntriesShared'
  BY <1>1, <1>2, <1>3 DEF EntriesShared, Url
<1>5. CallsInOrder'
  BY <1>1, <1>2 DEF CallsInOrder
<1> QED
  BY <1>4, <1>5

LEMMA StepShared ==
  TypeOK /\ EntriesShared /\ CallsInOrder /\ [Next]_vars => EntriesShared' /\ CallsInOrder'
<1> SUFFICES ASSUME TypeOK, EntriesShared, CallsInOrder, [Next]_vars
             PROVE  EntriesShared' /\ CallsInOrder'
  OBVIOUS
<1>0. CASE UNCHANGED vars
  BY <1>0, QuietStep DEF vars
<1>1. ASSUME NEW c \in Calls, Call(c) PROVE EntriesShared' /\ CallsInOrder'
  BY <1>1, CallQuiet DEF Call
<1>2. ASSUME NEW c \in Calls, LookupHit(c) PROVE EntriesShared' /\ CallsInOrder'
  BY <1>2, QuietStep, ResolveQuiet DEF LookupHit
<1>3. ASSUME NEW c \in Calls, LookupMiss(c) PROVE EntriesShared' /\ CallsInOrder'
  BY <1>3, LookupMissStep
<1>4. ASSUME NEW c \in Calls, LookupNoContext(c) PROVE EntriesShared' /\ CallsInOrder'
  BY <1>4, QuietStep DEF LookupNoContext, Goto, TypeOK, rust
<1>5. ASSUME NEW c \in Calls, AcquireFirst(c) PROVE EntriesShared' /\ CallsInOrder'
  BY <1>5, AcquireFirstStep
<1>6. ASSUME NEW c \in Calls, AcquireAfter(c) PROVE EntriesShared' /\ CallsInOrder'
  BY <1>6, QuietStep, ResolveQuiet DEF AcquireAfter
<1>7. ASSUME NEW c \in Calls, AcquireAfterError(c) PROVE EntriesShared' /\ CallsInOrder'
  BY <1>7, QuietStep DEF AcquireAfterError, Goto, TypeOK, rust
<1>8. ASSUME NEW c \in Calls, FetchAnswered(c)
      PROVE  EntriesShared' /\ CallsInOrder'
  <2>1. now \in Responses
    BY FetchAssumption DEF TypeOK, Responses
  <2>2. pc[c] = "fetching" /\ Finish(c, now) /\ Resolve(c, now)
    BY <1>8 DEF FetchAnswered
  <2> QED
    BY <2>1, <2>2, FinishStep, ResolveQuiet DEF Labels
<1>9. ASSUME NEW c \in Calls, FetchFailed(c) PROVE EntriesShared' /\ CallsInOrder'
  <2>1. pc[c] = "fetching" /\ Finish(c, Failed) /\ pc'[c] = "direct" /\ UNCHANGED call
    BY <1>9 DEF FetchFailed, Goto, TypeOK
  <2>2. \A d \in Calls \ {c} : pc'[d] = pc[d]
    BY <1>9 DEF FetchFailed, Goto, TypeOK
  <2> QED
    BY <2>1, <2>2, FinishStep DEF Labels
<1>10. ASSUME NEW c \in Calls, SimpleAnswered(c) PROVE EntriesShared' /\ CallsInOrder'
  BY <1>10, QuietStep, ResolveQuiet DEF SimpleAnswered, rust
<1>11. ASSUME NEW c \in Calls, SimpleFailed(c) PROVE EntriesShared' /\ CallsInOrder'
  BY <1>11, QuietStep DEF SimpleFailed, Goto, TypeOK, rust
<1>12. ASSUME NEW c \in Calls, NEW outcome, DirectSettled(c, outcome)
       PROVE  EntriesShared' /\ CallsInOrder'
  <2>1. UNCHANGED <<inFlight, holder, result>>
    BY <1>12 DEF DirectSettled, rust
  <2>2. /\ pc'[c] \in {"resolved", "settled"}
        /\ \A d \in Calls : /\ d # c => pc'[d] = pc[d]
                            /\ call'[d].entry = call[d].entry
                            /\ call'[d].key = call[d].key
    <3>1. CASE Resolve(c, outcome)
      BY <3>1, ResolveQuiet
    <3>2. CASE Goto(c, "settled") /\ call' = [call EXCEPT ![c].answer = outcome]
      <4>1. call'[c].entry = call[c].entry /\ call'[c].key = call[c].key
        BY <3>2 DEF TypeOK, CallRecords
      <4> QED
        BY <3>2, <4>1 DEF Goto, TypeOK
    <3> QED
      BY <1>12, <3>1, <3>2 DEF DirectSettled
  <2> QED
    BY <2>1, <2>2, QuietStep
<1>13. CASE RunJob
  BY <1>13, RunJobQuiet
<1>14. CASE Tick
  BY <1>14, QuietStep DEF Tick, rust
<1>15. CASE Restart
  BY <1>15, RestartStep
<1> QED
  BY <1>0, <1>1, <1>2, <1>3, <1>4, <1>5, <1>6, <1>7, <1>8, <1>9, <1>10, <1>11, <1>12,
     <1>13, <1>14, <1>15
  DEF Next, Progress, Answered, Direct

-----------------------------------------------------------------------------
(* The invariant of the proofs holds throughout.                           *)
THEOREM FetchInvariant == Spec => []IInv
<1>1. Init => IInv
  BY InitIInv
<1>2. IInv /\ [Next]_vars => IInv'
  BY StepTypeOK, StepShared DEF IInv
<1> QED
  BY <1>1, <1>2, PTL DEF Spec

(* The state of the isolate and of the Rust cache keeps its type: the      *)
(* LRU list of op_fetch_with_cache never holds more than MaxEntries keys.  *)
THEOREM FetchTypeCorrect == Spec => []TypeOK
<1>1. IInv => TypeOK
  BY DEF IInv
<1> QED
  BY <1>1, FetchInvariant, PTL

(* GLOBAL_IN_FLIGHT_FETCHES: at most one request per cache key is on the   *)
(* network, for any number of calls, through failures and restarts.        *)
THEOREM OneFetch == Spec => []OneFetchPerKey
<1>1. IInv => OneFetchPerKey
  <2> SUFFICES ASSUME IInv, NEW c \in Calls, NEW d \in Calls,
                      pc[c] = "fetching", pc[d] = "fetching", Url(c) = Url(d)
               PROVE  c = d
    BY DEF OneFetchPerKey
  <2>1. /\ inFlight[Url(c)] = call[c].entry /\ holder[call[c].entry] = c
        /\ inFlight[Url(d)] = call[d].entry /\ holder[call[d].entry] = d
    BY FetchingEntry, FetchAssumption DEF IInv
  <2> QED
    BY <2>1
<1> QED
  BY <1>1, FetchInvariant, PTL

-----------------------------------------------------------------------------
(* The clones of a response come before the read of it.                    *)

LEMMA InitJobs == Init => LeadersLead /\ JobsInOrder
<1> SUFFICES ASSUME Init PROVE LeadersLead /\ JobsInOrder
  OBVIOUS
<1>1. LeadersLead
  BY DEF Init, LeadersLead, Blank, Leading
<1>2. JobsInOrder
  BY DEF Init, JobsInOrder
<1> QED
  BY <1>1, <1>2

(* What a job refers to.                                                   *)
LEMMA JobFields ==
  ASSUME TypeOK, NEW i \in DOMAIN jobs
  PROVE  /\ jobs[i].call \in Calls
         /\ jobs[i].leader \in Calls
<1>1. jobs \in Seq(Jobs) /\ DOMAIN jobs = 1..Len(jobs)
  BY DEF TypeOK
<1>2. jobs[i] \in Jobs
  BY <1>1, ElementOfSeq
<1> QED
  BY <1>2 DEF Jobs

LEMMA FollowerType ==
  ASSUME TypeOK, NEW c \in Calls, NEW i \in DOMAIN call[c].followers
  PROVE  call[c].followers[i] \in Calls
<1>1. call[c].followers \in Seq(Calls)
  BY CallFields DEF TypeOK
<1> QED
  BY <1>1, ElementOfSeq

(* A step that leaves the queue alone, and keeps what it relies on.        *)
LEMMA SameJobs ==
  ASSUME TypeOK, JobsInOrder, UNCHANGED <<jobs, consumed>>,
         \A d \in Calls :
           /\ Follows(d) => Follows(d)'
           /\ call[d].followers # <<>> => call'[d].followers # <<>>
           /\ pc[d] = "resolved" <=> pc'[d] = "resolved"
           /\ pc[d] = "settled" => pc'[d] = "settled"
  PROVE  JobsInOrder'
<1>1. \A i \in DOMAIN jobs : jobs[i].call \in Calls /\ jobs[i].leader \in Calls
  BY JobFields
<1>2. ASSUME NEW i \in DOMAIN jobs'
      PROVE  /\ jobs'[i].kind = "deliver" => pc'[jobs'[i].call] \in {"resolved", "settled"}
             /\ jobs'[i].kind = "read" => pc'[jobs'[i].call] = "settled"
  BY <1>1 DEF JobsInOrder
<1>3. ASSUME NEW i \in DOMAIN jobs', jobs'[i].kind = "clone"
      PROVE  /\ Follows(jobs[i].call)'
             /\ call'[jobs'[i].leader].followers # <<>>
             /\ pc'[jobs'[i].leader] \in {"resolved", "settled"}
             /\ jobs'[i].leader \notin consumed'
             /\ \A j \in DOMAIN jobs' :
                  j < i /\ jobs'[j].kind = "read" => jobs'[j].call # jobs'[i].leader
  BY <1>1, <1>3 DEF JobsInOrder
<1>4. \A c \in consumed' : pc'[c] = "settled"
  BY DEF JobsInOrder, TypeOK
<1>5. \A c \in Calls : pc'[c] = "resolved" =>
        \E i \in DOMAIN jobs' : jobs'[i].kind = "deliver" /\ jobs'[i].call = c
  BY DEF JobsInOrder
<1> QED
  BY <1>2, <1>3, <1>4, <1>5 DEF JobsInOrder

(* A step that adds no leader and no follower.                             *)
LEMMA SameLeaders ==
  ASSUME TypeOK, LeadersLead,
         \A k \in JsKeys : dedupe'[k] \in {dedupe[k], None},
         \A d \in Calls :
           /\ Follows(d) => Follows(d)'
           /\ call'[d].followers = call[d].followers
           /\ \/ /\ pc'[d] = pc[d]
                 /\ call'[d].key = call[d].key /\ call'[d].revalidate = call[d].revalidate
              \/ /\ \A k \in JsKeys : dedupe'[k] # d
                 /\ pc'[d] # "idle" /\ call'[d].revalidate \in Revalidates
                 /\ pc'[d] \in Leading \ {"direct"} => call'[d].revalidate # 0
              \/ /\ pc[d] \in Leading \ {"direct"} \/ call[d].revalidate # 0
                 /\ pc[d] # "idle" /\ pc'[d] \in Leading
                 /\ call'[d].key = call[d].key /\ call'[d].revalidate = call[d].revalidate
  PROVE  LeadersLead'
<1>1. ASSUME NEW k \in JsKeys, dedupe'[k] # None
      PROVE  /\ call'[dedupe'[k]].key = k
             /\ pc'[dedupe'[k]] \in Leading
             /\ call'[dedupe'[k]].revalidate # 0
  <2>1. dedupe'[k] = dedupe[k] /\ dedupe[k] \in Calls
    BY <1>1 DEF TypeOK
  <2> QED
    BY <1>1, <2>1 DEF LeadersLead
<1>2. ASSUME NEW c \in Calls
      PROVE  /\ pc'[c] = "idle" => call'[c].followers = <<>>
             /\ pc'[c] # "idle" => call'[c].revalidate \in Revalidates
             /\ pc'[c] \in Leading \ {"direct"} => call'[c].revalidate # 0
  BY DEF LeadersLead, Leading
<1>3. ASSUME NEW c \in Calls, NEW i \in DOMAIN call'[c].followers
      PROVE  Follows(call[c].followers[i])'
  BY <1>3, FollowerType DEF LeadersLead
<1> QED
  BY <1>1, <1>2, <1>3 DEF LeadersLead

(* A step of calls that have not resolved, and that settles none.          *)
LEMMA MoveStep ==
  ASSUME TypeOK, LeadersLead, JobsInOrder,
         UNCHANGED <<dedupe, jobs, consumed>>,
         \A d \in Calls :
           /\ call'[d].followers = call[d].followers
           /\ call'[d].key = call[d].key
           /\ call'[d].revalidate = call[d].revalidate
           /\ \/ pc'[d] = pc[d]
              \/ /\ pc[d] \in Leading \ {"direct", "resolved"}
                 /\ pc'[d] \in Leading \ {"resolved"}
  PROVE  LeadersLead' /\ JobsInOrder'
<1>1. \A d \in Calls : Follows(d) => Follows(d)'
  BY DEF Follows, Leading
<1>2. LeadersLead'
  BY <1>1, SameLeaders DEF Leading
<1>3. JobsInOrder'
  BY <1>1, SameJobs DEF Leading
<1> QED
  BY <1>2, <1>3

(* An uncached fetch is in no map.                                         *)
LEMMA UncachedJobs ==
  ASSUME TypeOK, LeadersLead, JobsInOrder, NEW c \in Calls, NEW k \in JsKeys,
         CallUncached(c, k)
  PROVE  LeadersLead' /\ JobsInOrder'
<1>1. /\ pc[c] = "idle" /\ 0 \in Revalidates
      /\ UNCHANGED <<dedupe, jobs, consumed>>
  BY DEF CallUncached
<1>2. /\ pc'[c] = "direct" /\ call'[c].revalidate = 0
      /\ call'[c].followers = call[c].followers
      /\ \A d \in Calls \ {c} : pc'[d] = pc[d] /\ call'[d] = call[d]
  BY DEF CallUncached, Goto, TypeOK, CallRecords
<1>3. \A d \in Calls : Follows(d) => d # c /\ Follows(d)'
  BY <1>1, <1>2 DEF Follows
<1>4. \A k1 \in JsKeys : dedupe[k1] # c
  BY <1>1, FetchAssumption DEF LeadersLead, Leading
<1>5. LeadersLead'
  BY <1>1, <1>2, <1>3, <1>4, SameLeaders
<1>6. JobsInOrder'
  BY <1>1, <1>2, <1>3, SameJobs
<1> QED
  BY <1>5, <1>6

(* The first call of a key enters the map.                                 *)
LEMMA LeadingJobs ==
  ASSUME TypeOK, LeadersLead, JobsInOrder, NEW c \in Calls, NEW k \in JsKeys,
         NEW r \in Revalidates \ {0}, CallLeading(c, k, r)
  PROVE  LeadersLead' /\ JobsInOrder'
<1>1. /\ pc[c] = "idle" /\ dedupe[k] = None
      /\ UNCHANGED <<jobs, consumed>>
  BY DEF CallLeading
<1>2. /\ pc'[c] = "op" /\ call'[c].revalidate = r /\ call'[c].key = k
      /\ call'[c].followers = call[c].followers
      /\ \A d \in Calls \ {c} : pc'[d] = pc[d] /\ call'[d] = call[d]
      /\ dedupe'[k] = c
      /\ \A k1 \in JsKeys \ {k} : dedupe'[k1] = dedupe[k1]
  BY DEF CallLeading, Goto, TypeOK, CallRecords
<1>3. \A d \in Calls : Follows(d) => d # c /\ Follows(d)'
  BY <1>1, <1>2 DEF Follows
<1>4. \A k1 \in JsKeys : dedupe[k1] # None => dedupe[k1] \in Calls \ {c}
  <2>1. \A k1 \in JsKeys : dedupe[k1] \in Calls \cup {None}
    BY DEF TypeOK
  <2>2. \A k1 \in JsKeys : dedupe[k1] # None => pc[dedupe[k1]] \in Leading
    BY DEF LeadersLead
  <2>3. pc[c] \notin Leading
    BY <1>1 DEF Leading
  <2> QED
    BY <2>1, <2>2, <2>3
<1>5. LeadersLead'
  <2>1. ASSUME NEW k1 \in JsKeys, dedupe'[k1] # None
        PROVE  /\ call'[dedupe'[k1]].key = k1
               /\ pc'[dedupe'[k1]] \in Leading
               /\ call'[dedupe'[k1]].revalidate # 0
    BY <1>1, <1>2, <1>4, <2>1 DEF LeadersLead, Leading
  <2>2. ASSUME NEW d \in Calls
        PROVE  /\ pc'[d] = "idle" => call'[d].followers = <<>>
               /\ pc'[d] # "idle" => call'[d].revalidate \in Revalidates
               /\ pc'[d] \in Leading \ {"direct"} => call'[d].revalidate # 0
    BY <1>1, <1>2 DEF LeadersLead
  <2>3. ASSUME NEW d \in Calls, NEW i \in DOMAIN call'[d].followers
        PROVE  Follows(call[d].followers[i])'
    BY <1>2, <1>3, <2>3, FollowerType DEF LeadersLead
  <2> QED
    BY <2>1, <2>2, <2>3 DEF LeadersLead
<1>6. JobsInOrder'
  BY <1>1, <1>2, <1>3, SameJobs
<1> QED
  BY <1>5, <1>6

(* A later call is noted with the leader, whose body nobody has read.      *)
LEMMA FollowingJobs ==
  ASSUME TypeOK, LeadersLead, JobsInOrder, NEW c \in Calls, NEW k \in JsKeys,
         NEW r \in Revalidates \ {0}, CallFollowing(c, k, r)
  PROVE  LeadersLead' /\ JobsInOrder'
<1> DEFINE leader == dedupe[k]
           begun == [call EXCEPT ![c].key = k, ![c].revalidate = r, ![c].at = now]
<1>1. /\ pc[c] = "idle" /\ leader \in Calls /\ leader # None
      /\ UNCHANGED <<dedupe, consumed>>
      /\ jobs' = IF pc[leader] \in {"resolved", "settled"}
                 THEN Append(jobs, Job(c, "clone", leader)) ELSE jobs
      /\ pc' = [pc EXCEPT ![c] = "following"]
  BY DEF CallFollowing, TypeOK, Goto
<1>2. call' = [begun EXCEPT ![leader].followers = Append(@, c)]
  BY FollowedCalls
<1>3. /\ pc[leader] \in Leading /\ leader # c
      /\ call[c].followers = <<>> /\ call[leader].followers \in Seq(Calls)
  BY <1>1, CallFields DEF LeadersLead, Leading, TypeOK
<1>4. /\ begun \in [Calls -> CallRecords]
      /\ begun[c].revalidate = r /\ begun[c].followers = <<>>
      /\ \A d \in Calls \ {c} : begun[d] = call[d]
  <2>1. begun \in [Calls -> CallRecords]
    BY ArgumentsType
  <2>2. call[c] \in CallRecords /\ call[c].followers = <<>>
    BY <1>3 DEF TypeOK
  <2>3. begun[c] = [call[c] EXCEPT !.key = k, !.revalidate = r, !.at = now]
    BY DEF TypeOK
  <2>4. begun[c].revalidate = r /\ begun[c].followers = <<>>
    BY <2>2, <2>3 DEF CallRecords
  <2>5. \A d \in Calls \ {c} : begun[d] = call[d]
    BY DEF TypeOK
  <2> HIDE DEF begun
  <2> QED
    BY <2>1, <2>4, <2>5
<1> HIDE DEF begun
<1>5. /\ call'[c].revalidate = r /\ call'[c].followers = <<>>
      /\ call'[leader].followers = Append(call[leader].followers, c)
      /\ call'[leader].key = call[leader].key
      /\ call'[leader].revalidate = call[leader].revalidate
      /\ \A d \in Calls \ {c, leader} : call'[d] = call[d]
  <2>1. begun[leader] \in CallRecords /\ begun[leader] = call[leader]
    BY <1>1, <1>3, <1>4
  <2>2. call'[leader] = [begun[leader] EXCEPT !.followers = Append(@, c)]
    BY <1>1, <1>2, <1>4
  <2>3. /\ call'[leader].followers = Append(begun[leader].followers, c)
        /\ call'[leader].key = begun[leader].key
        /\ call'[leader].revalidate = begun[leader].revalidate
    BY <2>1, <2>2 DEF CallRecords
  <2>4. \A d \in Calls \ {leader} : call'[d] = begun[d]
    BY <1>1, <1>2, <1>4
  <2> QED
    BY <1>1, <1>3, <1>4, <2>1, <2>3, <2>4
<1>6. /\ pc'[c] = "following"
      /\ \A d \in Calls \ {c} : pc'[d] = pc[d]
  BY <1>1 DEF TypeOK
<1>7. /\ Len(call'[leader].followers) = Len(call[leader].followers) + 1
      /\ Len(call[leader].followers) \in Nat
      /\ DOMAIN call'[leader].followers = 1..Len(call'[leader].followers)
      /\ DOMAIN call[leader].followers = 1..Len(call[leader].followers)
      /\ \A i \in 1..Len(call[leader].followers) :
           call'[leader].followers[i] = call[leader].followers[i]
      /\ call'[leader].followers[Len(call[leader].followers) + 1] = c
      /\ call'[leader].followers # <<>>
  BY <1>3, <1>5, AppendProperties
<1>8. Follows(c)' /\ \A d \in Calls : Follows(d) => d \notin {c, leader} /\ Follows(d)'
  BY <1>1, <1>3, <1>5, <1>6 DEF Follows, Leading
<1>9. LeadersLead'
  <2>1. ASSUME NEW k1 \in JsKeys, dedupe'[k1] # None
        PROVE  /\ call'[dedupe'[k1]].key = k1
               /\ pc'[dedupe'[k1]] \in Leading
               /\ call'[dedupe'[k1]].revalidate # 0
    <3>1. dedupe[k1] \in Calls /\ pc[dedupe[k1]] \in Leading
      BY <1>1, <2>1 DEF LeadersLead, TypeOK
    <3>2. dedupe[k1] # c
      BY <1>1, <3>1 DEF Leading
    <3> QED
      BY <1>1, <1>5, <1>6, <2>1, <3>1, <3>2 DEF LeadersLead
  <2>2. ASSUME NEW d \in Calls
        PROVE  /\ pc'[d] = "idle" => call'[d].followers = <<>>
               /\ pc'[d] # "idle" => call'[d].revalidate \in Revalidates
               /\ pc'[d] \in Leading \ {"direct"} => call'[d].revalidate # 0
    BY <1>1, <1>3, <1>5, <1>6 DEF LeadersLead, Leading
  <2>3. ASSUME NEW d \in Calls, NEW i \in DOMAIN call'[d].followers
        PROVE  Follows(call[d].followers[i])'
    <3>1. CASE d = leader
      <4>1. CASE i \in 1..Len(call[leader].followers)
        BY <1>7, <1>8, <3>1, <4>1, FollowerType DEF LeadersLead
      <4>2. CASE i = Len(call[leader].followers) + 1
        BY <1>7, <1>8, <3>1, <4>2
      <4> QED
        BY <1>7, <2>3, <3>1, <4>1, <4>2
    <3>2. CASE d # leader
      <4>1. d # c
        BY <1>5, <2>3
      <4> QED
        BY <1>5, <1>8, <2>3, <3>2, <4>1, FollowerType DEF LeadersLead
    <3> QED
      BY <3>1, <3>2
  <2> QED
    BY <2>1, <2>2, <2>3 DEF LeadersLead, Follows
<1>10. CASE pc[leader] # "resolved"
  <2>1. jobs' = jobs
    BY <1>1, <1>3, <1>10 DEF Leading
  <2>2. \A d \in Calls : call[d].followers # <<>> => call'[d].followers # <<>>
    BY <1>3, <1>5, <1>7
  <2>3. \A d \in Calls : /\ pc[d] = "resolved" <=> pc'[d] = "resolved"
                         /\ pc[d] = "settled" => pc'[d] = "settled"
    BY <1>1, <1>6
  <2> QED
    BY <1>1, <1>8, <1>9, <2>1, <2>2, <2>3, SameJobs
<1>11. CASE pc[leader] = "resolved"
  <2>1. jobs' = Append(jobs, Job(c, "clone", leader)) /\ jobs \in Seq(Jobs)
    BY <1>1, <1>11 DEF TypeOK
  <2>2. /\ Len(jobs') = Len(jobs) + 1 /\ Len(jobs) \in Nat
        /\ DOMAIN jobs' = 1..(Len(jobs) + 1) /\ DOMAIN jobs = 1..Len(jobs)
        /\ \A i \in DOMAIN jobs : jobs'[i] = jobs[i]
        /\ jobs'[Len(jobs) + 1] = Job(c, "clone", leader)
    BY <1>1, <2>1, JobType, AppendProperties
  <2>3. \A i \in DOMAIN jobs : jobs[i].call \in Calls /\ jobs[i].leader \in Calls
    BY JobFields
  <2>4. leader \notin consumed /\ \A j \in DOMAIN jobs : jobs[j].kind = "read" => jobs[j].call # leader
    BY <1>11 DEF JobsInOrder
  <2>5. JobsInOrder'
    <3>1. ASSUME NEW i \in DOMAIN jobs'
          PROVE  /\ jobs'[i].kind = "deliver" => pc'[jobs'[i].call] \in {"resolved", "settled"}
                 /\ jobs'[i].kind = "read" => pc'[jobs'[i].call] = "settled"
      <4>1. CASE i \in DOMAIN jobs
        BY <1>1, <1>6, <2>2, <2>3, <4>1 DEF JobsInOrder
      <4>2. CASE i = Len(jobs) + 1
        BY <2>2, <4>2 DEF Job
      <4> QED
        BY <2>2, <4>1, <4>2
    <3>2. ASSUME NEW i \in DOMAIN jobs', jobs'[i].kind = "clone"
          PROVE  /\ Follows(jobs[i].call)'
                 /\ call'[jobs'[i].leader].followers # <<>>
                 /\ pc'[jobs'[i].leader] \in {"resolved", "settled"}
                 /\ jobs'[i].leader \notin consumed'
                 /\ \A j \in DOMAIN jobs' :
                      j < i /\ jobs'[j].kind = "read" => jobs'[j].call # jobs'[i].leader
      <4>1. CASE i \in DOMAIN jobs
        <5>1. /\ jobs'[i] = jobs[i]
              /\ \A j \in DOMAIN jobs' : j < i => j \in DOMAIN jobs /\ jobs'[j] = jobs[j]
          BY <2>2, <4>1
        <5>2. /\ Follows(jobs[i].call) /\ call[jobs[i].leader].followers # <<>>
              /\ pc[jobs[i].leader] \in {"resolved", "settled"}
              /\ jobs[i].leader \notin consumed
              /\ \A j \in DOMAIN jobs :
                   j < i /\ jobs[j].kind = "read" => jobs[j].call # jobs[i].leader
          BY <3>2, <4>1, <5>1 DEF JobsInOrder
        <5>3. jobs[i].leader # c
          BY <1>1, <5>2
        <5> QED
          BY <1>1, <1>5, <1>6, <1>7, <1>8, <2>3, <4>1, <5>1, <5>2, <5>3
      <4>2. CASE i = Len(jobs) + 1
        <5>1. jobs'[i].call = c /\ jobs'[i].leader = leader
          BY <2>2, <4>2 DEF Job
        <5>2. \A j \in DOMAIN jobs' : j < i => j \in DOMAIN jobs /\ jobs'[j] = jobs[j]
          BY <2>2, <4>2
        <5> QED
          BY <1>1, <1>3, <1>6, <1>7, <1>8, <1>11, <2>4, <5>1, <5>2
      <4> QED
        BY <2>2, <3>2, <4>1, <4>2
    <3>3. \A d \in consumed' : pc'[d] = "settled"
      BY <1>1, <1>6 DEF JobsInOrder, TypeOK
    <3>4. \A d \in Calls : pc'[d] = "resolved" =>
            \E i \in DOMAIN jobs' : jobs'[i].kind = "deliver" /\ jobs'[i].call = d
      <4> SUFFICES ASSUME NEW d \in Calls, pc'[d] = "resolved"
                   PROVE  \E i \in DOMAIN jobs' : jobs'[i].kind = "deliver" /\ jobs'[i].call = d
        OBVIOUS
      <4>1. PICK i \in DOMAIN jobs : jobs[i].kind = "deliver" /\ jobs[i].call = d
        BY <1>6 DEF JobsInOrder
      <4> QED
        BY <2>2, <4>1
    <3> QED
      BY <3>1, <3>2, <3>3, <3>4 DEF JobsInOrder, Follows
  <2> QED
    BY <1>9, <2>5
<1> QED
  BY <1>10, <1>11

(* The reactions to a promise: its delivery, and then the followers.       *)
LEMMA ReactionsAt ==
  ASSUME TypeOK, NEW c \in Calls, NEW outcome
  PROVE  /\ Reactions(c, outcome) \in Seq(Jobs)
         /\ Len(call[c].followers) \in Nat
         /\ DOMAIN call[c].followers = 1..Len(call[c].followers)
         /\ Len(Reactions(c, outcome)) = 1 + Len(call[c].followers)
         /\ Reactions(c, outcome)[1] = Job(c, "deliver", c)
         /\ \A i \in 1..Len(call[c].followers) :
              Reactions(c, outcome)[i + 1] = Job(call[c].followers[i], "clone", c)
<1> DEFINE fs == call[c].followers
           clones == [i \in DOMAIN fs |-> Job(fs[i], "clone", c)]
           first == <<Job(c, "deliver", c)>>
<1>1. fs \in Seq(Calls)
  BY CallFields DEF TypeOK
<1>2. DOMAIN fs = 1..Len(fs) /\ Len(fs) \in Nat
  BY <1>1
<1>3. \A i \in 1..Len(fs) : Job(fs[i], "clone", c) \in Jobs
  BY <1>1, ElementOfSeq, JobType
<1>4. clones \in Seq(Jobs) /\ Len(clones) = Len(fs)
  <2>1. clones \in [1..Len(fs) -> Jobs]
    BY <1>2, <1>3
  <2>2. clones \in Seq(Jobs)
    BY <1>2, <2>1, SeqDef
  <2> QED
    BY <1>2, <2>2, LenProperties
<1>5. first \in Seq(Jobs) /\ Len(first) = 1 /\ first[1] = Job(c, "deliver", c)
  BY JobType
<1>6. \A i \in 1..Len(fs) : clones[i] = Job(fs[i], "clone", c)
  BY <1>2
<1>7. Reactions(c, outcome) = first \o clones
  BY DEF Reactions
<1> HIDE DEF clones, first, fs
<1>8. /\ first \o clones \in Seq(Jobs)
      /\ Len(first \o clones) = 1 + Len(fs)
      /\ (first \o clones)[1] = first[1]
      /\ \A i \in 1..Len(fs) : (first \o clones)[i + 1] = clones[i]
  <2>1. /\ first \o clones \in Seq(Jobs)
        /\ Len(first \o clones) = Len(first) + Len(clones)
        /\ \A i \in 1..Len(first) : (first \o clones)[i] = first[i]
        /\ \A i \in 1..Len(clones) : (first \o clones)[Len(first) + i] = clones[i]
    <3>1. clones \in Seq(Jobs) /\ first \in Seq(Jobs)
      BY <1>4, <1>5
    <3> QED
      BY <3>1, ConcatAt
  <2>2. \A i \in 1..Len(fs) : Len(first) + i = i + 1
    BY <1>2, <1>5
  <2> QED
    BY <1>2, <1>4, <1>5, <2>1, <2>2
<1> QED
  BY <1>2, <1>5, <1>6, <1>7, <1>8 DEF fs

(* A promise that settles appends its reactions; it has no reaction yet.   *)
LEMMA ResolveJobs ==
  ASSUME TypeOK, LeadersLead, JobsInOrder, NEW c \in Calls,
         NEW outcome \in Responses \cup {Failed},
         pc[c] \in Leading \ {"resolved"}, call[c].revalidate # 0,
         Resolve(c, outcome), UNCHANGED <<dedupe, consumed>>
  PROVE  LeadersLead' /\ JobsInOrder'
<1> DEFINE fs == call[c].followers
           R == Reactions(c, outcome)
           n == Len(jobs)
<1>1. /\ R \in Seq(Jobs) /\ Len(fs) \in Nat /\ DOMAIN fs = 1..Len(fs)
      /\ Len(R) = 1 + Len(fs) /\ R[1] = Job(c, "deliver", c)
      /\ \A i \in 1..Len(fs) : R[i + 1] = Job(fs[i], "clone", c)
  BY ReactionsAt
<1>2. /\ pc'[c] = "resolved" /\ jobs' = jobs \o R
      /\ \A d \in Calls \ {c} : pc'[d] = pc[d] /\ call'[d] = call[d]
      /\ call'[c].followers = fs /\ call'[c].key = call[c].key
      /\ call'[c].revalidate = call[c].revalidate
  BY DEF Resolve, Goto, TypeOK, CallRecords
<1>3. \A d \in Calls : Follows(d) => d # c /\ Follows(d)'
  BY <1>2 DEF Follows, Leading
<1>4. LeadersLead'
  BY <1>2, <1>3, SameLeaders DEF Leading
<1>5. jobs \in Seq(Jobs) /\ n \in Nat /\ DOMAIN jobs = 1..n
  BY DEF TypeOK
<1>6. \A i \in DOMAIN jobs : jobs[i].call \in Calls /\ jobs[i].leader \in Calls
  BY JobFields
<1> HIDE DEF R, n
<1>7. /\ DOMAIN jobs' = 1..(n + 1 + Len(fs))
      /\ \A i \in 1..n : jobs'[i] = jobs[i]
      /\ \A i \in 1..(1 + Len(fs)) : jobs'[n + i] = R[i]
  <2>1. /\ DOMAIN (jobs \o R) = 1..(Len(jobs) + Len(R))
        /\ \A i \in 1..Len(jobs) : (jobs \o R)[i] = jobs[i]
        /\ \A i \in 1..Len(R) : (jobs \o R)[Len(jobs) + i] = R[i]
    <3>1. jobs \in Seq(Jobs) /\ R \in Seq(Jobs)
      BY <1>1, <1>5
    <3> QED
      BY <3>1, ConcatAt
  <2>2. n + (1 + Len(fs)) = n + 1 + Len(fs)
    <3>1. n \in Nat /\ Len(fs) \in Nat
      BY <1>1, <1>5
    <3> HIDE DEF fs
    <3> QED
      BY <3>1
  <2> QED
    BY <1>1, <1>2, <2>1, <2>2 DEF n
<1> HIDE DEF fs
<1>8. jobs'[n + 1] = Job(c, "deliver", c) /\ n + 1 \in DOMAIN jobs'
  BY <1>1, <1>5, <1>7
<1>9. ASSUME NEW i \in DOMAIN jobs', i \notin 1..(n + 1)
      PROVE  /\ i - n - 1 \in 1..Len(fs) /\ fs # <<>>
             /\ jobs'[i] = Job(fs[i - n - 1], "clone", c)
  <2>1. i - n - 1 \in 1..Len(fs) /\ i - n \in 1..(1 + Len(fs)) /\ n + (i - n) = i
    BY <1>1, <1>5, <1>7, <1>9
  <2>2. jobs'[i] = R[i - n] /\ R[(i - n - 1) + 1] = Job(fs[i - n - 1], "clone", c)
    BY <1>1, <1>7, <2>1
  <2>3. (i - n - 1) + 1 = i - n
    BY <1>5, <1>7
  <2>4. fs # <<>>
    BY <1>1, <2>1
  <2> QED
    BY <2>1, <2>2, <2>3, <2>4
<1>10. \A i \in DOMAIN jobs' : i \in 1..n \/ i = n + 1 \/ i \notin 1..(n + 1)
  BY <1>5
<1>11. c \notin consumed /\ \A j \in DOMAIN jobs : jobs[j].kind = "read" => jobs[j].call # c
  BY DEF JobsInOrder, Leading
<1>12. \A j \in DOMAIN jobs' : jobs'[j].kind = "read" => j \in 1..n
  BY <1>8, <1>9, <1>10 DEF Job
<1>13. JobsInOrder'
  <2>1. ASSUME NEW i \in DOMAIN jobs'
        PROVE  /\ jobs'[i].kind = "deliver" => pc'[jobs'[i].call] \in {"resolved", "settled"}
               /\ jobs'[i].kind = "read" => pc'[jobs'[i].call] = "settled"
    <3>1. CASE i \in 1..n
      <4>1. jobs'[i] = jobs[i] /\ i \in DOMAIN jobs
        BY <1>5, <1>7, <3>1
      <4>2. /\ jobs[i].kind = "deliver" => pc[jobs[i].call] \in {"resolved", "settled"}
            /\ jobs[i].kind = "read" => pc[jobs[i].call] = "settled"
        BY <4>1 DEF JobsInOrder
      <4>3. jobs[i].call = c \/ pc'[jobs[i].call] = pc[jobs[i].call]
        BY <1>2, <1>6, <4>1
      <4> QED
        BY <1>2, <4>1, <4>2, <4>3 DEF Leading
    <3>2. CASE i = n + 1
      BY <1>2, <1>8, <3>2 DEF Job
    <3>3. CASE i \notin 1..(n + 1)
      BY <1>9, <3>3 DEF Job
    <3> QED
      BY <1>10, <3>1, <3>2, <3>3
  <2>2. ASSUME NEW i \in DOMAIN jobs', jobs'[i].kind = "clone"
        PROVE  /\ Follows(jobs[i].call)'
               /\ call'[jobs'[i].leader].followers # <<>>
               /\ pc'[jobs'[i].leader] \in {"resolved", "settled"}
               /\ jobs'[i].leader \notin consumed'
               /\ \A j \in DOMAIN jobs' :
                    j < i /\ jobs'[j].kind = "read" => jobs'[j].call # jobs'[i].leader
    <3>1. CASE i \in 1..n
      <4>1. jobs'[i] = jobs[i] /\ i \in DOMAIN jobs
        BY <1>5, <1>7, <3>1
      <4>2. /\ Follows(jobs[i].call) /\ call[jobs[i].leader].followers # <<>>
            /\ pc[jobs[i].leader] \in {"resolved", "settled"}
            /\ jobs[i].leader \notin consumed
            /\ \A j \in DOMAIN jobs :
                 j < i /\ jobs[j].kind = "read" => jobs[j].call # jobs[i].leader
        BY <2>2, <4>1 DEF JobsInOrder
      <4>3. /\ jobs[i].leader \in Calls /\ jobs[i].leader # c
            /\ jobs[i].call \in Calls
        BY <1>6, <4>1, <4>2 DEF Leading
      <4>4. \A j \in DOMAIN jobs' : jobs'[j].kind = "read" =>
              j \in DOMAIN jobs /\ jobs'[j] = jobs[j]
        BY <1>5, <1>7, <1>12
      <4> QED
        BY <1>2, <1>3, <4>1, <4>2, <4>3, <4>4
    <3>2. CASE i = n + 1
      BY <1>8, <2>2, <3>2 DEF Job
    <3>3. CASE i \notin 1..(n + 1)
      <4>1. jobs'[i].call = fs[i - n - 1] /\ jobs'[i].leader = c
        BY <1>9, <3>3 DEF Job
      <4>2. Follows(fs[i - n - 1]) /\ fs[i - n - 1] \in Calls
        BY <1>1, <1>9, <3>3, FollowerType DEF LeadersLead, fs
      <4>3. \A j \in DOMAIN jobs' : jobs'[j].kind = "read" => jobs'[j].call # c
        BY <1>5, <1>7, <1>11, <1>12
      <4> QED
        BY <1>2, <1>3, <1>9, <1>11, <3>3, <4>1, <4>2, <4>3
    <3> QED
      BY <1>10, <3>1, <3>2, <3>3
  <2>3. \A d \in consumed' : pc'[d] = "settled"
    BY <1>2, <1>11 DEF JobsInOrder, TypeOK
  <2>4. \A d \in Calls : pc'[d] = "resolved" =>
          \E i \in DOMAIN jobs' : jobs'[i].kind = "deliver" /\ jobs'[i].call = d
    <3> SUFFICES ASSUME NEW d \in Calls, pc'[d] = "resolved"
                 PROVE  \E i \in DOMAIN jobs' : jobs'[i].kind = "deliver" /\ jobs'[i].call = d
      OBVIOUS
    <3>1. CASE d = c
      BY <1>8, <3>1 DEF Job
    <3>2. CASE d # c
      <4>1. PICK i \in DOMAIN jobs : jobs[i].kind = "deliver" /\ jobs[i].call = d
        BY <1>2, <3>2 DEF JobsInOrder
      <4>2. i \in DOMAIN jobs' /\ jobs'[i] = jobs[i]
        BY <1>1, <1>5, <1>7
      <4> QED
        BY <4>1, <4>2
    <3> QED
      BY <3>1, <3>2
  <2> QED
    BY <2>1, <2>2, <2>3, <2>4 DEF JobsInOrder, Follows
<1> QED
  BY <1>4, <1>13

(* What the queue holds after its head is run, and a read appended or not. *)
LEMMA QueueAfter ==
  ASSUME TypeOK, jobs # <<>>, NEW job \in Jobs,
         jobs' \in {Tail(jobs), Append(Tail(jobs), job)}
  PROVE  /\ Len(jobs) \in Nat \ {0} /\ DOMAIN jobs = 1..Len(jobs)
         /\ Head(jobs) = jobs[1] /\ Head(jobs) \in Jobs
         /\ \A i \in 1..(Len(jobs) - 1) : i \in DOMAIN jobs' /\ jobs'[i] = jobs[i + 1]
         /\ \A i \in DOMAIN jobs' :
              \/ i \in 1..(Len(jobs) - 1)
              \/ i = Len(jobs) /\ jobs' = Append(Tail(jobs), job) /\ jobs'[i] = job
         /\ jobs' = Append(Tail(jobs), job) =>
              Len(jobs) \in DOMAIN jobs' /\ jobs'[Len(jobs)] = job
<1>1. jobs \in Seq(Jobs) /\ Len(jobs) \in Nat \ {0} /\ DOMAIN jobs = 1..Len(jobs)
  BY EmptySeq DEF TypeOK
<1>2. /\ Head(jobs) = jobs[1] /\ Head(jobs) \in Jobs
      /\ Tail(jobs) \in Seq(Jobs) /\ Len(Tail(jobs)) = Len(jobs) - 1
      /\ \A i \in 1..(Len(jobs) - 1) : Tail(jobs)[i] = jobs[i + 1]
  BY <1>1, HeadTailProperties
<1>3. CASE jobs' = Tail(jobs)
  <2>1. DOMAIN jobs' = 1..(Len(jobs) - 1)
    BY <1>2, <1>3
  <2>2. jobs' # Append(Tail(jobs), job)
    BY <1>2, <1>3, AppendLonger
  <2> QED
    BY <1>1, <1>2, <1>3, <2>1, <2>2
<1>4. CASE jobs' = Append(Tail(jobs), job)
  <2>1. /\ Len(jobs') = Len(jobs) /\ DOMAIN jobs' = 1..Len(jobs)
        /\ \A i \in 1..(Len(jobs) - 1) : jobs'[i] = Tail(jobs)[i]
        /\ jobs'[Len(jobs)] = job
    <3>1. /\ Append(Tail(jobs), job) \in Seq(Jobs)
          /\ Len(Append(Tail(jobs), job)) = Len(Tail(jobs)) + 1
          /\ \A i \in 1..Len(Tail(jobs)) : Append(Tail(jobs), job)[i] = Tail(jobs)[i]
          /\ Append(Tail(jobs), job)[Len(Tail(jobs)) + 1] = job
      BY <1>2, AppendProperties
    <3>2. Len(Tail(jobs)) + 1 = Len(jobs) /\ Len(Tail(jobs)) = Len(jobs) - 1
      BY <1>1, <1>2
    <3> QED
      BY <1>4, <3>1, <3>2
  <2> QED
    BY <1>1, <1>2, <1>4, <2>1
<1> QED
  BY <1>3, <1>4

(* A step that runs the head of the queue keeps the order of the rest.     *)
LEMMA HeadStep ==
  ASSUME TypeOK, LeadersLead, JobsInOrder, jobs # <<>>, NEW c \in Calls,
         jobs' \in {Tail(jobs), Append(Tail(jobs), Job(c, "read", c))},
         \A d \in Calls :
           /\ Follows(d) => Follows(d)'
           /\ call'[d].followers = call[d].followers
           /\ pc'[d] = "resolved" => pc[d] = "resolved"
           /\ pc[d] = "resolved" => pc'[d] \in {"resolved", "settled"}
           /\ pc[d] = "settled" => pc'[d] = "settled"
           /\ Head(jobs).kind = "deliver" /\ Head(jobs).call = d => pc'[d] = "settled",
         \/ consumed' = consumed
         \/ Head(jobs).kind = "read" /\ consumed' = consumed \cup {Head(jobs).call},
         jobs' = Tail(jobs) \/ pc'[c] = "settled"
  PROVE  JobsInOrder'
<1> DEFINE job == Job(c, "read", c)
           n == Len(jobs)
<1>1. job \in Jobs
  BY JobType
<1>2. /\ n \in Nat \ {0} /\ DOMAIN jobs = 1..n
      /\ Head(jobs) = jobs[1] /\ Head(jobs) \in Jobs
      /\ \A i \in 1..(n - 1) : i \in DOMAIN jobs' /\ jobs'[i] = jobs[i + 1]
      /\ \A i \in DOMAIN jobs' :
           \/ i \in 1..(n - 1)
           \/ i = n /\ jobs' = Append(Tail(jobs), job) /\ jobs'[i] = job
  BY <1>1, QueueAfter
<1>3. \A i \in DOMAIN jobs : jobs[i].call \in Calls /\ jobs[i].leader \in Calls
  BY JobFields
<1>4. \A i \in 1..(n - 1) : i + 1 \in DOMAIN jobs /\ i + 1 > 1
  BY <1>2
<1>5. job.kind = "read" /\ job.call = c
  BY DEF Job
<1>6. 1 \in DOMAIN jobs
  BY <1>2
<1> HIDE DEF job, n
<1>7. ASSUME NEW i \in DOMAIN jobs'
      PROVE  /\ jobs'[i].kind = "deliver" => pc'[jobs'[i].call] \in {"resolved", "settled"}
             /\ jobs'[i].kind = "read" => pc'[jobs'[i].call] = "settled"
  <2>1. CASE i \in 1..(n - 1)
    <3>1. i + 1 \in DOMAIN jobs /\ jobs'[i] = jobs[i + 1]
      BY <1>2, <1>4, <2>1
    <3>2. /\ jobs[i + 1].kind = "deliver" => pc[jobs[i + 1].call] \in {"resolved", "settled"}
          /\ jobs[i + 1].kind = "read" => pc[jobs[i + 1].call] = "settled"
      BY <3>1 DEF JobsInOrder
    <3> QED
      BY <1>3, <3>1, <3>2
  <2>2. CASE i = n /\ jobs' = Append(Tail(jobs), job) /\ jobs'[i] = job
    <3>1. jobs' # Tail(jobs) => pc'[c] = "settled"
      OBVIOUS
    <3>2. jobs' # Tail(jobs)
      <4>1. Tail(jobs) \in Seq(Jobs)
        BY HeadTailProperties DEF TypeOK
      <4> QED
        BY <1>1, <2>2, <4>1, AppendLonger
    <3> QED
      BY <1>5, <2>2, <3>1, <3>2
  <2> QED
    BY <1>2, <2>1, <2>2
<1>8. ASSUME NEW i \in DOMAIN jobs', jobs'[i].kind = "clone"
      PROVE  /\ Follows(jobs[i].call)'
             /\ call'[jobs'[i].leader].followers # <<>>
             /\ pc'[jobs'[i].leader] \in {"resolved", "settled"}
             /\ jobs'[i].leader \notin consumed'
             /\ \A j \in DOMAIN jobs' :
                  j < i /\ jobs'[j].kind = "read" => jobs'[j].call # jobs'[i].leader
  <2>1. i \in 1..(n - 1) /\ jobs'[i] = jobs[i + 1] /\ i + 1 \in DOMAIN jobs /\ i \in Nat
    BY <1>2, <1>4, <1>5, <1>8
  <2>2. /\ Follows(jobs[i + 1].call) /\ call[jobs[i + 1].leader].followers # <<>>
        /\ pc[jobs[i + 1].leader] \in {"resolved", "settled"}
        /\ jobs[i + 1].leader \notin consumed
        /\ \A j \in DOMAIN jobs :
             j < i + 1 /\ jobs[j].kind = "read" => jobs[j].call # jobs[i + 1].leader
    BY <1>8, <2>1 DEF JobsInOrder
  <2>3. jobs[i + 1].leader \in Calls /\ jobs[i + 1].call \in Calls
    BY <1>3, <2>1
  <2>4. ASSUME NEW j \in DOMAIN jobs', j < i, jobs'[j].kind = "read"
        PROVE  jobs'[j].call # jobs'[i].leader
    <3>1. j \in 1..(n - 1)
      BY <1>2, <2>1, <2>4
    <3>2. j + 1 \in DOMAIN jobs /\ jobs'[j] = jobs[j + 1]
      BY <1>2, <1>4, <3>1
    <3>3. j + 1 < i + 1
      BY <1>2, <2>1, <2>4, <3>1
    <3> QED
      BY <2>1, <2>2, <2>4, <3>2, <3>3
  <2>5. jobs[i + 1].leader \notin consumed'
    <3>1. 1 < i + 1
      BY <2>1
    <3>2. jobs[1].kind = "read" => jobs[1].call # jobs[i + 1].leader
      BY <1>6, <2>2, <3>1
    <3> QED
      BY <1>2, <2>2, <3>2
  <2> QED
    BY <2>1, <2>2, <2>3, <2>4, <2>5
<1>9. ASSUME NEW d \in consumed' PROVE pc'[d] = "settled"
  <2>1. CASE d \in consumed
    BY <2>1 DEF JobsInOrder, TypeOK
  <2>2. CASE d \notin consumed
    <3>1. d = jobs[1].call /\ jobs[1].kind = "read" /\ d \in Calls
      BY <1>2, <1>3, <1>6, <1>9, <2>2
    <3> QED
      BY <1>6, <3>1 DEF JobsInOrder
  <2> QED
    BY <2>1, <2>2
<1>10. ASSUME NEW d \in Calls, pc'[d] = "resolved"
       PROVE  \E i \in DOMAIN jobs' : jobs'[i].kind = "deliver" /\ jobs'[i].call = d
  <2>1. PICK i \in DOMAIN jobs : jobs[i].kind = "deliver" /\ jobs[i].call = d
    BY <1>10 DEF JobsInOrder
  <2>2. i # 1
    BY <1>2, <1>10, <2>1
  <2>3. i - 1 \in 1..(n - 1) /\ (i - 1) + 1 = i
    BY <1>2, <2>2
  <2>4. i - 1 \in DOMAIN jobs' /\ jobs'[i - 1] = jobs[i]
    BY <1>2, <2>3
  <2> QED
    BY <2>1, <2>4
<1> QED
  BY <1>7, <1>8, <1>9, <1>10 DEF JobsInOrder, Follows

LEMMA RunJobJobs ==
  ASSUME TypeOK, LeadersLead, JobsInOrder, RunJob
  PROVE  LeadersLead' /\ JobsInOrder'
<1> DEFINE job == Head(jobs)
<1>1. jobs # <<>> /\ jobs \in Seq(Jobs) /\ job = jobs[1] /\ 1 \in DOMAIN jobs
  BY EmptySeq DEF RunJob, TypeOK
<1>2. job.call \in Calls /\ job.leader \in Calls
  BY <1>1, JobFields
<1>3. /\ job.kind = "deliver" => pc[job.call] \in {"resolved", "settled"}
      /\ job.kind = "clone" =>
           Follows(job.call) /\ pc[job.leader] \in {"resolved", "settled"}
  BY <1>1 DEF JobsInOrder
<1> HIDE DEF job
<1>4. CASE job.kind = "deliver" /\ Deliver(job.call)
  <2>1. /\ UNCHANGED <<consumed, call>>
        /\ jobs' = Append(Tail(jobs), Job(job.call, "read", job.call))
        /\ dedupe' = [dedupe EXCEPT ![call[job.call].key] = None]
        /\ pc' = [pc EXCEPT ![job.call] = "settled"]
    BY <1>4 DEF Deliver, Goto
  <2>2. /\ pc'[job.call] = "settled"
        /\ \A d \in Calls \ {job.call} : pc'[d] = pc[d]
    BY <1>2, <2>1 DEF TypeOK
  <2>3. \A d \in Calls : Follows(d) => Follows(d)'
    BY <2>1, <2>2 DEF Follows
  <2>4. \A k \in JsKeys : dedupe'[k] \in {dedupe[k], None} /\ dedupe'[k] # job.call
    <3> SUFFICES ASSUME NEW k \in JsKeys
                 PROVE  dedupe'[k] \in {dedupe[k], None} /\ dedupe'[k] # job.call
      OBVIOUS
    <3>1. dedupe[k] = job.call => call[job.call].key = k
      BY <1>2, FetchAssumption DEF LeadersLead
    <3> QED
      BY <1>2, <2>1, <3>1, FetchAssumption DEF TypeOK
  <2>5. LeadersLead'
    <3>1. call[job.call].revalidate \in Revalidates
      BY <1>2, <1>3, <1>4 DEF LeadersLead
    <3> QED
      BY <2>1, <2>2, <2>3, <2>4, <3>1, SameLeaders DEF Leading
  <2>6. JobsInOrder'
    BY <1>1, <1>2, <2>1, <2>2, <2>3, HeadStep DEF job
  <2> QED
    BY <2>5, <2>6
<1>5. CASE job.kind = "clone" /\ Clone(job.call, job.leader)
  <2>1. /\ UNCHANGED <<consumed, dedupe>>
        /\ jobs' = Tail(jobs)
        /\ call' = [call EXCEPT ![job.call].answer = call[job.leader].answer]
        /\ pc' = [pc EXCEPT ![job.call] = "settled"]
    BY <1>5 DEF Clone, Goto
  <2>2. /\ pc'[job.call] = "settled" /\ pc[job.call] \notin {"idle", "resolved"}
        /\ \A d \in Calls \ {job.call} : pc'[d] = pc[d]
        /\ \A d \in Calls : /\ call'[d].followers = call[d].followers
                            /\ call'[d].key = call[d].key
                            /\ call'[d].revalidate = call[d].revalidate
    BY <1>2, <1>3, <1>5, <2>1 DEF TypeOK, CallRecords, Follows
  <2>3. \A d \in Calls : Follows(d) => Follows(d)'
    BY <2>2 DEF Follows
  <2>4. LeadersLead'
    <3>1. \A k \in JsKeys : dedupe[k] # job.call
      BY <1>2, <1>3, <1>5, FetchAssumption DEF LeadersLead, Leading, Follows
    <3>2. call[job.call].revalidate \in Revalidates
      BY <1>2, <2>2 DEF LeadersLead
    <3> QED
      BY <2>1, <2>2, <2>3, <3>1, <3>2, SameLeaders DEF Leading
  <2>5. JobsInOrder'
    BY <1>1, <1>2, <1>5, <2>1, <2>2, <2>3, HeadStep DEF job
  <2> QED
    BY <2>4, <2>5
<1>6. CASE job.kind = "read" /\ Read(job.call)
  <2>1. /\ UNCHANGED <<dedupe, pc, call>>
        /\ jobs' = Tail(jobs) /\ consumed' = consumed \cup {job.call}
    BY <1>6 DEF Read
  <2>2. \A d \in Calls : Follows(d) => Follows(d)'
    BY <2>1 DEF Follows
  <2>3. LeadersLead'
    BY <2>1, <2>2, SameLeaders
  <2>4. JobsInOrder'
    BY <1>1, <1>2, <1>6, <2>1, <2>2, HeadStep DEF job
  <2> QED
    BY <2>3, <2>4
<1> QED
  BY <1>4, <1>5, <1>6 DEF RunJob, job

(* An uncached fetch settles by itself.                                    *)
LEMMA DirectJobs ==
  ASSUME TypeOK, LeadersLead, JobsInOrder, NEW c \in Calls, pc[c] = "direct",
         call[c].revalidate = 0, NEW outcome, Goto(c, "settled"),
         call' = [call EXCEPT ![c].answer = outcome],
         UNCHANGED <<dedupe, jobs, consumed>>
  PROVE  LeadersLead' /\ JobsInOrder'
<1>1. /\ pc'[c] = "settled"
      /\ \A d \in Calls \ {c} : pc'[d] = pc[d] /\ call'[d] = call[d]
      /\ call'[c].followers = call[c].followers /\ call'[c].key = call[c].key
      /\ call'[c].revalidate = call[c].revalidate
  BY DEF Goto, TypeOK, CallRecords
<1>2. \A d \in Calls : Follows(d) => Follows(d)'
  BY <1>1 DEF Follows
<1>3. \A k \in JsKeys : dedupe[k] # c
  BY FetchAssumption DEF LeadersLead
<1>4. call[c].revalidate \in Revalidates
  BY DEF LeadersLead
<1>5. LeadersLead'
  BY <1>1, <1>2, <1>3, <1>4, SameLeaders DEF Leading
<1>6. JobsInOrder'
  BY <1>1, <1>2, SameJobs
<1> QED
  BY <1>5, <1>6

LEMMA RestartJobs ==
  ASSUME TypeOK, LeadersLead, JobsInOrder, Restart
  PROVE  LeadersLead' /\ JobsInOrder'
<1>1. /\ UNCHANGED <<call, consumed>> /\ jobs' = <<>>
      /\ \A k \in JsKeys : dedupe'[k] = None
      /\ \A d \in Calls : pc'[d] = IF pc[d] \in {"idle", "settled"} THEN pc[d] ELSE "dead"
  BY DEF Restart
<1>2. \A d \in Calls : Follows(d) => Follows(d)'
  BY <1>1 DEF Follows
<1>3. LeadersLead'
  <2>1. \A d \in Calls : pc'[d] # pc[d] => call[d].revalidate \in Revalidates
    BY <1>1 DEF LeadersLead
  <2> QED
    BY <1>1, <1>2, <2>1, SameLeaders, FetchAssumption DEF Leading
<1>4. JobsInOrder'
  <2>1. DOMAIN jobs' = {}
    BY <1>1
  <2>2. \A d \in consumed' : pc'[d] = "settled"
    BY <1>1 DEF JobsInOrder, TypeOK
  <2>3. \A d \in Calls : pc'[d] # "resolved"
    BY <1>1
  <2> QED
    BY <2>1, <2>2, <2>3 DEF JobsInOrder
<1> QED
  BY <1>3, <1>4

LEMMA StepJobs ==
  TypeOK /\ CallsInOrder /\ LeadersLead /\ JobsInOrder /\ [Next]_vars
    => LeadersLead' /\ JobsInOrder'
<1> SUFFICES ASSUME TypeOK, CallsInOrder, LeadersLead, JobsInOrder, [Next]_vars
             PROVE  LeadersLead' /\ JobsInOrder'
  OBVIOUS
<1>a. now \in Responses
  BY FetchAssumption DEF TypeOK, Responses
<1>0. CASE UNCHANGED vars
  BY <1>0, MoveStep DEF vars
<1>1. ASSUME NEW c \in Calls, Call(c) PROVE LeadersLead' /\ JobsInOrder'
  BY <1>1, UncachedJobs, LeadingJobs, FollowingJobs DEF Call
<1>2. ASSUME NEW c \in Calls, LookupHit(c) PROVE LeadersLead' /\ JobsInOrder'
  <2>1. /\ pc[c] = "op" /\ Resolve(c, stored[Url(c)]) /\ UNCHANGED <<dedupe, consumed>>
        /\ stored[Url(c)] # None
    BY <1>2 DEF LookupHit, Hits
  <2>2. call[c].revalidate # 0
    BY <2>1 DEF LeadersLead, Leading
  <2>3. stored[Url(c)] \in Responses
    <3>1. Url(c) \in Urls
      BY <1>2, UrlType DEF LookupHit
    <3> QED
      BY <2>1, <3>1 DEF TypeOK
  <2> QED
    BY <2>1, <2>2, <2>3, ResolveJobs DEF Leading
<1>3. ASSUME NEW c \in Calls, LookupMiss(c) PROVE LeadersLead' /\ JobsInOrder'
  BY <1>3, MoveStep DEF LookupMiss, Goto, TypeOK, CallRecords, Leading
<1>4. ASSUME NEW c \in Calls, LookupNoContext(c) PROVE LeadersLead' /\ JobsInOrder'
  BY <1>4, MoveStep DEF LookupNoContext, Goto, TypeOK, Leading
<1>5. ASSUME NEW c \in Calls, AcquireFirst(c) PROVE LeadersLead' /\ JobsInOrder'
  BY <1>5, MoveStep DEF AcquireFirst, Goto, TypeOK, Leading
<1>6. ASSUME NEW c \in Calls, AcquireAfter(c) PROVE LeadersLead' /\ JobsInOrder'
  <2>1. /\ pc[c] = "queued" /\ result[call[c].entry] \in Responses
        /\ Resolve(c, result[call[c].entry]) /\ UNCHANGED <<dedupe, consumed>>
    BY <1>6 DEF AcquireAfter
  <2>2. call[c].revalidate # 0
    BY <2>1 DEF LeadersLead, Leading
  <2> QED
    BY <2>1, <2>2, ResolveJobs DEF Leading
<1>7. ASSUME NEW c \in Calls, AcquireAfterError(c) PROVE LeadersLead' /\ JobsInOrder'
  BY <1>7, MoveStep DEF AcquireAfterError, Goto, TypeOK, Leading
<1>8. ASSUME NEW c \in Calls, FetchAnswered(c) PROVE LeadersLead' /\ JobsInOrder'
  <2>1. pc[c] = "fetching" /\ Resolve(c, now) /\ UNCHANGED <<dedupe, consumed>>
    BY <1>8 DEF FetchAnswered
  <2>2. call[c].revalidate # 0
    BY <2>1 DEF LeadersLead, Leading
  <2> QED
    BY <1>a, <2>1, <2>2, ResolveJobs DEF Leading
<1>9. ASSUME NEW c \in Calls, FetchFailed(c) PROVE LeadersLead' /\ JobsInOrder'
  BY <1>9, MoveStep DEF FetchFailed, Goto, TypeOK, Leading
<1>10. ASSUME NEW c \in Calls, SimpleAnswered(c) PROVE LeadersLead' /\ JobsInOrder'
  <2>1. pc[c] = "simple" /\ Resolve(c, now) /\ UNCHANGED <<dedupe, consumed>>
    BY <1>10 DEF SimpleAnswered
  <2>2. call[c].revalidate # 0
    BY <2>1 DEF LeadersLead, Leading
  <2> QED
    BY <1>a, <2>1, <2>2, ResolveJobs DEF Leading
<1>11. ASSUME NEW c \in Calls, SimpleFailed(c) PROVE LeadersLead' /\ JobsInOrder'
  BY <1>11, MoveStep DEF SimpleFailed, Goto, TypeOK, Leading
<1>12. ASSUME NEW c \in Calls, NEW outcome \in {now, Failed}, DirectSettled(c, outcome)
       PROVE  LeadersLead' /\ JobsInOrder'
  <2>1. pc[c] = "direct" /\ UNCHANGED <<dedupe, consumed>>
    BY <1>12 DEF DirectSettled
  <2>2. CASE call[c].revalidate = 0
    <3>1. /\ Goto(c, "settled") /\ UNCHANGED jobs
          /\ call' = [call EXCEPT ![c].answer = outcome]
      BY <1>12, <2>2 DEF DirectSettled
    <3> QED
      BY <2>1, <2>2, <3>1, DirectJobs
  <2>3. CASE call[c].revalidate # 0
    <3>1. Resolve(c, outcome)
      BY <1>12, <2>3 DEF DirectSettled
    <3> QED
      BY <1>a, <2>1, <2>3, <3>1, ResolveJobs DEF Leading
  <2> QED
    BY <2>2, <2>3
<1>13. CASE RunJob
  BY <1>13, RunJobJobs
<1>14. CASE Tick
  BY <1>14, MoveStep DEF Tick
<1>15. CASE Restart
  BY <1>15, RestartJobs
<1> QED
  BY <1>0, <1>1, <1>2, <1>3, <1>4, <1>5, <1>6, <1>7, <1>8, <1>9, <1>10, <1>11, <1>12,
     <1>13, <1>14, <1>15
  DEF Next, Progress, Answered, Direct

THEOREM JobsInvariant == Spec => []JInv
<1>1. Init => JInv
  BY InitIInv, InitJobs DEF JInv
<1>2. JInv /\ [Next]_vars => JInv'
  BY StepTypeOK, StepShared, StepJobs DEF JInv, IInv
<1> QED
  BY <1>1, <1>2, PTL DEF Spec

(* requestDedupeMap: whoever shares the promise of a fetch clones its      *)
(* response before the caller that made it reads the body, for any number  *)
(* of calls of one key, also those that join after the answer is there.    *)
THEOREM CloneFirst == Spec => []CloneBeforeRead
<1>1. JInv => CloneBeforeRead
  BY DEF JInv, JobsInOrder, CloneBeforeRead
<1> QED
  BY <1>1, JobsInvariant, PTL

-----------------------------------------------------------------------------
(* Answers are fresh when the calls of a key agree on the TTL.             *)

(* A step that moves no call to a mutex and leaves the entries alone.      *)
LEMMA EntriesQuiet ==
  ASSUME EntriesRecent, UNCHANGED <<now, holder, result>>,
         \A d \in Calls :
           pc'[d] = "queued" => pc[d] = "queued" /\ call'[d].entry = call[d].entry
  PROVE  EntriesRecent'
  BY DEF EntriesRecent

(* The step that settles an entry releases its mutex at once.              *)
LEMMA EntriesFinish ==
  ASSUME TypeOK, EntriesRecent, NEW c \in Calls, NEW outcome \in {now, Failed},
         Finish(c, outcome), UNCHANGED now,
         \A d \in Calls :
           pc'[d] = "queued" => pc[d] = "queued" /\ call'[d].entry = call[d].entry
  PROVE  EntriesRecent'
<1> DEFINE e == call[c].entry
<1>1. /\ result' = [result EXCEPT ![e] = outcome]
      /\ holder' = [holder EXCEPT ![e] = None]
  BY DEF Finish
<1>2. outcome \in Responses => outcome = now
  BY FetchAssumption DEF Responses
<1> HIDE DEF e
<1>3. \A d \in Calls : holder'[d] # None => holder'[d] = holder[d] /\ result'[d] = result[d]
  BY <1>1 DEF TypeOK
<1>4. ASSUME NEW d \in Calls, pc'[d] = "queued", result'[call'[d].entry] \in Responses
      PROVE  result'[call'[d].entry] = now'
  <2>1. pc[d] = "queued" /\ call'[d].entry = call[d].entry
    BY <1>4
  <2>2. CASE call[d].entry \in Calls
    BY <1>1, <1>2, <1>4, <2>1, <2>2 DEF EntriesRecent, TypeOK
  <2>3. CASE call[d].entry \notin Calls
    <3>1. DOMAIN result = Calls /\ DOMAIN result' = Calls
      BY <1>1 DEF TypeOK
    <3>2. result'[call[d].entry] = result[call[d].entry]
      BY <1>1, <2>3, <3>1
    <3> QED
      BY <1>4, <2>1, <3>2 DEF EntriesRecent
  <2> QED
    BY <2>2, <2>3
<1> QED
  BY <1>3, <1>4 DEF EntriesRecent

LEMMA EntriesLookupMiss ==
  ASSUME TypeOK, EntriesShared, CallsInOrder, EntriesRecent, NEW c \in Calls, LookupMiss(c)
  PROVE  EntriesRecent'
<1> DEFINE entry == IF inFlight[Url(c)] = None THEN c ELSE inFlight[Url(c)]
<1>1. /\ pc[c] = "op" /\ UNCHANGED <<now, holder, result>>
      /\ call' = [call EXCEPT ![c].entry = entry]
      /\ pc' = [pc EXCEPT ![c] = "queued"]
  BY DEF LookupMiss, Goto
<1>2. call'[c].entry = entry /\ \A d \in Calls \ {c} : call'[d] = call[d] /\ pc'[d] = pc[d]
  BY <1>1 DEF TypeOK, CallRecords
<1>3. result[entry] = None
  <2>1. Url(c) \in Urls
    BY <1>1, UrlType
  <2>2. result[c] = None
    BY <1>1 DEF CallsInOrder
  <2> QED
    BY <2>1, <2>2 DEF EntriesShared
<1>4. None \notin Responses
  BY FetchAssumption DEF Responses
<1> HIDE DEF entry
<1> QED
  BY <1>1, <1>2, <1>3, <1>4 DEF EntriesRecent

LEMMA StepEntriesRecent ==
  TypeOK /\ EntriesShared /\ CallsInOrder /\ EntriesRecent /\ [Next]_vars => EntriesRecent'
<1> SUFFICES ASSUME TypeOK, EntriesShared, CallsInOrder, EntriesRecent, [Next]_vars
             PROVE  EntriesRecent'
  OBVIOUS
<1>0. CASE UNCHANGED vars
  BY <1>0, EntriesQuiet DEF vars
<1>1. ASSUME NEW c \in Calls, NEW k \in JsKeys,
             \/ CallUncached(c, k)
             \/ \E r \in Revalidates : CallLeading(c, k, r)
      PROVE  EntriesRecent'
  <2>1. /\ UNCHANGED <<now, holder, result>> /\ pc'[c] # "queued"
        /\ \A d \in Calls \ {c} : pc'[d] = pc[d] /\ call'[d] = call[d]
    BY <1>1 DEF CallUncached, CallLeading, Goto, TypeOK, rust
  <2> QED
    BY <2>1, EntriesQuiet
<1>2. ASSUME NEW c \in Calls, NEW k \in JsKeys, NEW r \in Revalidates, CallFollowing(c, k, r)
      PROVE  EntriesRecent'
  <2> DEFINE begun == [call EXCEPT ![c].key = k, ![c].revalidate = r, ![c].at = now]
  <2>1. /\ UNCHANGED <<now, holder, result>> /\ pc'[c] # "queued"
        /\ \A d \in Calls \ {c} : pc'[d] = pc[d]
    BY <1>2 DEF CallFollowing, Goto, TypeOK, rust
  <2>2. /\ begun \in [Calls -> CallRecords]
        /\ \A d \in Calls \ {c} : begun[d] = call[d]
    BY ArgumentsType DEF TypeOK
  <2>3. call' = [begun EXCEPT ![dedupe[k]].followers = Append(@, c)]
    BY <1>2, FollowedCalls
  <2> HIDE DEF begun
  <2>4. \A d \in Calls \ {c} : call'[d].entry = call[d].entry
    BY <2>2, <2>3 DEF CallRecords
  <2> QED
    BY <2>1, <2>4, EntriesQuiet
<1>3. ASSUME NEW c \in Calls, LookupHit(c) \/ AcquireAfter(c) \/ SimpleAnswered(c)
      PROVE  EntriesRecent'
  <2>1. UNCHANGED <<now, holder, result>> /\ \E outcome : Resolve(c, outcome)
    BY <1>3 DEF LookupHit, AcquireAfter, SimpleAnswered, rust
  <2> QED
    BY <2>1, ResolveQuiet, EntriesQuiet
<1>4. ASSUME NEW c \in Calls, LookupMiss(c) PROVE EntriesRecent'
  BY <1>4, EntriesLookupMiss
<1>5. ASSUME NEW c \in Calls,
             LookupNoContext(c) \/ AcquireAfterError(c) \/ SimpleFailed(c)
      PROVE  EntriesRecent'
  BY <1>5, EntriesQuiet
  DEF LookupNoContext, AcquireAfterError, SimpleFailed, Goto, TypeOK, rust
<1>6. ASSUME NEW c \in Calls, AcquireFirst(c) PROVE EntriesRecent'
  BY <1>6 DEF EntriesRecent, AcquireFirst, Goto, TypeOK
<1>7. ASSUME NEW c \in Calls, FetchAnswered(c) PROVE EntriesRecent'
  BY <1>7, EntriesFinish, ResolveQuiet DEF FetchAnswered
<1>8. ASSUME NEW c \in Calls, FetchFailed(c) PROVE EntriesRecent'
  BY <1>8, EntriesFinish DEF FetchFailed, Goto, TypeOK
<1>9. ASSUME NEW c \in Calls, NEW outcome, DirectSettled(c, outcome) PROVE EntriesRecent'
  <2>1. UNCHANGED <<now, holder, result>>
    BY <1>9 DEF DirectSettled, rust
  <2>2. /\ pc'[c] # "queued"
        /\ \A d \in Calls \ {c} : pc'[d] = pc[d] /\ call'[d].entry = call[d].entry
    <3>1. CASE Resolve(c, outcome)
      BY <3>1, ResolveQuiet
    <3>2. CASE Goto(c, "settled") /\ call' = [call EXCEPT ![c].answer = outcome]
      BY <3>2 DEF Goto, TypeOK
    <3> QED
      BY <1>9, <3>1, <3>2 DEF DirectSettled
  <2> QED
    BY <2>1, <2>2, EntriesQuiet
<1>10. CASE RunJob
  <2>1. UNCHANGED <<now, holder, result>>
    BY <1>10 DEF RunJob, rust
  <2>2. Head(jobs) \in Jobs
    BY <1>10, HeadTailProperties DEF RunJob, TypeOK
  <2>3. \A d \in Calls :
          pc'[d] = "queued" => pc[d] = "queued" /\ call'[d].entry = call[d].entry
    <3> DEFINE job == Head(jobs)
    <3>1. job.call \in Calls
      BY <2>2 DEF Jobs
    <3> HIDE DEF job
    <3>2. Deliver(job.call) \/ Clone(job.call, job.leader) \/ Read(job.call)
      BY <1>10 DEF RunJob, job
    <3> QED
      BY <3>1, <3>2 DEF Deliver, Clone, Read, Goto, TypeOK
  <2> QED
    BY <2>1, <2>3, EntriesQuiet
<1>11. CASE Tick
  <2>1. /\ UNCHANGED <<holder, result, pc, call>> /\ ~ Busy
    BY <1>11 DEF Tick, rust
  <2>2. ASSUME NEW d \in Calls, pc[d] = "queued", result[call[d].entry] \in Responses
        PROVE  FALSE
    <3>1. holder[call[d].entry] # None /\ call[d].entry # None
      BY <2>1, <2>2 DEF Busy, EntriesShared
    <3>2. call[d].entry \in Calls
      BY <3>1, CallFields DEF TypeOK
    <3>3. result[call[d].entry] = None
      BY <3>1, <3>2 DEF EntriesRecent
    <3> QED
      BY <2>2, <3>3, FetchAssumption DEF Responses
  <2> QED
    BY <2>1, <2>2 DEF EntriesRecent
<1>12. CASE Restart
  <2>1. /\ \A d \in Calls : holder'[d] = None /\ pc'[d] # "queued"
    BY <1>12 DEF Restart
  <2> QED
    BY <2>1 DEF EntriesRecent
<1> QED
  BY <1>0, <1>1, <1>2, <1>3, <1>4, <1>5, <1>6, <1>7, <1>8, <1>9, <1>10, <1>11, <1>12
  DEF Next, Call, Progress, Answered, Direct

LEMMA TimeTypes ==
  ASSUME TypeOK, NEW c \in Calls
  PROVE  /\ now \in Nat /\ call[c].at \in Nat /\ Ttl(c) \in Nat
         /\ \A t \in Responses : t \in Nat
         /\ now \in Responses
<1>1. /\ call[c].at \in 0..MaxTime /\ now \in 0..MaxTime
      /\ call[c].revalidate \in Revalidates \cup {None}
  BY CallFields DEF TypeOK
<1>2. \A n \in 0..MaxTime : n \in Nat
  BY FetchAssumption
<1>3. Ttl(c) \in Nat
  BY <1>1, FetchAssumption DEF Ttl
<1> QED
  BY <1>1, <1>2, <1>3 DEF Responses

(* A response that is recent now for c is fresh under its TTL for every    *)
(* call made by now.                                                       *)
LEMMA RecentIsFresh ==
  ASSUME TypeOK, NEW c \in Calls, NEW d \in Calls, NEW t \in Responses,
         call[d].at <= now, t = now \/ now - t < Ttl(c)
  PROVE  Fresh(d, c, t)
<1>1. now \in Nat /\ call[d].at \in Nat /\ Ttl(c) \in Nat /\ t \in Nat
  BY TimeTypes
<1> QED
  BY <1>1 DEF Fresh

(* Whom a call awaits, it awaits for ever.                                 *)
LEMMA AwaitedSame ==
  ASSUME \A d \in Calls : call'[d].followers = call[d].followers
  PROVE  \A c \in Calls : Awaited(c)' = Awaited(c)
  BY DEF Awaited

LEMMA AwaitedBegun ==
  ASSUME LeadersLead, NEW c \in Calls, NEW d \in Awaited(c), pc[d] = "idle"
  PROVE  d = c
  BY DEF Awaited, ToSet, LeadersLead

(* The clause of AnswersRecent on the clones.                              *)
LEMMA ClonesRecent ==
  ASSUME TypeOK, JobsInOrder, AnswersRecent, NEW i \in DOMAIN jobs, jobs[i].kind = "clone"
  PROVE  /\ jobs[i].call \in Calls /\ jobs[i].leader \in Calls
         /\ Follows(jobs[i].call) /\ call[jobs[i].leader].followers # <<>>
         /\ pc[jobs[i].leader] \in {"resolved", "settled"}
         /\ CloneRecent(i)
<1>1. jobs[i].call \in Calls /\ jobs[i].leader \in Calls
  BY JobFields
<1>2. /\ Follows(jobs[i].call) /\ call[jobs[i].leader].followers # <<>>
      /\ pc[jobs[i].leader] \in {"resolved", "settled"}
  BY DEF JobsInOrder
<1> QED
  BY <1>1, <1>2 DEF AnswersRecent

(* A step that settles nothing.                                            *)
LEMMA AnswersQuiet ==
  ASSUME TypeOK, LeadersLead, JobsInOrder, AnswersRecent, FreshAnswers,
         UNCHANGED <<now, jobs>>,
         \A d \in Calls :
           /\ pc'[d] \in {"resolved", "settled"} => pc'[d] = pc[d]
           /\ call'[d].at \in {call[d].at, now}
           /\ call'[d].answer = call[d].answer
           /\ call'[d].followers = call[d].followers
           /\ pc[d] # "idle" =>
                call'[d].at = call[d].at /\ call'[d].revalidate = call[d].revalidate
  PROVE  AnswersRecent' /\ FreshAnswers'
<1>1. ASSUME NEW d \in Calls
      PROVE  /\ call'[d].at <= now'
             /\ pc'[d] = "resolved" /\ call'[d].answer \in Responses
                  => call'[d].answer = now' \/ now' - call'[d].answer < Ttl(d)'
  <2>1. call'[d].at <= now'
    BY TimeTypes DEF AnswersRecent
  <2> QED
    BY <2>1 DEF AnswersRecent, Ttl
<1>2. \A d \in Calls : pc[d] # "idle" => Ttl(d)' = Ttl(d) /\ call'[d].at = call[d].at
  BY DEF Ttl
<1>3. ASSUME NEW i \in DOMAIN jobs', jobs'[i].kind = "clone"
      PROVE  CloneRecent(i)'
  <2>1. /\ jobs[i].call \in Calls /\ jobs[i].leader \in Calls
        /\ Follows(jobs[i].call) /\ pc[jobs[i].leader] \in {"resolved", "settled"}
        /\ CloneRecent(i)
    BY <1>3, ClonesRecent
  <2>2. pc[jobs[i].call] # "idle" /\ pc[jobs[i].leader] # "idle"
    BY <2>1 DEF Follows
  <2> QED
    BY <1>2, <2>1, <2>2, AwaitedSame DEF CloneRecent, Fresh
<1>4. FreshAnswers'
  <2> SUFFICES ASSUME NEW d \in Calls, pc'[d] = "settled", call'[d].answer \in Responses
               PROVE  \E e \in Awaited(d)' : Fresh(d, e, call[d].answer)'
    BY DEF FreshAnswers
  <2>1. pc[d] = "settled" /\ call'[d].answer = call[d].answer
    OBVIOUS
  <2>2. PICK e \in Awaited(d) : Fresh(d, e, call[d].answer)
    BY <2>1 DEF FreshAnswers
  <2>3. e \in Calls /\ pc[e] # "idle"
    BY <2>1, <2>2, AwaitedBegun DEF Awaited
  <2>4. Fresh(d, e, call[d].answer)'
    BY <1>2, <2>1, <2>2, <2>3 DEF Fresh
  <2> QED
    BY <2>2, <2>4, AwaitedSame
<1> QED
  BY <1>1, <1>3, <1>4 DEF AnswersRecent, CloneRecent

(* A promise that settles with a response that is recent for its leader.   *)
LEMMA ResolveAnswers ==
  ASSUME TypeOK, LeadersLead, JobsInOrder, AnswersRecent, FreshAnswers,
         NEW c \in Calls, NEW outcome \in Responses \cup {Failed},
         pc[c] \in Leading \ {"resolved"}, call[c].revalidate # 0,
         Resolve(c, outcome), UNCHANGED now,
         outcome \in Responses => outcome = now \/ now - outcome < Ttl(c)
  PROVE  AnswersRecent' /\ FreshAnswers'
<1> DEFINE fs == call[c].followers
           R == Reactions(c, outcome)
<1>1. /\ pc'[c] = "resolved" /\ jobs' = jobs \o R
      /\ \A d \in Calls \ {c} : pc'[d] = pc[d] /\ call'[d] = call[d]
      /\ call'[c].at = call[c].at /\ call'[c].revalidate = call[c].revalidate
      /\ call'[c].answer = outcome /\ call'[c].followers = fs
  BY DEF Resolve, Goto, TypeOK, CallRecords
<1>2. /\ jobs \in Seq(Jobs) /\ Len(jobs) \in Nat /\ DOMAIN jobs = 1..Len(jobs)
      /\ R \in Seq(Jobs) /\ Len(R) = 1 + Len(fs) /\ Len(fs) \in Nat
      /\ DOMAIN fs = 1..Len(fs)
      /\ R[1] = Job(c, "deliver", c)
      /\ \A i \in 1..Len(fs) : R[i + 1] = Job(fs[i], "clone", c)
  BY ReactionsAt DEF TypeOK
<1>3. /\ DOMAIN jobs' = 1..(Len(jobs) + Len(R))
      /\ \A i \in 1..Len(jobs) : jobs'[i] = jobs[i]
      /\ \A i \in 1..Len(R) : jobs'[Len(jobs) + i] = R[i]
  <2>1. jobs \in Seq(Jobs) /\ R \in Seq(Jobs)
    BY <1>2
  <2>2. /\ DOMAIN (jobs \o R) = 1..(Len(jobs) + Len(R))
        /\ \A i \in 1..Len(jobs) : (jobs \o R)[i] = jobs[i]
        /\ \A i \in 1..Len(R) : (jobs \o R)[Len(jobs) + i] = R[i]
    BY <2>1, ConcatAt
  <2> QED
    BY <1>1, <2>2
<1>4. \A d \in Calls : /\ call'[d].at = call[d].at /\ Ttl(d)' = Ttl(d)
                       /\ call'[d].followers = call[d].followers
                       /\ Awaited(d)' = Awaited(d)
  <2>1. \A d \in Calls : /\ call'[d].at = call[d].at /\ Ttl(d)' = Ttl(d)
                         /\ call'[d].followers = call[d].followers
    BY <1>1 DEF Ttl
  <2> QED
    BY <2>1, AwaitedSame
<1> HIDE DEF R, fs
<1>5. ASSUME NEW i \in DOMAIN jobs', jobs'[i].kind = "clone"
      PROVE  \/ i \in DOMAIN jobs /\ jobs'[i] = jobs[i]
             \/ \E j \in DOMAIN fs : jobs'[i] = Job(fs[j], "clone", c)
  <2>1. CASE i \in 1..Len(jobs)
    BY <1>2, <1>3, <2>1
  <2>2. CASE i \notin 1..Len(jobs)
    <3>1. i - Len(jobs) \in 1..(1 + Len(fs)) /\ Len(jobs) + (i - Len(jobs)) = i
      BY <1>2, <1>3, <2>2
    <3>2. jobs'[i] = R[i - Len(jobs)]
      BY <1>2, <1>3, <3>1
    <3>3. i - Len(jobs) # 1
      BY <1>2, <1>5, <3>2 DEF Job
    <3>4. i - Len(jobs) - 1 \in 1..Len(fs) /\ (i - Len(jobs) - 1) + 1 = i - Len(jobs)
      BY <1>2, <1>3, <3>1, <3>3
    <3> QED
      BY <1>2, <3>2, <3>4
  <2> QED
    BY <2>1, <2>2
<1>6. \A d \in Calls : call[d].at <= now
  BY DEF AnswersRecent
<1>7. ASSUME NEW i \in DOMAIN jobs', jobs'[i].kind = "clone"
      PROVE  CloneRecent(i)'
  <2>1. CASE i \in DOMAIN jobs /\ jobs'[i] = jobs[i]
    <3>1. /\ jobs[i].call \in Calls /\ jobs[i].leader \in Calls
          /\ pc[jobs[i].leader] \in {"resolved", "settled"} /\ CloneRecent(i)
      BY <1>7, <2>1, ClonesRecent
    <3>2. jobs[i].leader # c
      BY <3>1 DEF Leading
    <3> QED
      BY <1>1, <1>4, <2>1, <3>1, <3>2 DEF Fresh, CloneRecent
  <2>2. CASE \E j \in DOMAIN fs : jobs'[i] = Job(fs[j], "clone", c)
    <3>1. PICK j \in DOMAIN fs : jobs'[i] = Job(fs[j], "clone", c)
      BY <2>2
    <3>2. fs[j] \in Calls
      BY <3>1, FollowerType DEF LeadersLead, fs
    <3>3. c \in Awaited(fs[j])
      BY <3>1, <3>2 DEF Awaited, ToSet, fs
    <3>4. jobs'[i].call = fs[j] /\ jobs'[i].leader = c
      BY <3>1 DEF Job
    <3>5. outcome \in Responses => Fresh(fs[j], c, outcome)
      BY <1>6, <3>2, RecentIsFresh
    <3> QED
      BY <1>1, <1>4, <3>2, <3>3, <3>4, <3>5 DEF Fresh, CloneRecent
  <2> QED
    BY <1>5, <1>7, <2>1, <2>2
<1>8. ASSUME NEW d \in Calls, pc'[d] = "resolved", call'[d].answer \in Responses
      PROVE  call'[d].answer = now' \/ now' - call'[d].answer < Ttl(d)'
  BY <1>1, <1>4, <1>8 DEF AnswersRecent
<1>9. AnswersRecent'
  BY <1>4, <1>6, <1>7, <1>8 DEF AnswersRecent, CloneRecent
<1>10. FreshAnswers'
  <2> SUFFICES ASSUME NEW d \in Calls, pc'[d] = "settled", call'[d].answer \in Responses
               PROVE  \E e \in Awaited(d)' : Fresh(d, e, call[d].answer)'
    BY DEF FreshAnswers
  <2>1. d # c /\ pc[d] = "settled" /\ call'[d].answer = call[d].answer
    BY <1>1
  <2>2. PICK e \in Awaited(d) : Fresh(d, e, call[d].answer)
    BY <2>1 DEF FreshAnswers
  <2> QED
    BY <1>4, <2>1, <2>2 DEF Fresh, Awaited
<1> QED
  BY <1>9, <1>10

(* A call that joins a promise joins one that is recent.                   *)
LEMMA FollowingAnswers ==
  ASSUME TypeOK, LeadersLead, JobsInOrder, AnswersRecent, FreshAnswers,
         NEW c \in Calls, NEW k \in JsKeys, NEW r \in Revalidates \ {0},
         CallFollowing(c, k, r)
  PROVE  AnswersRecent' /\ FreshAnswers'
<1> DEFINE begun == [call EXCEPT ![c].key = k, ![c].revalidate = r, ![c].at = now]
<1>0. PICK leader : leader = dedupe[k]
  OBVIOUS
<1>1. /\ pc[c] = "idle" /\ leader \in Calls /\ leader # None /\ UNCHANGED now
      /\ jobs' \in {jobs, Append(jobs, Job(c, "clone", leader))}
      /\ jobs' # jobs => pc[leader] \in {"resolved", "settled"}
      /\ pc' = [pc EXCEPT ![c] = "following"]
  BY <1>0 DEF CallFollowing, TypeOK, Goto
<1>2. call' = [begun EXCEPT ![leader].followers = Append(@, c)]
  BY <1>0, FollowedCalls
<1>3. pc[leader] \in Leading /\ leader # c
  BY <1>0, <1>1 DEF LeadersLead, Leading
<1>4. /\ begun \in [Calls -> CallRecords]
      /\ begun[c].revalidate = r /\ begun[c].at = now /\ begun[c].answer = call[c].answer
      /\ \A d \in Calls \ {c} : begun[d] = call[d]
  <2>1. begun \in [Calls -> CallRecords]
    BY ArgumentsType
  <2>2. call[c] \in CallRecords
    BY DEF TypeOK
  <2>3. begun[c] = [call[c] EXCEPT !.key = k, !.revalidate = r, !.at = now]
    BY DEF TypeOK
  <2>4. begun[c].revalidate = r /\ begun[c].at = now /\ begun[c].answer = call[c].answer
    BY <2>2, <2>3 DEF CallRecords
  <2>5. \A d \in Calls \ {c} : begun[d] = call[d]
    BY DEF TypeOK
  <2> HIDE DEF begun
  <2> QED
    BY <2>1, <2>4, <2>5
<1>4f. \A d \in Calls : begun[d].followers = call[d].followers
  BY DEF TypeOK, CallRecords
<1> HIDE DEF begun
<1>5. /\ call'[c].revalidate = r /\ call'[c].at = now /\ call'[c].answer = call[c].answer
      /\ \A d \in Calls \ {c} : /\ call'[d].at = call[d].at
                                /\ call'[d].answer = call[d].answer
                                /\ call'[d].revalidate = call[d].revalidate
  <2>1. \A d \in Calls : /\ call'[d].at = begun[d].at
                         /\ call'[d].answer = begun[d].answer
                         /\ call'[d].revalidate = begun[d].revalidate
    BY <1>2, <1>4 DEF CallRecords
  <2> QED
    BY <1>4, <2>1
<1>6. pc'[c] = "following" /\ \A d \in Calls \ {c} : pc'[d] = pc[d]
  BY <1>1 DEF TypeOK
<1>7. /\ r \in Revalidates /\ r # 0
      /\ \A d \in Calls \ {c} : Ttl(d)' = Ttl(d)
  BY <1>5 DEF Ttl
<1>8. /\ c \in ToSet(call'[leader].followers)
      /\ \A d \in Calls : ToSet(call[d].followers) \subseteq ToSet(call'[d].followers)
  <2>1. /\ call'[leader].followers = Append(call[leader].followers, c)
        /\ \A d \in Calls \ {leader} : call'[d].followers = call[d].followers
    <3>1. \A d \in Calls : begun[d].followers = call[d].followers
      BY <1>4f
    <3> QED
      BY <1>1, <1>2, <1>4, <3>1 DEF CallRecords
  <2>2. call[leader].followers \in Seq(Calls)
    BY <1>1, CallFields DEF TypeOK
  <2> DEFINE fs == call[leader].followers
  <2>a. /\ Len(Append(fs, c)) = Len(fs) + 1 /\ Len(fs) \in Nat
        /\ DOMAIN Append(fs, c) = 1..(Len(fs) + 1) /\ DOMAIN fs = 1..Len(fs)
        /\ \A i \in 1..Len(fs) : Append(fs, c)[i] = fs[i]
        /\ Append(fs, c)[Len(fs) + 1] = c
    BY <2>2, AppendProperties
  <2> HIDE DEF fs
  <2>b. c \in ToSet(Append(fs, c)) /\ ToSet(fs) \subseteq ToSet(Append(fs, c))
    BY <2>a DEF ToSet
  <2>3. /\ c \in ToSet(Append(call[leader].followers, c))
        /\ ToSet(call[leader].followers) \subseteq ToSet(Append(call[leader].followers, c))
    BY <2>b DEF fs
  <2> QED
    BY <1>1, <2>1, <2>3
<1>8a. /\ leader \in Awaited(c)'
       /\ \A d \in Calls : Awaited(d) \subseteq Awaited(d)'
  BY <1>1, <1>8 DEF Awaited
<1>8b. \A d, e \in Calls : e \in Awaited(d) /\ e = c => d = c
  BY <1>1, AwaitedBegun DEF Awaited, LeadersLead, ToSet
<1>9. now \in Nat /\ \A d \in Calls : call'[d].at <= now'
  <2>1. now \in Nat /\ now <= now
    BY TimeTypes
  <2> QED
    BY <1>1, <1>5, <2>1 DEF AnswersRecent
<1>10. ASSUME NEW i \in DOMAIN jobs', jobs'[i].kind = "clone"
       PROVE  \/ i \in DOMAIN jobs /\ jobs'[i] = jobs[i]
              \/ jobs' # jobs /\ jobs'[i] = Job(c, "clone", leader)
  <2>1. jobs \in Seq(Jobs) /\ Len(jobs) \in Nat /\ DOMAIN jobs = 1..Len(jobs)
    BY DEF TypeOK
  <2>2. CASE jobs' = jobs
    BY <1>10, <2>2
  <2>3. CASE jobs' = Append(jobs, Job(c, "clone", leader))
    <3>1. Job(c, "clone", leader) \in Jobs
      BY <1>1, JobType
    <3>2. jobs' # jobs
      BY <2>1, <2>3, <3>1, AppendLonger
    <3>3. /\ Append(jobs, Job(c, "clone", leader)) \in Seq(Jobs)
          /\ Len(Append(jobs, Job(c, "clone", leader))) = Len(jobs) + 1
          /\ \A j \in 1..Len(jobs) : Append(jobs, Job(c, "clone", leader))[j] = jobs[j]
          /\ Append(jobs, Job(c, "clone", leader))[Len(jobs) + 1] = Job(c, "clone", leader)
      BY <2>1, <3>1, AppendProperties
    <3>4. DOMAIN jobs' = 1..(Len(jobs) + 1)
      BY <2>3, <3>3
    <3>5. CASE i \in 1..Len(jobs)
      BY <2>1, <2>3, <3>3, <3>5
    <3>6. CASE i = Len(jobs) + 1
      BY <2>3, <3>2, <3>3, <3>6
    <3> QED
      BY <1>10, <2>1, <3>4, <3>5, <3>6
  <2> QED
    BY <1>1, <2>2, <2>3
<1>11. ASSUME NEW i \in DOMAIN jobs', jobs'[i].kind = "clone"
       PROVE  CloneRecent(i)'
  <2>1. CASE i \in DOMAIN jobs /\ jobs'[i] = jobs[i]
    <3>1. /\ jobs[i].call \in Calls /\ jobs[i].leader \in Calls
          /\ Follows(jobs[i].call) /\ pc[jobs[i].leader] \in {"resolved", "settled"}
          /\ CloneRecent(i)
      BY <1>11, <2>1, ClonesRecent
    <3>2. jobs[i].leader # c /\ jobs[i].call # c
      BY <1>1, <3>1 DEF Follows
    <3> QED
      BY <1>5, <1>7, <1>8a, <2>1, <3>1, <3>2 DEF Fresh, CloneRecent
  <2>2. CASE jobs' # jobs /\ jobs'[i] = Job(c, "clone", leader)
    <3>1. jobs'[i].call = c /\ jobs'[i].leader = leader
      BY <2>2 DEF Job
    <3>2. pc[leader] = "resolved" /\ call'[leader].answer = call[leader].answer
      BY <1>1, <1>3, <1>5, <2>2 DEF Leading
    <3>3. call[leader].answer \in Responses =>
            call[leader].answer = now \/ now - call[leader].answer < Ttl(leader)
      BY <1>1, <3>2 DEF AnswersRecent
    <3>4. call'[c].at = now /\ Ttl(leader)' = Ttl(leader) /\ now >= now
      <4>1. leader \in Calls \ {c} /\ now \in Nat
        BY <1>1, <1>3, <1>9
      <4> QED
        BY <1>5, <1>7, <4>1
    <3> QED
      BY <1>8a, <3>1, <3>2, <3>3, <3>4 DEF Fresh, CloneRecent
  <2> QED
    BY <1>10, <1>11, <2>1, <2>2
<1>12. ASSUME NEW d \in Calls, pc'[d] = "resolved", call'[d].answer \in Responses
       PROVE  call'[d].answer = now' \/ now' - call'[d].answer < Ttl(d)'
  BY <1>1, <1>5, <1>6, <1>7, <1>12 DEF AnswersRecent
<1>13. AnswersRecent'
  BY <1>9, <1>11, <1>12 DEF AnswersRecent, CloneRecent
<1>14. FreshAnswers'
  <2> SUFFICES ASSUME NEW d \in Calls, pc'[d] = "settled", call'[d].answer \in Responses
               PROVE  \E e \in Awaited(d)' : Fresh(d, e, call[d].answer)'
    BY DEF FreshAnswers
  <2>1. d # c /\ pc[d] = "settled" /\ call'[d].answer = call[d].answer
    BY <1>5, <1>6
  <2>2. PICK e \in Awaited(d) : Fresh(d, e, call[d].answer)
    BY <2>1 DEF FreshAnswers
  <2>3. e \in Calls /\ e # c
    BY <1>8b, <2>1, <2>2 DEF Awaited
  <2>4. Fresh(d, e, call[d].answer)'
    BY <1>5, <1>7, <2>1, <2>2, <2>3 DEF Fresh
  <2> QED
    BY <1>8a, <2>2, <2>4
<1> QED
  BY <1>13, <1>14

LEMMA RunJobAnswers ==
  ASSUME TypeOK, LeadersLead, JobsInOrder, AnswersRecent, FreshAnswers, RunJob
  PROVE  AnswersRecent' /\ FreshAnswers'
<1> DEFINE job == Head(jobs)
<1>1. /\ jobs # <<>> /\ jobs \in Seq(Jobs) /\ job = jobs[1] /\ 1 \in DOMAIN jobs
      /\ now' = now
  BY EmptySeq DEF RunJob, TypeOK
<1>2. job.call \in Calls /\ job.leader \in Calls
  BY <1>1, JobFields
<1>3. /\ job.kind = "deliver" => pc[job.call] \in {"resolved", "settled"}
      /\ job.kind = "clone" =>
           Follows(job.call) /\ call[job.leader].followers # <<>>
  BY <1>1 DEF JobsInOrder
<1>4. \A d \in Calls : call[d].at <= now /\ now \in Nat
  BY TimeTypes DEF AnswersRecent
<1> HIDE DEF job
<1>5. jobs' \in {Tail(jobs), Append(Tail(jobs), Job(job.call, "read", job.call))}
  BY DEF RunJob, Deliver, Clone, Read, job
<1>6. ASSUME NEW i \in DOMAIN jobs', jobs'[i].kind = "clone"
      PROVE  \E j \in DOMAIN jobs : jobs'[i] = jobs[j]
  <2> DEFINE read == Job(job.call, "read", job.call)
  <2>1. read \in Jobs /\ read.kind = "read"
    BY <1>2, JobType DEF Job
  <2> HIDE DEF read
  <2>2. /\ Len(jobs) \in Nat \ {0} /\ DOMAIN jobs = 1..Len(jobs)
        /\ \A j \in 1..(Len(jobs) - 1) : j \in DOMAIN jobs' /\ jobs'[j] = jobs[j + 1]
        /\ \A j \in DOMAIN jobs' :
             \/ j \in 1..(Len(jobs) - 1)
             \/ j = Len(jobs) /\ jobs' = Append(Tail(jobs), read) /\ jobs'[j] = read
    BY <1>1, <1>5, <2>1, QueueAfter DEF read
  <2>3. i \in 1..(Len(jobs) - 1)
    BY <1>6, <2>1, <2>2
  <2>4. i + 1 \in DOMAIN jobs
    BY <2>2, <2>3
  <2> QED
    BY <2>2, <2>3, <2>4
<1>7. \A i \in DOMAIN jobs : jobs[i].kind = "clone" =>
        /\ jobs[i].call \in Calls /\ jobs[i].leader \in Calls
        /\ call[jobs[i].leader].followers # <<>>
        /\ CloneRecent(i)
  BY ClonesRecent
<1>8. CASE job.kind = "deliver" /\ Deliver(job.call)
  <2>1. /\ call' = call /\ pc'[job.call] = "settled"
        /\ \A d \in Calls \ {job.call} : pc'[d] = pc[d]
    BY <1>2, <1>8 DEF Deliver, Goto, TypeOK
  <2>2. AnswersRecent'
    <3>1. ASSUME NEW i \in DOMAIN jobs', jobs'[i].kind = "clone"
          PROVE  CloneRecent(i)'
      BY <1>6, <1>7, <2>1, <3>1 DEF Fresh, Ttl, Awaited, CloneRecent
    <3>2. ASSUME NEW d \in Calls, pc'[d] = "resolved", call'[d].answer \in Responses
          PROVE  call'[d].answer = now' \/ now' - call'[d].answer < Ttl(d)'
      BY <1>1, <2>1, <3>2 DEF AnswersRecent, Ttl
    <3> QED
      BY <1>1, <1>4, <2>1, <3>1, <3>2 DEF AnswersRecent
  <2>3. ASSUME NEW d \in Calls, pc'[d] = "settled", call'[d].answer \in Responses
        PROVE  \E e \in Awaited(d) : Fresh(d, e, call[d].answer)
    <3>1. CASE pc[d] = "settled"
      BY <2>1, <2>3, <3>1 DEF FreshAnswers
    <3>2. CASE pc[d] # "settled"
      <4>1. pc[d] = "resolved"
        BY <1>3, <1>8, <2>1, <2>3, <3>2
      <4>2. call[d].answer = now \/ now - call[d].answer < Ttl(d)
        BY <2>1, <2>3, <4>1 DEF AnswersRecent
      <4>3. Fresh(d, d, call[d].answer)
        BY <1>4, <2>1, <2>3, <4>2, RecentIsFresh
      <4> QED
        BY <4>3 DEF Awaited
    <3> QED
      BY <3>1, <3>2
  <2>4. FreshAnswers'
    BY <2>1, <2>3 DEF FreshAnswers, Fresh, Ttl, Awaited
  <2> QED
    BY <2>2, <2>4
<1>9. CASE job.kind = "clone" /\ Clone(job.call, job.leader)
  <2>1. /\ call' = [call EXCEPT ![job.call].answer = call[job.leader].answer]
        /\ pc' = [pc EXCEPT ![job.call] = "settled"]
    BY <1>9 DEF Clone, Goto
  <2>2. /\ pc'[job.call] = "settled"
        /\ \A d \in Calls \ {job.call} : pc'[d] = pc[d] /\ call'[d] = call[d]
        /\ call'[job.call].answer = call[job.leader].answer
        /\ \A d \in Calls : /\ call'[d].at = call[d].at /\ Ttl(d)' = Ttl(d)
                            /\ call'[d].followers = call[d].followers
    BY <1>2, <2>1 DEF TypeOK, CallRecords, Ttl
  <2>3. call[job.call].followers = <<>> /\ \A d \in Calls : Awaited(d)' = Awaited(d)
    BY <1>3, <1>9, <2>2, AwaitedSame DEF Follows
  <2>4. AnswersRecent'
    <3>1. ASSUME NEW i \in DOMAIN jobs', jobs'[i].kind = "clone"
          PROVE  CloneRecent(i)'
      <4>1. PICK j \in DOMAIN jobs : jobs'[i] = jobs[j]
        BY <1>6, <3>1
      <4>2. /\ jobs[j].call \in Calls /\ jobs[j].leader \in Calls
            /\ call[jobs[j].leader].followers # <<>>
            /\ CloneRecent(j)
        BY <1>7, <3>1, <4>1
      <4>3. call'[jobs[j].leader] = call[jobs[j].leader]
        BY <2>2, <2>3, <4>2
      <4> QED
        BY <2>2, <2>3, <4>1, <4>2, <4>3 DEF Fresh, CloneRecent
    <3>2. ASSUME NEW d \in Calls, pc'[d] = "resolved", call'[d].answer \in Responses
          PROVE  call'[d].answer = now' \/ now' - call'[d].answer < Ttl(d)'
      <4>1. d # job.call
        BY <2>2, <3>2
      <4> QED
        BY <1>1, <2>2, <3>2, <4>1 DEF AnswersRecent
    <3> QED
      BY <1>1, <1>4, <2>2, <3>1, <3>2 DEF AnswersRecent
  <2>5. ASSUME NEW d \in Calls, pc'[d] = "settled", call'[d].answer \in Responses
        PROVE  \E e \in Awaited(d) : Fresh(d, e, call'[d].answer)
    <3>1. CASE d = job.call
      <4>1. CloneRecent(1) /\ jobs[1] = job
        BY <1>1, <1>7, <1>9
      <4> QED
        BY <2>2, <2>5, <3>1, <4>1 DEF CloneRecent
    <3>2. CASE d # job.call
      BY <2>2, <2>5, <3>2 DEF FreshAnswers
    <3> QED
      BY <3>1, <3>2
  <2>6. FreshAnswers'
    <3> SUFFICES ASSUME NEW d \in Calls, pc'[d] = "settled", call'[d].answer \in Responses
                 PROVE  \E e \in Awaited(d)' : Fresh(d, e, call[d].answer)'
      BY DEF FreshAnswers
    <3>1. PICK e \in Awaited(d) : Fresh(d, e, call'[d].answer)
      BY <2>5
    <3> QED
      BY <2>2, <2>3, <3>1 DEF Fresh, Awaited
  <2> QED
    BY <2>4, <2>6
<1>10. CASE job.kind = "read" /\ Read(job.call)
  <2>1. UNCHANGED <<pc, call>>
    BY <1>10 DEF Read
  <2>2. AnswersRecent'
    <3>1. ASSUME NEW i \in DOMAIN jobs', jobs'[i].kind = "clone"
          PROVE  CloneRecent(i)'
      BY <1>6, <1>7, <2>1, <3>1 DEF Fresh, Ttl, Awaited, CloneRecent
    <3> QED
      BY <1>1, <2>1, <3>1 DEF AnswersRecent, Ttl
  <2>3. FreshAnswers'
    BY <2>1 DEF FreshAnswers, Ttl, Fresh, Awaited
  <2> QED
    BY <2>2, <2>3
<1> QED
  BY <1>8, <1>9, <1>10 DEF RunJob, job

(* The calls of fetch and the ops that settle nothing.                     *)
LEMMA CallAnswers ==
  ASSUME TypeOK, LeadersLead, JobsInOrder, AnswersRecent, FreshAnswers, NEW c \in Calls,
         NEW k \in JsKeys,
         \/ CallUncached(c, k)
         \/ \E r \in Revalidates : CallLeading(c, k, r)
  PROVE  AnswersRecent' /\ FreshAnswers'
<1>1. /\ UNCHANGED <<now, jobs>> /\ pc[c] = "idle" /\ pc'[c] \in {"direct", "op"}
      /\ call'[c].at = now /\ call'[c].answer = call[c].answer
      /\ call'[c].followers = call[c].followers
      /\ \A d \in Calls \ {c} : pc'[d] = pc[d] /\ call'[d] = call[d]
  <2>1. /\ UNCHANGED <<now, jobs>> /\ pc[c] = "idle"
        /\ \/ pc' = [pc EXCEPT ![c] = "direct"] \/ pc' = [pc EXCEPT ![c] = "op"]
        /\ \E r : call' = [call EXCEPT ![c].key = k, ![c].revalidate = r, ![c].at = now]
    BY Zenon DEF CallUncached, CallLeading, Goto
  <2>2. PICK r : call' = [call EXCEPT ![c].key = k, ![c].revalidate = r, ![c].at = now]
    BY <2>1
  <2>3. /\ call'[c].at = now /\ call'[c].answer = call[c].answer
        /\ call'[c].followers = call[c].followers
    BY <2>2 DEF TypeOK, CallRecords
  <2>4. pc'[c] \in {"direct", "op"} /\ \A d \in Calls \ {c} : pc'[d] = pc[d]
    BY <2>1 DEF TypeOK
  <2>5. \A d \in Calls \ {c} : call'[d] = call[d]
    BY <2>2 DEF TypeOK
  <2> QED
    BY <2>1, <2>3, <2>4, <2>5
<1> QED
  BY <1>1, AnswersQuiet

LEMMA MoveAnswers ==
  ASSUME TypeOK, LeadersLead, JobsInOrder, AnswersRecent, FreshAnswers, NEW c \in Calls,
         \/ LookupMiss(c) \/ LookupNoContext(c) \/ AcquireFirst(c)
         \/ AcquireAfterError(c) \/ FetchFailed(c) \/ SimpleFailed(c)
  PROVE  AnswersRecent' /\ FreshAnswers'
<1>1. /\ UNCHANGED <<now, jobs>> /\ pc'[c] \in {"queued", "simple", "fetching", "direct"}
      /\ \A d \in Calls \ {c} : pc'[d] = pc[d]
  BY DEF LookupMiss, LookupNoContext, AcquireFirst, AcquireAfterError, FetchFailed,
         SimpleFailed, Goto, TypeOK
<1>2. \A d \in Calls : /\ call'[d].at = call[d].at /\ call'[d].answer = call[d].answer
                       /\ call'[d].revalidate = call[d].revalidate
                       /\ call'[d].followers = call[d].followers
  <2>1. CASE LookupMiss(c)
    BY <2>1 DEF LookupMiss, TypeOK, CallRecords
  <2>2. CASE call' = call
    BY <2>2
  <2> QED
    BY <2>1, <2>2 DEF LookupNoContext, AcquireFirst, AcquireAfterError, FetchFailed,
                      SimpleFailed
<1> QED
  BY <1>1, <1>2, AnswersQuiet

LEMMA DirectAnswers ==
  ASSUME TypeOK, LeadersLead, JobsInOrder, AnswersRecent, FreshAnswers,
         NEW c \in Calls, NEW outcome \in {now, Failed}, DirectSettled(c, outcome)
  PROVE  AnswersRecent' /\ FreshAnswers'
<1>1. pc[c] = "direct" /\ now' = now /\ now \in Responses
  BY TimeTypes DEF DirectSettled
<1>2. outcome \in Responses => outcome = now
  BY FetchAssumption DEF Responses
<1>3. CASE call[c].revalidate = 0
  <2>1. /\ jobs' = jobs /\ pc' = [pc EXCEPT ![c] = "settled"]
        /\ call' = [call EXCEPT ![c].answer = outcome]
    BY <1>3 DEF DirectSettled, Goto
  <2>2. /\ pc'[c] = "settled" /\ call'[c].answer = outcome
        /\ \A d \in Calls \ {c} : pc'[d] = pc[d] /\ call'[d] = call[d]
        /\ \A d \in Calls : /\ call'[d].at = call[d].at /\ Ttl(d)' = Ttl(d)
                            /\ call'[d].followers = call[d].followers
    BY <2>1 DEF TypeOK, CallRecords, Ttl
  <2>a. \A d \in Calls : Awaited(d)' = Awaited(d)
    BY <2>2, AwaitedSame
  <2>3. AnswersRecent'
    <3>1. ASSUME NEW i \in DOMAIN jobs', jobs'[i].kind = "clone"
          PROVE  CloneRecent(i)'
      <4>1. /\ jobs'[i] = jobs[i] /\ i \in DOMAIN jobs
            /\ jobs[i].call \in Calls /\ jobs[i].leader \in Calls
            /\ pc[jobs[i].leader] \in {"resolved", "settled"} /\ CloneRecent(i)
        BY <2>1, <3>1, ClonesRecent
      <4>2. jobs[i].leader # c
        BY <1>1, <4>1
      <4> QED
        BY <2>2, <2>a, <4>1, <4>2 DEF Fresh, CloneRecent
    <3>2. ASSUME NEW d \in Calls, pc'[d] = "resolved", call'[d].answer \in Responses
          PROVE  call'[d].answer = now' \/ now' - call'[d].answer < Ttl(d)'
      BY <1>1, <2>2, <3>2 DEF AnswersRecent
    <3> QED
      BY <1>1, <2>2, <3>1, <3>2 DEF AnswersRecent
  <2>4. FreshAnswers'
    <3>1. ASSUME NEW d \in Calls, pc'[d] = "settled", call'[d].answer \in Responses
          PROVE  \E e \in Awaited(d)' : Fresh(d, e, call[d].answer)'
      <4>1. CASE d = c
        <5>1. call[c].at <= now /\ now \in Nat /\ call[c].at \in Nat
          BY TimeTypes DEF AnswersRecent
        <5>2. call'[c].answer = now /\ call'[c].at = call[c].at
          BY <1>2, <2>2, <3>1, <4>1
        <5> QED
          BY <4>1, <5>1, <5>2 DEF Fresh, Awaited
      <4>2. CASE d # c
        <5>1. PICK e \in Awaited(d) : Fresh(d, e, call[d].answer)
          BY <2>2, <3>1, <4>2 DEF FreshAnswers
        <5> QED
          BY <2>2, <2>a, <4>2, <5>1 DEF Fresh, Awaited
      <4> QED
        BY <4>1, <4>2
    <3> QED
      BY <3>1 DEF FreshAnswers
  <2> QED
    BY <2>3, <2>4
<1>4. CASE call[c].revalidate # 0
  <2>1. Resolve(c, outcome)
    BY <1>4 DEF DirectSettled
  <2> QED
    BY <1>1, <1>2, <1>4, <2>1, ResolveAnswers DEF Leading
<1> QED
  BY <1>3, <1>4

LEMMA StepAnswers ==
  ASSUME TypeOK, EntriesShared, CallsInOrder, LeadersLead, JobsInOrder,
         EntriesRecent, AnswersRecent, FreshAnswers, [Next]_vars
  PROVE  AnswersRecent' /\ FreshAnswers'
<1>a. \A c \in Calls : now \in Responses /\ (pc[c] \in Leading \ {"direct"} => call[c].revalidate # 0)
  BY TimeTypes DEF LeadersLead
<1>0. CASE UNCHANGED vars
  BY <1>0, AnswersQuiet DEF vars
<1>1. ASSUME NEW c \in Calls, Call(c) PROVE AnswersRecent' /\ FreshAnswers'
  BY <1>1, CallAnswers, FollowingAnswers DEF Call
<1>2. ASSUME NEW c \in Calls, LookupHit(c) PROVE AnswersRecent' /\ FreshAnswers'
  <2>1. /\ pc[c] = "op" /\ Resolve(c, stored[Url(c)]) /\ now' = now
        /\ stored[Url(c)] # None /\ now - stored[Url(c)] < Ttl(c)
    BY <1>2 DEF LookupHit, Hits
  <2>2. stored[Url(c)] \in Responses
    <3>1. Url(c) \in Urls
      BY <2>1, UrlType
    <3> QED
      BY <2>1, <3>1 DEF TypeOK
  <2> QED
    BY <1>a, <2>1, <2>2, ResolveAnswers DEF Leading
<1>3. ASSUME NEW c \in Calls, AcquireAfter(c) PROVE AnswersRecent' /\ FreshAnswers'
  <2>1. /\ pc[c] = "queued" /\ result[call[c].entry] \in Responses
        /\ Resolve(c, result[call[c].entry]) /\ now' = now
    BY <1>3 DEF AcquireAfter
  <2>2. result[call[c].entry] = now
    BY <2>1 DEF EntriesRecent
  <2> QED
    BY <1>a, <2>1, <2>2, ResolveAnswers DEF Leading
<1>4. ASSUME NEW c \in Calls, FetchAnswered(c) \/ SimpleAnswered(c)
      PROVE  AnswersRecent' /\ FreshAnswers'
  <2>1. pc[c] \in {"fetching", "simple"} /\ Resolve(c, now) /\ now' = now
    BY <1>4 DEF FetchAnswered, SimpleAnswered
  <2> QED
    BY <1>a, <2>1, ResolveAnswers DEF Leading
<1>5. ASSUME NEW c \in Calls,
             \/ LookupMiss(c) \/ LookupNoContext(c) \/ AcquireFirst(c)
             \/ AcquireAfterError(c) \/ FetchFailed(c) \/ SimpleFailed(c)
      PROVE  AnswersRecent' /\ FreshAnswers'
  BY <1>5, MoveAnswers
<1>6. ASSUME NEW c \in Calls, Direct(c) PROVE AnswersRecent' /\ FreshAnswers'
  BY <1>6, DirectAnswers DEF Direct
<1>7. CASE RunJob
  BY <1>7, RunJobAnswers
<1>8. CASE Tick
  <2>1. /\ UNCHANGED <<pc, call, jobs>> /\ jobs = <<>> /\ now' = now + 1
    BY <1>8 DEF Tick, Busy
  <2>2. DOMAIN jobs' = {} /\ \A d \in Calls : pc'[d] # "resolved"
    BY <2>1 DEF JobsInOrder
  <2>3. \A d \in Calls : call'[d].at <= now'
    <3> SUFFICES ASSUME NEW d \in Calls PROVE call'[d].at <= now'
      OBVIOUS
    <3>1. call[d].at \in Nat /\ now \in Nat /\ call[d].at <= now
      BY TimeTypes DEF AnswersRecent
    <3> QED
      BY <2>1, <3>1
  <2> QED
    BY <2>1, <2>2, <2>3 DEF AnswersRecent, FreshAnswers, Fresh, Awaited, Ttl
<1>9. CASE Restart
  <2>1. /\ UNCHANGED <<now, call>> /\ jobs' = <<>>
        /\ \A d \in Calls : pc'[d] # "resolved" /\ (pc'[d] = "settled" => pc[d] = "settled")
    BY <1>9 DEF Restart
  <2>2. DOMAIN jobs' = {}
    BY <2>1
  <2> QED
    BY <2>1, <2>2 DEF AnswersRecent, FreshAnswers, Fresh, Awaited, Ttl
<1> QED
  BY <1>0, <1>1, <1>2, <1>3, <1>4, <1>5, <1>6, <1>7, <1>8, <1>9
  DEF Next, Progress, Answered

LEMMA InitTimes == Init => EntriesRecent /\ AnswersRecent /\ FreshAnswers
<1> SUFFICES ASSUME Init PROVE EntriesRecent /\ AnswersRecent /\ FreshAnswers
  OBVIOUS
<1>1. EntriesRecent
  BY DEF Init, EntriesRecent
<1>2. AnswersRecent
  BY DEF Init, AnswersRecent, Blank
<1>3. FreshAnswers
  BY DEF Init, FreshAnswers
<1> QED
  BY <1>1, <1>2, <1>3

(* No answer of fetch is older, when the fetch is made, than the TTL of    *)
(* the call whose promise it awaits, whatever TTLs the calls ask for:      *)
(* through hits, shared promises, waiters of an entry, failures and        *)
(* restarts.  So a call is at most a TTL of a call it joined behind.       *)
THEOREM AnswersAreFresh == Spec => []FreshAnswers
<1>1. Init => TInv
  BY InitIInv, InitJobs, InitTimes DEF TInv, JInv
<1>2. TInv /\ [Next]_vars => TInv'
  BY StepTypeOK, StepShared, StepJobs, StepEntriesRecent, StepAnswers
  DEF TInv, JInv, IInv
<1>3. TInv => FreshAnswers
  BY DEF TInv
<1> QED
  BY <1>1, <1>2, <1>3, PTL DEF Spec
=============================================================================
