----------------------------- MODULE RenderContext -----------------------------
(***************************************************************************)
(* What the requests that run JavaScript share in the runtime: the request *)
(* context of its op state, from which cookies() and fetch() are answered, *)
(* and the streaming flag, which is on while streaming_refcount is not 0   *)
(* (layout/core.rs, runtime/mod.rs, deno_runtime.rs).  The runtime thread  *)
(* takes requests from one channel, and nothing else happens on it while   *)
(* it runs a script, or waits for its promise.  The tasks interleave at    *)
(* every await; a task is dropped when its client goes away, and goes on   *)
(* without the answer after a timeout, and either way the thread still     *)
(* gets to what the task has sent.                                         *)
(***************************************************************************)
EXTENDS Naturals, Sequences, FiniteSets, SequencesExt

CONSTANTS
  Static,     \* renders of a page that is sent in one piece
  Streamed,   \* renders of a page with a loading.tsx
  Action,     \* server actions
  Api,        \* API routes
  Mixes,      \* bound: the sets of requests that are made together
  MaxFaults,  \* bound: the tasks that are dropped or time out, and the restarts
  None

Request == Static \cup Streamed \cup Action \cup Api

ASSUME ContextAssumption ==
  /\ Static \cap Streamed = {} /\ (Static \cup Streamed) \cap (Action \cup Api) = {}
  /\ Action \cap Api = {}
  /\ Mixes \subseteq SUBSET Request /\ MaxFaults \in Nat
  /\ None \notin Request /\ IsFiniteSet(Request)

VARIABLES
  lock,       \* who holds the mutex of the renderer
  count,      \* streaming_refcount
  todo,       \* what a task has yet to do
  sent,       \* the tasks that await the answer to their first step
  queue,      \* the channel: what is to be done, and for whom
  spawned,    \* what the cleanup of streams has spawned and not sent yet
  slot,       \* the context in the op state of the isolate
  enabled,    \* globalThis['~rari'].streaming.enabled
  restarts,
  resolving,  \* the streams whose promises a task is still resolving
  lost,       \* the tasks that were dropped or timed out
  gone,       \* the streams whose client has gone away before their end
  misread,    \* the requests a script of which has met another context
  disturbed,  \* ... and those that others have disturbed, see Record
  plain,      \* the renders that have met streaming disabled
  overlapped  \* ... and those that other renders have overlapped

isolate == <<slot, enabled, restarts>>
streams == <<resolving, gone>>
seen == <<misread, plain>>
vars == <<lock, count, todo, sent, queue, spawned, isolate, streams, lost,
          seen, disturbed, overlapped>>

Render == Static \cup Streamed

\* Who holds the mutex of the renderer from the first step to the last.
Locks(r) == r \in Static \cup Action

Init ==
  /\ lock = None /\ count = 0
  /\ todo = [r \in Request |-> <<"start">>]
  /\ sent = {} /\ queue = <<>> /\ spawned = {}
  /\ slot = None /\ enabled = FALSE /\ restarts = 0
  /\ resolving = {} /\ lost = {} /\ gone = {}
  /\ misread = {} /\ disturbed = {} /\ plain = {} /\ overlapped = {}

-----------------------------------------------------------------------------
(* What a task does, in order, and what it goes on to after an error.      *)

Plan(r) ==
  CASE r \in Static   -> <<"lock", "set", "count", "inject", "render", "uncount",
                           "clear", "unlock">>
    [] r \in Streamed -> <<"lock", "unlock", "set", "count", "inject", "render",
                           "resolve", "stream">>
    [] r \in Action   -> <<"lock", "set", "render", "clear", "unlock">>
    [] r \in Api      -> <<"set", "render", "clear">>

Unlock(r) == IF Locks(r) THEN <<"unlock">> ELSE <<>>
Close(r) == <<"clear">> \o Unlock(r)

\* Mutated: a render that fails does not give its reference back.
AfterErrorKeeping(r, op) ==
  CASE op = "set" /\ r \notin Streamed -> Unlock(r)
    [] op = "set" /\ r \in Streamed -> Close(r)
    [] op = "enable" -> <<"undo">> \o Close(r)
    [] op = "inject" -> <<"uncount">> \o Close(r)
    [] op = "render" /\ r \in Streamed ->
         <<"uncount", "lock", "fallback", "unlock", "clear">>
    [] op = "render" /\ r \notin Streamed -> Close(r)
    [] OTHER -> Tail(todo[r])

\* Mutated: a render that cannot enable streaming stays counted.
AfterErrorCounted(r, op) ==
  IF op = "enable" THEN Close(r)
  ELSE IF op = "render" /\ r \in Static THEN <<"uncount">> \o Close(r)
  ELSE AfterErrorKeeping(r, op)

\* A streamed render that fails is made again in one piece, under the mutex
\* and in the context that is there by then.
AfterError(r, op) ==
  CASE op = "set" /\ r \notin Streamed -> Unlock(r)
    [] op = "set" /\ r \in Streamed -> Close(r)
    [] op = "enable" -> <<"undo">> \o Close(r)
    [] op = "inject" -> <<"uncount">> \o Close(r)
    [] op = "render" /\ r \in Static -> <<"uncount">> \o Close(r)
    [] op = "render" /\ r \in Streamed ->
         <<"uncount", "lock", "fallback", "unlock", "clear">>
    [] op = "render" /\ r \in Action \cup Api -> Close(r)
    [] OTHER -> Tail(todo[r])

Messages == {"set", "enable", "inject", "render", "fallback", "disable", "clear",
             "clearIf", "chunk"}
Message(op, r) == [op |-> op, of |-> r]

Faults == Cardinality(lost) + Cardinality(gone) + restarts

At(r, op) == todo[r] # <<>> /\ Head(todo[r]) = op
GoOn(r) == todo' = [todo EXCEPT ![r] = Tail(@)]
Active(r) ==
  \/ r \in resolving
  \/ todo[r] \notin {<<>>, <<"start">>}
  \/ \E i \in DOMAIN queue : queue[i].of = r
  \/ \E m \in spawned : m.of = r

-----------------------------------------------------------------------------
(* Steps of the tasks.                                                     *)

Start(r) ==
  /\ At(r, "start")
  /\ \E mix \in Mixes : {q \in Request : ~At(q, "start")} \cup {r} \subseteq mix
  /\ todo' = [todo EXCEPT ![r] = Plan(r)]
  /\ UNCHANGED <<lock, count, sent, queue, spawned, isolate, lost, streams, seen>>

\* renderer.lock().await
Lock(r) ==
  /\ At(r, "lock") /\ lock = None
  /\ lock' = r
  /\ GoOn(r)
  /\ UNCHANGED <<count, sent, queue, spawned, isolate, lost, streams, seen>>

\* The guard goes out of scope.
Release(r) ==
  /\ At(r, "unlock")
  /\ lock' = None
  /\ GoOn(r)
  /\ UNCHANGED <<count, sent, queue, spawned, isolate, lost, streams, seen>>

\* Mutated: a flag in place of a count.
CountOnce(r) ==
  /\ At(r, "count")
  /\ count' = 1
  /\ todo' = [todo EXCEPT ![r] =
       (IF count = 0 THEN <<"enable">> ELSE <<>>) \o Tail(@)]
  /\ UNCHANGED <<lock, sent, queue, spawned, isolate, lost, streams, seen>>

\* streaming_refcount.fetch_add
Count(r) ==
  /\ At(r, "count")
  /\ count' = count + 1
  /\ todo' = [todo EXCEPT ![r] =
       (IF count = 0 THEN <<"enable">> ELSE <<>>) \o Tail(@)]
  /\ UNCHANGED <<lock, sent, queue, spawned, isolate, lost, streams, seen>>

\* streaming_refcount.fetch_sub, after which the last one disables streaming
Uncount(r) ==
  /\ At(r, "uncount")
  /\ count' = count - 1
  /\ todo' = [todo EXCEPT ![r] =
       (IF count = 1 THEN <<"disable">> ELSE <<>>) \o Tail(@)]
  /\ UNCHANGED <<lock, sent, queue, spawned, isolate, lost, streams, seen>>

\* ... and does not if it could not be enabled.
Undo(r) ==
  /\ At(r, "undo")
  /\ count' = count - 1
  /\ GoOn(r)
  /\ UNCHANGED <<lock, sent, queue, spawned, isolate, lost, streams, seen>>

Send(r) ==
  /\ todo[r] # <<>> /\ Head(todo[r]) \in Messages
  /\ r \notin sent
  /\ sent' = sent \cup {r}
  /\ queue' = Append(queue, Message(Head(todo[r]), r))
  /\ UNCHANGED <<lock, count, todo, spawned, isolate, lost, streams, seen>>

\* A task for the promises of the stream is spawned.
Resolve(r) ==
  /\ At(r, "resolve")
  /\ resolving' = resolving \cup {r}
  /\ GoOn(r)
  /\ UNCHANGED <<lock, count, sent, queue, spawned, isolate, lost, gone, seen>>

\* It sends a batch of promises and takes the answer to the one before.  The
\* thread runs them as it takes the batch; the code may do so later.
Chunk(r) ==
  /\ r \in resolving /\ ~Contains(queue, Message("chunk", r))
  /\ queue' = Append(queue, Message("chunk", r))
  /\ UNCHANGED <<lock, count, todo, sent, spawned, isolate, lost, streams, seen>>

\* No promise is left, or the batches are lost with the isolate.
Resolved(r) ==
  /\ r \in resolving /\ ~Contains(queue, Message("chunk", r))
  /\ resolving' = resolving \ {r}
  /\ UNCHANGED <<lock, count, todo, sent, queue, spawned, isolate, lost, gone, seen>>

\* RscStream is dropped, at its end or as its client goes away, and runs both
\* of its cleanups; the task that resolves its promises goes on.
EndStream(r) ==
  /\ At(r, "stream")
  /\ IF r \in resolving THEN Faults < MaxFaults /\ gone' = gone \cup {r}
                       ELSE UNCHANGED gone
  /\ count' = count - 1
  /\ spawned' = spawned \cup {Message("clearIf", r)} \cup
                  (IF count = 1 THEN {Message("disable", r)} ELSE {})
  /\ GoOn(r)
  /\ UNCHANGED <<lock, sent, queue, isolate, resolving, lost, seen>>

SendSpawned ==
  \E m \in spawned :
    /\ spawned' = spawned \ {m}
    /\ queue' = Append(queue, m)
    /\ UNCHANGED <<lock, count, todo, sent, isolate, lost, streams, seen>>

\* ... or it is given up after timeout_ms, and nobody tries again.
SpawnedTimesOut ==
  \E m \in spawned :
    /\ Faults < MaxFaults
    /\ lost' = lost \cup {m.of}
    /\ spawned' = spawned \ {m}
    /\ UNCHANGED <<lock, count, todo, sent, queue, isolate, streams, seen>>

\* Mutated: the mutex stays locked.
DropHolding(r) ==
  /\ todo[r] \notin {<<>>, <<"start">>} /\ ~At(r, "stream")
  /\ Faults < MaxFaults
  /\ lost' = lost \cup {r}
  /\ todo' = [todo EXCEPT ![r] = <<>>]
  /\ sent' = sent \ {r}
  /\ UNCHANGED <<lock, count, queue, spawned, isolate, streams, seen>>

\* The client goes away: the future of the handler is dropped.
Drop(r) ==
  /\ todo[r] \notin {<<>>, <<"start">>} /\ ~At(r, "stream")
  /\ Faults < MaxFaults
  /\ lost' = lost \cup {r}
  /\ todo' = [todo EXCEPT ![r] = <<>>]
  /\ sent' = sent \ {r}
  /\ lock' = IF lock = r THEN None ELSE lock
  /\ UNCHANGED <<count, queue, spawned, isolate, streams, seen>>

\* The answer does not come within timeout_ms, or the mutex of the lazy
\* runtime, which is waited for before anything is sent.
TimeOut(r) ==
  /\ todo[r] # <<>> /\ Head(todo[r]) \in Messages
  /\ Faults < MaxFaults
  /\ lost' = lost \cup {r}
  /\ todo' = [todo EXCEPT ![r] = AfterError(r, Head(@))]
  /\ sent' = sent \ {r}
  /\ UNCHANGED <<lock, count, queue, spawned, isolate, streams, seen>>

-----------------------------------------------------------------------------
(* The runtime thread.                                                     *)

\* Mutated: whatever context is there is cleared.
SlotAfterAny(m) ==
  CASE m.op = "set" -> m.of
    [] m.op \in {"clear", "clearIf"} -> None
    [] OTHER -> slot

SlotAfter(m) ==
  CASE m.op = "set" -> m.of
    [] m.op = "clear" \/ (m.op = "clearIf" /\ slot = m.of) -> None
    [] OTHER -> slot

\* The task that awaits the answer gets it; nobody may await it any more.
Answer(m, next) ==
  /\ queue' = Tail(queue)
  /\ IF m.of \in sent /\ Head(todo[m.of]) = m.op
     THEN sent' = sent \ {m.of} /\ todo' = [todo EXCEPT ![m.of] = next]
     ELSE UNCHANGED <<sent, todo>>
  /\ UNCHANGED <<lock, count, spawned, lost, streams>>

Runs(m) == m.op \in {"render", "fallback", "chunk"}

\* What a script that is run reads.
Reads(m) ==
  /\ misread' = IF Runs(m) /\ slot # m.of THEN misread \cup {m.of} ELSE misread
  /\ plain' = IF m.op = "render" /\ m.of \in Render /\ ~enabled
              THEN plain \cup {m.of} ELSE plain

\* handle_js_request
Run ==
  /\ queue # <<>>
  /\ LET m == Head(queue) IN
       /\ Answer(m, Tail(todo[m.of]))
       /\ Reads(m)
       /\ slot' = SlotAfter(m)
       /\ enabled' = IF m.op = "enable" THEN TRUE
                     ELSE IF m.op = "disable" THEN FALSE ELSE enabled
  /\ UNCHANGED restarts

\* A script of the application throws; those for the flag and the helper that
\* is injected are constants.
RunFails ==
  /\ queue # <<>>
  /\ LET m == Head(queue) IN
       /\ Runs(m)
       /\ Answer(m, AfterError(m.of, m.op))
       /\ Reads(m)
  /\ UNCHANGED isolate

\* ... with an error for which the thread starts over with a new isolate.
Restart ==
  /\ queue # <<>> /\ Faults < MaxFaults
  /\ restarts' = restarts + 1
  /\ LET m == Head(queue) IN
       /\ m.op \notin {"set", "clear", "clearIf"}
       /\ Answer(m, AfterError(m.of, m.op))
  /\ slot' = None /\ enabled' = FALSE
  /\ UNCHANGED seen

-----------------------------------------------------------------------------

TaskStep(r) ==
  \/ Lock(r) \/ Release(r) \/ Count(r) \/ Uncount(r) \/ Undo(r) \/ Send(r)
  \/ Resolve(r)

ClientStep(r) == 
  \/ Start(r) \/ Chunk(r) \/ Resolved(r) \/ EndStream(r) \/ Drop(r) \/ TimeOut(r)

ThreadStep == Run \/ RunFails \/ Restart

Apart(q, r) == q = r \/ (Locks(q) /\ Locks(r))

\* Some q that the mutex does not keep apart from r sets or clears the context.
Disturbs(r) ==
  /\ Len(queue') < Len(queue)
  /\ LET m == Head(queue) IN m.op \in {"set", "clear"} /\ ~Apart(m.of, r)

\* What the properties look back on, of the requests that are not over or
\* have something to be looked at.
Record ==
  /\ disturbed' = {r \in Request :
       /\ Active(r)' \/ r \in misread'
       /\ r \in disturbed \/ (Active(r) /\ (restarts' # restarts \/ Disturbs(r)))}
  /\ overlapped' = {r \in Render :
       /\ Active(r)' \/ r \in plain'
       /\ \/ r \in overlapped \/ restarts' # restarts
          \/ \E q \in Render : Active(q)' /\ ~Apart(q, r)}

Next ==
  /\ (\E r \in Request : TaskStep(r) \/ ClientStep(r)) \/ SendSpawned
     \/ SpawnedTimesOut \/ ThreadStep
  /\ Record

Spec == Init /\ [][Next]_vars

(***************************************************************************)
(* Tokio polls what is ready, what is spawned runs, and the thread answers *)
(* or restarts; each wait has a timeout.  A client need not read a stream  *)
(* to its end.                                                             *)
(***************************************************************************)
FairSpec ==
  /\ Spec
  /\ WF_vars(ThreadStep /\ Record)
  /\ WF_vars(SendSpawned /\ Record)
  /\ \A r \in Request : WF_vars(TaskStep(r) /\ Record)

-----------------------------------------------------------------------------

Labels == Messages \cup {"start", "lock", "unlock", "count", "uncount", "undo", "resolve",
                       "stream"}

TypeOK ==
  /\ lock \in Request \cup {None}
  /\ count \in 0 .. Cardinality(Request)
  /\ todo \in [Request -> Seq(Labels)]
  /\ sent \subseteq {r \in Request : todo[r] # <<>> /\ Head(todo[r]) \in Messages}
  /\ queue \in Seq([op: Messages, of: Request])
  /\ spawned \subseteq [op: {"clearIf", "disable"}, of: Request]
  /\ slot \in Request \cup {None}
  /\ enabled \in BOOLEAN
  /\ restarts \in 0 .. MaxFaults
  /\ \A S \in {resolving, gone, lost, misread, disturbed} : S \subseteq Request
  /\ \A S \in {plain, overlapped} : S \subseteq Render

Quiet == ~\E r \in Request : Active(r)

(***************************************************************************)
(* A request reads its own context in every script it runs, to the end of  *)
(* its stream, unless the isolate was restarted or a request that is not   *)
(* kept apart by the mutex of the renderer has meanwhile set the context,  *)
(* or has cleared it at its own end: that one does not ask whose it is.    *)
(* The end of a stream takes nobody else's context.  If its client goes    *)
(* away, it takes that of its own promises that are still to be resolved.  *)
(***************************************************************************)
OwnContext == misread \subseteq disturbed \cup gone

(***************************************************************************)
(* Nothing outlives the requests: when all have ended, by whatever errors  *)
(* and restarts, the isolate holds the context of none, streaming is off   *)
(* and nobody counts as streaming, unless a task was dropped or timed out; *)
(* then it is that task's context that is left, and as many are counted    *)
(* as such tasks at most.                                                  *)
(***************************************************************************)
NothingLeft ==
  Quiet => /\ slot \in lost \cup {None}
           /\ count <= Cardinality(lost)
           /\ enabled => lost # {}

(***************************************************************************)
(* A render that no other render overlaps but behind the mutex, and no     *)
(* restart, finds streaming enabled, unless a task was dropped that had    *)
(* counted itself and not enabled it.                                      *)
(***************************************************************************)
StreamsAreEnabled == lost = {} => plain \subseteq overlapped

(***************************************************************************)
(* Every request that is made is answered, or has its stream, also when    *)
(* tasks are dropped that hold the mutex.                                  *)
(***************************************************************************)
RequestsEnd == <>[](\A r \in Request : todo[r] \in {<<>>, <<"start">>, <<"stream">>})

-----------------------------------------------------------------------------
(* The parts of the inductive invariants of the proofs.                    *)

\* What a task of each kind can have to do.
StaticTodos ==
  {<<"start">>, <<>>, <<"unlock">>, <<"clear", "unlock">>,
   <<"disable", "clear", "unlock">>, <<"undo", "clear", "unlock">>,
   <<"uncount", "clear", "unlock">>,
   <<"render", "uncount", "clear", "unlock">>,
   <<"inject", "render", "uncount", "clear", "unlock">>,
   <<"enable", "inject", "render", "uncount", "clear", "unlock">>,
   <<"count", "inject", "render", "uncount", "clear", "unlock">>,
   <<"set", "count", "inject", "render", "uncount", "clear", "unlock">>,
   <<"lock", "set", "count", "inject", "render", "uncount", "clear", "unlock">>}

StreamedTodos ==
  {<<"start">>, <<>>, <<"stream">>, <<"resolve", "stream">>,
   <<"render", "resolve", "stream">>, <<"inject", "render", "resolve", "stream">>,
   <<"enable", "inject", "render", "resolve", "stream">>,
   <<"count", "inject", "render", "resolve", "stream">>,
   <<"set", "count", "inject", "render", "resolve", "stream">>,
   <<"unlock", "set", "count", "inject", "render", "resolve", "stream">>,
   <<"lock", "unlock", "set", "count", "inject", "render", "resolve", "stream">>,
   <<"clear">>, <<"undo", "clear">>, <<"disable", "clear">>, <<"uncount", "clear">>,
   <<"unlock", "clear">>, <<"fallback", "unlock", "clear">>,
   <<"lock", "fallback", "unlock", "clear">>,
   <<"disable", "lock", "fallback", "unlock", "clear">>,
   <<"uncount", "lock", "fallback", "unlock", "clear">>}

ActionTodos ==
  {<<"start">>, <<>>, <<"unlock">>, <<"clear", "unlock">>,
   <<"render", "clear", "unlock">>, <<"set", "render", "clear", "unlock">>,
   <<"lock", "set", "render", "clear", "unlock">>}

ApiTodos ==
  {<<"start">>, <<>>, <<"clear">>, <<"render", "clear">>, <<"set", "render", "clear">>}

TodosOf(r) ==
  CASE r \in Static -> StaticTodos
    [] r \in Streamed -> StreamedTodos
    [] r \in Action -> ActionTodos
    [] r \in Api -> ApiTodos

TodosInv == \A r \in Request : todo[r] \in TodosOf(r)

\* What a list of things to do says of where its task is.
Meets(list, ops) == ToSet(list) \cap ops # {}
InLock(list) == Meets(list, {"unlock"}) /\ ~Meets(list, {"lock"})
Counted(list) == Meets(list, {"uncount", "undo", "stream"}) /\ ~Meets(list, {"count"})
Clears(list) == Meets(list, {"clear", "stream"}) /\ ~Meets(list, {"set"})
Renders(list) == Meets(list, {"render", "fallback", "resolve"})

LockInv == \A r \in Request : InLock(todo[r]) <=> lock = r

\* A message in the channel is awaited, or comes from what a stream left, or its
\* task was dropped or timed out.
MessageInv ==
  /\ \A m \in spawned : m.of \in Streamed /\ todo[m.of] = <<>>
  /\ \A i \in 1..Len(queue) :
       LET m == queue[i]
           r == m.of
       IN /\ m.op = "chunk" => r \in resolving
          /\ \/ r \in lost \/ m.op = "chunk"
             \/ m.op \in {"clearIf", "disable"} /\ r \in Streamed /\ todo[r] = <<>>
             \/ r \in sent /\ Head(todo[r]) = m.op
  /\ \A i, j \in 1..Len(queue) :
       queue[i].of = queue[j].of /\ queue[i].of \in sent \ lost => i = j
  /\ \A r \in resolving : r \in Streamed /\ todo[r] \in {<<>>, <<"stream">>}

\* A task that was dropped or timed out does not begin anything.
LostInv == \A r \in lost : ~Meets(todo[r], {"start", "set", "count"})

Counting == {r \in Request : Counted(todo[r])}

CountInv ==
  /\ Cardinality(Counting) <= count
  /\ count <= Cardinality(Counting \cup lost)

\* Someone has still to clear the context.
SlotInv ==
  slot # None =>
    \/ slot \in lost \/ Clears(todo[slot])
    \/ Message("clearIf", slot) \in spawned \cup ToSet(queue)

\* Someone has still to disable streaming.
EnabledInv ==
  lost = {} =>
    /\ enabled => \/ Counting # {} \/ \E r \in Request : At(r, "disable")
                  \/ \E m \in spawned \cup ToSet(queue) : m.op = "disable"
    /\ \A r \in Request : At(r, "undo") => ~enabled
    /\ \A q, r \in Request :
         (At(q, "enable") \/ At(q, "undo")) /\ (At(r, "enable") \/ At(r, "undo")) => q = r

OverlapInv ==
  /\ \A r \in Render : Active(r) /\ r \notin overlapped =>
       /\ \A q \in Render : Active(q) => Apart(q, r)
       /\ lost = {} /\ Counted(todo[r]) => enabled \/ At(r, "enable")
  /\ lost = {} => plain \subseteq overlapped

\* The message m takes the context of r, and r may not be told.
Takes(m, r) ==
  \/ m.op \in {"set", "clear"} /\ Apart(m.of, r) /\ m # Message("set", r)
  \/ m = Message("clearIf", r)

\* When the thread gets to place n of the channel, the context is that of r.
OwnAt(r, n) ==
  \E p \in 0..(n - 1) :
    /\ IF p = 0 THEN slot = r ELSE queue[p] = Message("set", r)
    /\ \A i \in (p + 1)..(n - 1) : ~Takes(queue[i], r)

\* The context of r has been sent, and a script of r has still to be.
RunsLater(r) ==
  \/ r \in resolving
  \/ Renders(todo[r]) /\ (Meets(todo[r], {"set"}) => At(r, "set") /\ r \in sent)

ContextInv ==
  /\ misread \subseteq disturbed \cup gone
  /\ \A r \in resolving : Message("clearIf", r) \in spawned => r \in gone
  /\ \A r \in Request \ (disturbed \cup gone) :
       /\ \A n \in 1..Len(queue) : queue[n].of = r /\ Runs(queue[n]) => OwnAt(r, n)
       /\ RunsLater(r) => OwnAt(r, Len(queue) + 1)

IInv ==
  /\ TypeOK /\ TodosInv /\ LockInv /\ MessageInv /\ LostInv /\ CountInv
  /\ SlotInv /\ EnabledInv /\ OverlapInv /\ ContextInv
=============================================================================
