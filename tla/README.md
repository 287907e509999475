# TLA+ models of the rari server, runtime and client

This repository compares two web frameworks. It holds a vendored copy of
Next.js (`nextjs/`), load scripts (`wrk/`), two toy applications (`app/`) and
`rari/`, a React framework whose HTTP server and JavaScript runtime are written
in Rust (`rari/crates/rari`) and whose client and build tools are in TypeScript
(`rari/packages/rari`). The program's own logic, with its concurrency, is in
`rari/`; everything here is about that part. In what follows, `R` stands for
`src/rari/crates/rari/src` and `P` for `src/rari/packages/rari/src`.

TLC checks each model on a small instance. TLAPS proves theorems about the
models for every value of their constants.

| Module | Lines of | What it is |
|---|---|---|
| `ResponseCache` | `R/server/cache/response_cache.rs` | the server's response cache, one action per critical section |
| `LruCache` | the same | abstract: a bounded LRU cache with tags, one step per operation |
| `ResponseCacheAtomic` | the same | the refinement mapping from the first to the second |
| `PageServing` | `R/server/handlers/{app,revalidate}_handler*.rs`, `R/rsc/rendering/layout/core.rs`, `R/server/cache/warmup.rs` | the page handler between the response cache and the renderer's HTML cache, with revalidations and actions |
| `RenderContext` | `R/rsc/rendering/layout/core.rs`, `R/runtime/mod.rs`, `R/rsc/rendering/streaming/promise_resolver.rs` | what requests share in the runtime: the request context, the streaming flag and count |
| `FetchCache` | `R/runtime/ext/web/init_fetch.js`, `R/runtime/ops.rs`, `R/server/middleware/request_context.rs` | `fetch()`: deduplication in the isolate, cache and in-flight table in Rust |
| `JsRuntime` | `R/runtime/runtime_factory/{deno_runtime,executor,constants,v8_utils}.rs` | the thread that owns the JavaScript isolate |
| `ClientRouter` | `P/router/ClientRouter.tsx`, `P/router/navigation-error-handler.ts` | navigations, the URL, errors and retries |
| `ClientNavigation` | `P/runtime/AppRouterProvider.tsx` | the router composed with the provider of the page's content and its refetches |
| `Debounce` | `P/router/debounce.ts` | the debouncer in front of the router |
| `HotReload` | `P/vite/hmr-coordinator.ts`, `P/vite/server-build.ts`, `P/vite/index.ts`, `R/server/handlers/hmr_handlers.rs` | a save of a server component: its batch, the full build and the registration it starts, and its reload |
| `...Proofs` | | theorems about the module of that name; `ClientProofs` about `ClientRouter` and `ClientNavigation` |
| `MC...` | | small instances for TLC |

To run: `tlc -config ResponseCacheSeq.cfg MCResponseCache` (and so on; `PROJECT.json`
pairs each configuration with its MC module), `tlapm JsRuntimeProofs.tla`.

## 1. Inventory of the system

A request goes from an axum task through the page handler to the layout renderer,
which turns it into scripts for the JavaScript runtime; what comes back is made
into HTML or an RSC stream, cached, compressed and sent. The tasks run in parallel
on Tokio's pool. There is one JavaScript thread. In the browser, the client router
fetches pages and the provider shows them; in development, the Vite plugin rebuilds
what is saved and tells the server.

**Response cache** (`R/server/cache/response_cache.rs`). State: a `DashMap` of
responses, an LRU list behind a mutex, a `DashMap` from tags to keys, metrics behind
a third lock. Operations: `get`, `set` (with `evict_lru`), `update_in_place`,
`invalidate`, `invalidate_by_tag`. It is shared by every request task. Hard: each
operation takes three or four locks one after the other. Correct when: a tag reaches
every response it was given to, the bound holds, the count is that of the map.

**Route serving** (`app_handler.rs`, `revalidate_handlers.rs`, `warmup.rs`, actions'
redirects). State: the response cache, the HTML cache of the renderer, and what each
handler holds across an await. Operations: serve a page as HTML, as a stream or as
RSC; revalidate by path or tag; warm up. Hard: a body compressed for one client and
served to others, a render in flight while its path is revalidated, two caches and
three ways to clear them. Correct when: a client can decode what it gets, and sees no
page older than the revalidation before its request.

**Layout renderer and request context** (`R/rsc/rendering/layout/core.rs`). State: one
request-context slot in the runtime, the streaming reference count and flag, the
mutex of the renderer. Hard: renders that overlap share the slot; tasks are dropped
with a client; errors at every step. Correct when: a request reads its own context,
streaming is on while somebody streams, and nothing is left when all have ended.

**Fetch cache** (`init_fetch.js`, `op_fetch_with_cache`, `request_context.rs`). State:
`requestDedupeMap` in the isolate; `GLOBAL_FETCH_CACHE` (LRU of 1000, each entry with
a time) and `GLOBAL_IN_FLIGHT_FETCHES` (a mutex per key) in Rust, which outlive it.
Operations: a call of `fetch`, the steps of the op, the reactions to its promise,
the fallback to a plain fetch. Hard: two layers with different keys, waiters that
wake late, the timeout that leads to a second request, restarts of the isolate in
between. Correct when: one request per key is on the network, no answer is older
than its caller allows, every caller is answered.

**JavaScript runtime thread** (`R/runtime/runtime_factory`). State: the channel of
requests, the isolate with its `globalThis`, `pending_batches`, `batch_id_counter`.
Operations: run a script and wait for its promise, start a batch and answer its
scripts as they finish, load and evaluate modules, set the request context, restart.
Hard: promises that settle after they were given up, shared cells in `globalThis`,
deadlines, restarts with work pending. Correct when: everyone is answered, once, with
their own result.

**Client router and provider** (`P/router`, `P/runtime/AppRouterProvider.tsx`). State:
the navigations and their abort controllers, the table of pending ones, the history,
the error, its retries and the count it was rendered with; the bodies being read, the
refetches, the screen. Hard: navigations that overtake each other, failures that write
the URL, a browser that refuses to, refreshes that race navigations, a router that has
moved on while the provider still reads, a streamed page that is on the screen before it
is complete. Correct when:
one navigation at a time can change the page, the URL tells where the user is, and the
screen shows the current route in the end.

**Debouncer** (`P/router/debounce.ts`). State: a timer, the last arguments, two times.
Hard: `maxWait` sets a second timer and forgets the first. Correct when: the last
click is answered, once, in time, and never after a cancel.

**Hot reload** (`P/vite`, `hmr_handlers.rs`). State: the files that were saved, the
timer of a batch, the build cache with its time stamps, the output directory, the
components of the server. Operations of a save: its batch, a full build, a registration.
Hard: they overlap and write the same things, a file below `app/` is bundled from the
output directory they write, a save comes during a build. Correct when: what the server
runs in the end is what was saved last, with all it is made of.

**Lazy runtime** (`lazy_runtime.rs`, `runtime/mod.rs`): an optional runtime behind a
mutex; two first calls, the mutex held across an answer, 30 s timeouts.
**Streaming renderer** (`R/rsc/rendering/streaming/`): boundaries, pending promises,
rows; promises resolve in any order. **RSC wire format** (`R/rsc/wire_format/`) and
**route matching** (`R/server/routing/`): pure. **Module reload and loader**
(`R/runtime/module_reload/`, `module_loader/`): a debounce timer per component,
versioned specifiers. **Image and Open Graph caches** (`R/server/image/`, `og/`): a
memory cache with a byte budget and a directory. **Without state of their own**: proxy
middleware, API routes, component rendering, HTML renderer, compression,
configuration, static files, command line tools. Not rari: `nextjs/`, `wrk/`, `app/`.

### Interactions

* The page handler calls `get` and `set` of the response cache, then the layout
  renderer (`PageServing`; what happens inside an operation is in `ResponseCache`).
* The renderer sends its context, scripts and batches to the runtime thread
  (`RenderContext` for the context, `JsRuntime` for the answers). Server actions and
  API routes do the same without the renderer.
* Scripts call `fetch`, which calls `op_fetch_with_cache` on the same thread
  (`FetchCache`).
* Actions and `/_rari/revalidate` call `invalidate` and `invalidate_by_tag`.
* A click goes through the debouncer (`Debounce`) to the router, which tells the
  provider by synchronous events (`ClientNavigation` composes both).
* A save goes through the coordinator and the builder to the server's reload handler, by
  another way to a full build, and by a third to `/_rari/register` (`HotReload` has all).

`PROJECT.json` lists every component and, under `hazards`, what in this code is hard
to test, with the line and the properties that cover it.

A property may name the cases in which it fails for good reason. They are part of its
statement and each is a weakness of the code that the run reaches: those of
`CountMatches`, `FreshAnswers`, `StolenFromAbandoned`, `OwnContext`, `NothingLeft`,
`PendingIsLive`, `UrlMatchesRoute`, `ScreenMatchesRoute`, `StaleOnlyIfRaced`,
`CleanEditsReachPages`, `FreshAfterRevalidation` and `ClientDecodes`. Section 10 lists
them.

## 2. Response cache

`ResponseCache` follows the code lock by lock. `cache`, `lru`, `index` and `total` are
the four structures; `pc[t]` is the critical section a request task executes next and
`task[t]` holds the locals of its operation. The body of a response is left out: a
response is the number of the `set` that brought it, so an old one can be told from a
new one. Its TTL is the action `Expire`. Every caller tags a response with the path of
its route, which is `TagOf`; only HTML keys are written back by `update_in_place`
(the compressed variant of a hit).

`LruCache` says what the cache promises: each operation one step on the responses that are
stored and the relation `older`, which key was used before which. `ResponseCacheAtomic`
maps the state in the middle of an operation to the state after it.

| Run | Instance | Shows |
|---|---|---|
| `cache_alone` | 1 task, 3 keys, 2 tags, 2 entries, 4 sets | the three structures agree between operations, and each operation is atomic: `ImplementsLruCache` is a refinement |
| `cache_concurrent` | 2 tasks, an HTML and an RSC key, 2 tags, 1 entry, 3 sets | `total_entries` is right whenever nothing is under way, unless `update_in_place` has put back what was gone; operations return |
| `cache_lost_tag` | 2 tasks, 2 RSC keys | **violated**: `invalidate_by_tag` races `set` and drops the new key from the index |

Two tasks are enough for each race, since every one is between two operations; one
entry makes evictions happen from the second set on; four sets let an eviction, an
invalidation and a new set of the same key happen in one behaviour. Fairness is weak
fairness of each task's next step: a task never holds a lock across a step, and Tokio
runs what is ready.

`LruMatchesCache` and `IndexCoversCache` are stated of one task: two tasks break both
(section 10). `CountMatches` is of any number of tasks. `update_in_place` may put a response
back that another task has removed, and does not count; `restored` remembers such a return
until the next operation counts, and the property is claimed of the states without one.

Proved (`ResponseCacheProofs`, from `ConstantsAssumption`):

* `TypeCorrect`: types, for any number of tasks.
* `CountsSettle`: `CountMatches`, HTML keys included. The inductive invariant `IInv` adds to
  the types what the locals hold at each label (`LocalsInUse`), and that no two `set` calls
  bring the same response and stored ones were stored (`ResponsesDistinct`). `CountInv` says
  that whoever changed the map last has still to write the count, unless it was a return
  (`restored`), so between operations the last writer was right.
* `LoneIndexCoversCache`: `IndexCoversCache` when one task runs alone.
* `LoneLruMatchesCache`: `LruMatchesCache`, and with it the bound of the map, when one
  task runs alone. `LruInv` says label by label how far the list is ahead of the map:
  its keys are distinct, and there are no more of them than there is room for.
* `LoneImplementsLruCache`: `ImplementsLruCache` when one task runs alone, for every set of
  keys and every maximum. To the invariants above it adds `OperationInv`: the index lists
  keys under their own tag, and what a hit writes back is what is stored. The labels fall
  into five views of the mapping (at rest, invalidating, about to insert, about to link, about
  to count); each operation has one step between views that is the abstract operation, and
  each other step is shown to leave `Settled` and `SettledOrder` alone. The order is a
  relation because the order of a list in which a key is removed, appended or popped can then
  be computed pair by pair (`OrderRemove`, `OrderAppend`, `OrderTail`).

## 3. Serving pages

`PageServing` has one level more: an operation of the response cache is one step, but
for `invalidate_by_tag`, which loops over its copy of the keys (`PurgeSnapshot`,
`Sweep`, `PurgeTag`). `stored` and `index` are the response cache, `layout` is the
renderer's HTML cache. `pc[t]` is where a handler is between two awaits and `task[t]`
its locals; an HTML request goes `layout`, `render`, `keep`, `store`, `reply`, a hit goes to
`reply`, through `update` if it was encoded anew. A page is an *edition* of the data,
read when it is rendered; `Publish` changes the data without a word to the server and
`Action` with an invalidation. Of a response the model keeps the edition and the
encodings: those of the body, those the headers declare, and the variants kept beside
it. `streaming` (`enable_streaming` of the configuration) decides between the two
branches of the handler and is any value.

`floor` and `raced` are for the property: what revalidations have promised for each
key, and the keys that a request in flight may have undone.

| Run | Instance | Shows |
|---|---|---|
| `page_serving` | 2 tasks, a path with and without a query, 2 encodings, 2 editions, 3 requests or revalidations | after a revalidation nobody who asks gets older data from either cache, except a page that was being served meanwhile; clients can decode what they get, except a page stored compressed for another client |

Three calls are a request that is in flight, a revalidation that overlaps it and a
request after both. The model was also run with four calls (one encoding, 9.25
million states), with five calls of one page, and with a path that is not streamed
and is warmed up, with and without `no-store`.

Left out: not-found pages and the check whether a page is one, 304 answers, metadata,
the fallbacks to files, the invalidation by the hot-reload handler, the compression
layer of axum. The cache is enabled, as in production.

Proved, from `ServingAssumption`:

* `ServingTypeCorrect`, and `ClientsDecode`, the property `ClientDecodes`
  (`PageServingProofs`). `IInv` says that the header of a stored response is the
  encoding of its body (`StoredHonestly`) and that at each label the locals of a handler
  are a page as it was rendered for its client, or one made from a clone of such an
  entry (`Good`, with `AsRendered` and `FromEntry`).
* `RevalidationsHold`, the property `FreshAfterRevalidation` (`PageServingProofs`).
  `Freshness` adds that what either cache keeps and a request has in hand is as new as
  promised unless the key is raced (`KeptFresh`, `FreshLocals`), that a key which has
  dropped out of the tag index is raced (`Indexed`), that a revalidation knows of every
  request it overlaps (`MetOk`), and what it has done to all other keys by each of its
  steps (`Progress`). When it promises, a key it covers has then no response, or one
  that was raced before and was not in the tag index (`PromiseSweeps`).

## 4. What renders share in the runtime

`RenderContext`: `slot` is the request context in the op state, `enabled` the streaming
flag, `count` the `streaming_refcount`, `lock` the mutex of the renderer, `queue` the
channel to the runtime thread. A task is the list `todo` of what it has yet to do:
`Plan` gives it for each kind of request and `AfterError` what follows an error at each
step. A step that sends to the thread is in two parts, the sending and the answer
(`sent`); a dropped task, or one that has timed out, leaves what it has sent in the
queue. The end of a stream spawns its cleanup (`spawned`), which is sent on its own time.
The task that resolves the promises of a stream is `resolving`. `misread` and `plain`
record for the properties who met a foreign context, or streaming disabled, and
`disturbed` and `overlapped` who else was there.

| Run | Instance | Shows |
|---|---|---|
| `render_context` | a page under the mutex, a stream and an action; a page and an API route; a stream and a route; two streams; 1 drop, timeout or restart | who may read whose context, that nothing is left when all have ended, that streaming is on for renders, that every request ends |

A page and a stream each meet every other kind in one of the mixes, and the three kinds
that share the mutex or the count are together in one. It was also run with two faults, and with the four kinds at once (12.9
million states). Fairness: Tokio polls what is ready, what is spawned runs, the thread
answers or restarts, since all its waits have timeouts; a client need not read on.

Abstractions: the scripts of a render are one message; the mutex of `LazyRuntime`,
which only restricts the order of sending, is left out; the thread runs a stream's
promises when it takes the batch; the scripts that set the flag and inject helpers are
constant and do not throw; the composition and HTML scripts read no context; the branch
without a request context is one the server never takes.

Proved (`RenderContextProofs`, from `ContextAssumption`: the kinds of requests are disjoint
and finite), for any number of requests in any mix and any bound on the faults:
`ContextTypeCorrect`, `RequestsKeepContext` (the property `OwnContext`), `NothingIsLeft`
(`NothingLeft`) and `StreamsFindEnabled` (`StreamsAreEnabled`). They rest on one inductive
invariant, `IInv`, stated at the end of `RenderContext`:

* `TodosInv`: what a task has still to do is one of the finitely many lists of its kind. All
  else is read off these lists: who is in the mutex (`InLock`), is counted (`Counted`), has
  to clear the context (`Clears`) or to run a script (`Renders`). The lemmas `ListOf`,
  `PutsOf` and `ErrorOf` say how each step, and each error, changes this, and `StepKinds`
  that every step of the system is one of these, a start, a drop, or leaves the lists alone.
* `LockInv`, `CountInv`: the holder of the mutex is who has to unlock it; the count is that of
  the tasks which have to give their reference back, and at most one more for each lost task.
* `MessageInv`, `LostInv`: a message in the channel is awaited by its task, or is from the
  cleanup of a stream that is over or a lost task. The late message of a lost task is why
  `NothingLeft` has its exception.
* `SlotInv`, `EnabledInv`, `OverlapInv`: somebody has still to clear the context that is
  there, or to disable streaming; a render that nothing overlaps is the first to count, so
  it has enabled streaming itself.
* `ContextInv`: follow the channel up to the next script of a request; the last message that
  takes or sets the context on the way there is the request's own `set` (`OwnAt`). The mutex
  is what keeps the messages of an action and a page out of each other's way.

## 5. Fetch cache

A call of `fetch` is a row of `call` with its keys, its TTL and its answer, and a `pc`.
The isolate is single-threaded: what lies between two awaits is one action, and the
reactions to a promise are jobs of the microtask queue `jobs`, in order (the leader's
delivery first, then the followers' clones, then the read of the body by a caller).
In Rust, `stored` and `order` are the LRU cache, `inFlight` the table, `holder` and
`result` the mutex of an entry and what it guards. `Restart` drops the isolate and with
it every call; the Rust side stays. Time is a clock bounded by `MaxTime`; it does not
pass while a job or an op is ready (`Busy`), as TTLs are seconds.

Tokio's mutex is fair; the model lets any waiter have it, which allows more than the
code does.

| Run | Instance | Shows |
|---|---|---|
| `fetch_safety` | 3 calls, 3 deduplication keys on 2 URLs, 1 entry, clock to 1, TTLs of 1 and 2 | types; one request per key; no follower clones a read body; answers no older than the TTL of the call whose promise was awaited |
| `fetch_liveness` | 2 calls, with and without context, revalidate 0 | every fetch settles if servers answer |

Three calls are a leader, a follower and one that comes later and finds the cache; two
URLs on one entry make every second store an eviction. Fairness: the thread runs its
jobs and polls its ops, and timers fire. A server need not answer, except under
`AnsweringSpec`, which `fetch_liveness` uses: a timed-out fetch is made again without
a timeout.

Proved (`FetchCacheProofs`, from `FetchAssumption`): `FetchTypeCorrect`, with the bound of
the LRU list, and `OneFetch`, that two calls with the same key are never both on the
network. The invariant (`EntriesShared`, `CallsInOrder`) says that a call that waits or
fetches is at the entry the table has for its key until a result is there, and that who
fetches holds the entry's mutex. Two that fetch then hold the same mutex.

* `CloneFirst`: `CloneBeforeRead`. `JInv` adds that a call either leads or follows and that
  the map holds only those that lead and have not been delivered (`LeadersLead`), and the
  order of the microtasks (`JobsInOrder`): the clones that follow a delivery are queued
  before the read of the leader's body, so a body that was read has no clone to come.
* `AnswersAreFresh`: `FreshAnswers`, for any TTLs. The deduplication key leaves the TTL out,
  so a call that joins another's promise gets what is fresh enough for that one (`Awaited`);
  no other way lets an older answer through. The invariant adds that a result which waits to
  be taken is of this instant (`EntriesRecent`) and that an answer to be delivered or cloned
  was fresh for the call whose promise it is (`AnswersRecent`).

## 6. JavaScript runtime thread

`queue` is the channel with the senders that wait for room in it; the capacity of 32
only decides who waits inside and who outside. `pc` is the thread: `ready` in `recv`,
`wait` in `run_event_loop_with_promise_timeout`, `check` and `retain` in the two halves
of a round with batches pending, `turn` in the 10 ms of event loop that end a round,
`down` before a restart. `running` are the promises of the isolate that have yet to
settle and the cell that their reaction writes; `settled` are the cells with a result.
`open` are the senders of the pending batches that have sent nothing; `late` the
batches whose deadline has passed. A result is named by the call it belongs to.

`Handled` and the order of `Check`, `Retain` and `EndTurn` are those of the loop: only
if batches were pending before the request does a check follow. Each way a script of a
batch can end is in `StartBatch`: it throws and takes no number, leaves a promise,
leaves a value, or the setup of its tracking fails. `Restart` loses the isolate and
the batches and keeps the channel.

| Run | Instance | Shows |
|---|---|---|
| `runtime_safety` | 2 scripts, 2 batches of 2 | types; a script of a batch gets its own result or an error; a script that gets another's result gets it from one that was given up |
| `runtime_liveness` | 2 scripts, 1 batch of 2, 1 module request | everyone is answered, through restarts; what is in a cell is sent before a deadline |

Two batches of two scripts give every overlap of two numbers and two places; two
scripts are a late one and its victim. The thread may
stop for good when nobody sends anything, so deadlock is not an error. Fairness: the
thread goes on, since each of its waits has a timeout, and time passes. A promise may
never settle, and a script that computes for ever is not modelled.

Proved (`JsRuntimeProofs`, from `RuntimeAssumption`):

* `RuntimeTypeCorrect`: types, and an open sender belongs to a pending batch.
* `BatchesKeepApart`: `BatchOwnAnswer`. `BatchInv` adds that cells carry numbers given
  out before (`Numbered`) and that what runs towards or lies in a cell a sender waits at
  is that sender's (`OwnCells`). It needs `PlaceInjective`: numbering a batch's scripts
  by those that did not throw gives no number twice.
* `OnlyAbandonedLeak`: `StolenFromAbandoned`. `ScriptInv` adds that a script that waits
  was sent once and has no answer (`Unanswered`) and that what can still write
  `~promises` comes from the current script or one given up (`SharedCell`).
* `SettledAreSent`: `SettledIsSent`. `SendersInv` adds that a batch which is not yet sent,
  or still in the channel, has neither answers nor open senders (`Fresh`), that a sender is
  open only as long as its script has no answer, one a script, and that at `retain` none has a
  result in its cell: a deadline that passes there gives up nothing that has arrived.

## 7. Client: router, provider, debouncer

`ClientRouter`: `nav` is every navigation so far with its state and whether its signal
is aborted; `pending`, `controller`, `current`, `error` and `retries` are the refs and state
of those names; `history` and `at` are the browser's. One action is one task of the page
up to its first await. The rejection of an aborted fetch (`Cleanup`) is a microtask: it
precedes the next task (`NoMicrotask`), but not the next call of `navigate`, since the
application may call it twice in one task.

The overlay of an error compares the count of retries it was *rendered* with (`shown`) with
the maximum, and a click of Try Again renders nothing: `CanRetry` is about `shown`, and
`CountRetry` counts `retries` without a limit (`MaxCount` is the run's).

The browser may refuse to write the history, as after too many writes in a short time. In
`navigate` the throw comes before the first await, so the error is handled before the
pending entry is set, which stays (`Refuse`, in `NavigateRefused`, `PopRefused` and
`RetryRefused`); in the handler of another failure it comes before the entry is deleted
(`FailRefused`). Such a navigation is `refused`.

`ClientNavigation` EXTENDS the router with the provider: `navId` follows the navigations by
the synchronous event, `bodies` are the answers that `handleNavigate` has yet to show,
`refetches` the fetches of `refresh()`, hot updates and new manifests, `screen` what is
shown. The server's content has editions, and an answer may come from a cache. A body is
awaited and shown whole (`ShowBody`) or, if it is `streamed`, shown in a microtask and
filled up on the screen (`ShowStream`, `Open`), where it ends, breaks, or is aborted by the
next navigation (`StreamEnds`, `StreamFails`, `StreamAborted`); one that breaks before its
root row takes the page away, and the provider renders the page it was mounted with.

`Debounce` keeps how long ago the last call and the last invocation were, up to the
longer of the waits, in place of the times; a timer may be late. `waiting` is how long the
first unanswered call has waited while no timer was late.

| Run | Instance | Shows |
|---|---|---|
| `client_navigation` | 3 routes, one of which redirects; 2 navigations, 2 refetches in flight, 2 editions, maximum of 1 retry with 2 counted | one navigation at a time can change the page; a click is swallowed only by a navigation under way or a refused one; the URL is right unless the newest navigation was refused; the screen shows the current route in the end, but for three ways to lose it; refreshes go forward; one body at a time is read |
| `debounce` | wait 3, maxWait 5, 3 timers, 4 calls, all options | no call waits too long, is invoked after its cancel, or is lost |

Two navigations are one and the one that overtakes it, in each of the ways to start one
(push, replace, back and forward, retry); the theorems hold for any number. A count of 2
with a maximum of 1 shows a retry beyond the maximum. Three timers are the current one and two forgotten by `maxWait`. Fairness of
`debounce`: time passes and timers that are due run.

Proved:

* `ClientProofs`, from `RouterAssumption` and `ProviderAssumption`: `RouterTypeCorrect`,
  `OneNavigationInFlight`, `PendingNavigationsLive`, `UrlFollowsRoute`. They are
  one inductive invariant: to know that an abort reaches every navigation one needs that
  the newest is in the controller's hands (`NewestIsLive`) and that the table holds no
  other; that a failure writes the right URL needs that nobody but the newest can fail. A refused
  navigation can only be the newest one: the next one removes its entry.
* The same module about `ClientNavigation`: `NavigationImplementsRouter`, that the router
  composed with the provider is still the router (each step of the two is one of the
  router's or leaves its variables alone), which hands the four theorems above on;
  `NavigationTypeCorrect`; `OneBodyIsRead` and `ScreenShowsRoute`, the properties
  `OneBodyRead` and `ScreenMatchesRoute`; and `RefreshesAreInOrder`, the action property
  `RefreshesInOrder`. `PInv` says that a body being read, a refetch and the screen each
  belong to a navigation and to the path that it ends at (`BodiesOfDone`, `RefetchesBelong`,
  `ScreenBelongs`), that a stream which is open on the screen is that of the newest navigation
  or aborted, that the screen lags behind the route only if a body was lost or one is
  being read (`ShownUnlessLost`), and that the refetches of one navigation and path are one
  and no older than the screen (`RefetchesKeyed`, `RefetchesRecent`). The assumption says
  that a request's path ends at one that redirects no more; without it a refresh of the
  path a navigation has reached could be led on to another page.
* `DebounceProofs`, from `DebounceAssumption`: `TypeCorrect`, `KeptAlwaysHasTimer`,
  `KeptAlwaysNew`, `WaitIsBounded`, `CancelIsFinal`. The invariant adds `KeptWaits`: a
  kept call has waited no longer than its timer, or the last invocation, allows.

## 8. Hot reload of server components

A save of a file starts three things on the development server's one thread, which
interleave at every await:

* the coordinator puts it into a batch (`Save`, `pendingFiles`, `batchTimer`), which
  rebuilds and reloads the file and the files below `app/` that depend on it
  (`BatchStarts`, `batches`: the jobs of a batch that are not settled, each at one of the
  steps of `rebuildComponent` and `notifyRustServer` between two awaits). A page, layout,
  loading, error or not-found file does not get there (`SaveRoute`);
* the build plugin builds all files anew, one after the other in `Order`, those outside
  `app/` first (`runs`, `BuildAll`);
* the plugin of `vite/index.ts` registers the file with the server (`Register`), which
  imports it by a specifier that never changes and so gets the module of its first
  registration again, whatever edition that was. Registrations are started by other things
  too and take their time, so one may end at any moment.

`disk` is the output directory, which batches and full builds write, `buildCache` the
builder's cache with its time stamps, `loaded` what the server renders of a file. An edition
of a file is the time of its save, the clock counts saves. A bundle is the edition of the
file itself (`own`) and those of what came into it (`rest`): a file outside `app/` is bundled
with the sources of all it imports (`Sources`), one below `app/` with what is *built* of them
at that moment (`Built`). `Imports` is what the bundler follows, `Importers` what the builder
knows of it: a graph it made once, at the start, and which may lack imports. `broken`,
`raced`, `last` and `clean` are for the properties.

| Run | Instance | Shows |
|---|---|---|
| `hot_reload` | a panel below `app/` imports a card, which imports a badge, beside a page; 2 saves, 2 batches or full builds at a time; registrations of the panel | a file is stale in the end only if its rebuild failed, the save came during a rebuild or a registration came after it; an edit made at rest, whose full build is over before its batch starts and of which nothing fails, reaches every page; every batch and every build ends |

The panel is bundled with a built card that no batch of the badge rebuilds: only the full
build does, which is why `CleanEditsReachPages` asks that it be over. The code has nothing
to make it so, as the batch waits 200 ms and not for the build. The property makes two more
exceptions: a file below `app/` that imports another one there may be built before it
(`Flat`), and what is registered later. Two batches or builds at a time are the one and the
other that overtakes it. Fairness: timers fire and what is awaited settles. If all saves are
served nothing is left to do, so deadlock is not an error.

Proved (`HotReloadProofs`, from `HotReloadAssumption` and `NoneAssumption`), for any import
graph, any order with the files outside `app/` first and any number of saves, batches and
full builds at a time: `HotReloadTypeCorrect`, `EditsAreServed` (the property
`StaleOnlyIfRaced`) and `EditsReachPages` (`CleanEditsReachPages`). The invariant is `HInv`:

* of each file the coordinator reloads and no save has raced with (`Calm`): every job and
  every full build that holds code of it holds its last edition, what passes for fresh in the
  build cache is that edition, and the file waits for a batch, is being rebuilt, or is served
  (`Served`). Any number of rebuilds of one file may be under way;
* as long as all went as intended since the last save (`AsIntended`): the full build comes
  first and alone, and what it has written up to now is up to date, so that a file below
  `app/` finds the new builds of what it imports (`ImportsBefore`, `FlatSound`); then the
  batch builds each of its files anew (`Intended`), from a directory that is up to date
  everywhere.

## 9. What is proved and what is only model-checked

The eight proof modules hold what the sections above name, from the named assumption on
the constants. Every invariant and action property that a run checks is the statement of a
theorem as well. Three are so for one task, because two break them: `IndexCoversCache`,
`LruMatchesCache` and the refinement of `LruCache`. TLC found each to hold on a small
instance first.

Out of the proof system's reach, and left to TLC: liveness (`OperationsReturn`,
`FetchSettlesIfAnswered`, `EveryoneAnswered`, `LastCallAnswered`, `ReloadsEnd`,
`RequestsEnd`) and ENABLED.

## 10. What the code does that one might not expect

One run is meant to fail. `cache_lost_tag` checks what a test of the cache says of one task
(`response_cache.rs:529-531`), and `PROJECT.json` quotes it under `findings`.

Reached by a run, and named by a property as its exception:

* Every script that returns a promise reports through one cell: the late promise of a
  script that timed out answers the next script (`constants.rs:63`; `StolenFromAbandoned`).
* Streamed renders, API routes and actions set and clear the one request context without
  asking whose it is (`core.rs:513`, `:538`); the promises of a stream whose client has
  gone run in whatever context is there (`promise_resolver.rs:248`; `OwnContext`).
* A dropped render leaves its context, its count and the flag (`NothingLeft`).
* A request in flight during a revalidation stores its old page after it, and may store it
  outside the tag's list, where the next revalidation by tag misses it. A revalidation by
  path leaves the RSC key of the path, one by tag leaves the HTML cache of the renderer
  (`revalidate_handlers.rs:38-84`; `FreshAfterRevalidation`).
* A page is stored as it was compressed for the first client, and served so, or compressed
  once more, to the others (`app_handler.rs:1149`; `ClientDecodes`).
* A refresh takes its path from the URL, which a navigation under way has changed: if that
  fails, the refresh shows the wrong page (`AppRouterProvider.tsx:538`;
  `ScreenMatchesRoute`). A body that fails leaves the old page under the new route; a
  streamed one that breaks or is aborted leaves part of a page, or the first page of all
  (`:670-675`, `:1073-1091`).
* If `pushState` or `replaceState` throws, the path of the navigation stays pending with
  nothing under way, and clicks on it do nothing until another navigation is made
  (`ClientRouter.tsx:573-578`, `:642`; `PendingIsLive`, `UrlMatchesRoute`).
* A bundle is stamped with the end of its build, though its sources were read at the start
  (`server-build.ts:1357`; `StaleOnlyIfRaced`).
* A file below `app/` is bundled with built files that its batch does not rebuild, or
  rebuilds at the same time; the full build that would help may come later, and builds the
  files below `app/` in the order of the directory (`server-build.ts:750`, `:980`;
  `CleanEditsReachPages`).
* A registration that ends after the reload gives the server an old module again
  (`vite/index.ts:1600`, `R/rsc/rendering/core/renderer.rs:534`; `StaleOnlyIfRaced`).
* `update_in_place` brings back what was invalidated in between, uncounted
  (`response_cache.rs:264`; `CountMatches`). A fetch that joins another's promise is answered
  under the TTL of that one (`init_fetch.js:207`; `FreshAnswers`).

Seen while modelling:

* Two sets can both find room, and the cache outgrows `max_entries` (`response_cache.rs:240`).
* Try Again works beyond `maxRetries` while the overlay stays, as it compares the count of its
  last render (`NavigationErrorOverlay.tsx:22`, `ClientRouter.tsx:881`).
* A fetch that timed out is made again without a timeout (`:195`); a response with an error status is
  cached like any other, where the documentation says only successful ones are; a fetch with
  no `revalidate` has a TTL of 60 s, where it says "until revalidation/eviction".
* A batch whose deadline passes between `check_pending_batches` and `retain` is told that
  the runtime is being restarted when it is not.
* A refresh whose text equals that of the last refresh is dropped, even if a navigation has
  shown an older edition since (`AppRouterProvider.tsx:573-576`).
* With streaming on, a path configured `no-store` is cached under the default policy
  (`app_handler.rs:1131-1145`); the RSC responses that the warm-up renders are never read;
  the cache configurations that `cache_loader.rs` loads are not read either.

## 11. What is not modelled

Contents: HTML, RSC rows, headers, bodies, keys as strings. Hit and miss counters and
the byte estimate of the response cache; `clear`, which has no caller. The cookie and
function-cache parts of `RequestContext`. Of the runtime thread the requests that only
touch the module loader, `execute_script_for_streaming`, which the server never calls, and a
module with a top-level await that needs the event loop (`executor.rs:98` awaits it without
polling).

On the client: scroll positions, metadata, the state preserver and the RSC parser. Streamed
answers to navigations are modelled, by what a broken one leaves on the screen and not row by
row. The late rows of the first page (`rari:rsc-row`, `AppRouterProvider.tsx:843-1007`) are
not: they are parsed without the root row, which came before the page could be navigated, so
the parse fails and they never change the screen. The count of failed refetches
(`trackHMRFailure`) is not, which reloads the page when there are many in a row; nor is what
comes after a reload, since the model is of the life of one page.

Of hot reload: client components, which Vite reloads; the way route files are reloaded, which
is the router plugin's (`P/router/vite-plugin.ts:320-400`) and ends in
`reload_component_from_dist` of `rsc_handlers.rs` (`StaleOnlyIfRaced` leaves them out, the
full builds they start are in); edits that change what a file imports, since `Imports` is a
constant, and the builder's graph is never made anew; a bundle read while it is being
written; the manifest; the caches of the module loader and V8's module map, beyond what a
registration gets from it. Whether the dependencies of a cached build have changed
(`server-build.ts:1335`) is decided by the source of the file itself, so it is the same as
whether its edition has.

Whole components are listed in `PROJECT.json` with the reason: most are pure or stateless,
`nextjs/` is a third party's and by far the largest part of the sources, so the share of all
lines that the models cover is small.

## 12. Plan

What is left, in this order:

1. `LazyRuntime`: first calls racing, the mutex held across an answer, 30 s timeouts; over
   an abstract runtime that answers once, which `JsRuntime` implements.
2. `ModuleReload`: the debounce of a component against a reload under way; the last change
   is loaded.
3. `StreamingBoundaries`: promises out of order; every boundary replaced once, after it was
   sent. `ImageCache`: the byte budget, which `put` counts wrongly for a replaced image.
4. `WireFormat` and `RouteMatching` as pure operators against reference definitions.
5. The reload of route files by the router plugin beside the batches of `HotReload`.
6. Proofs: what `LruCache` itself promises, which the refinement hands to a cache used by one
   task.
