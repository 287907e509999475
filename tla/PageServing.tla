------------------------------ MODULE PageServing ------------------------------
(***************************************************************************)
(* How pages are served: the page handler (app_handler.rs) between the     *)
(* response cache and the renderer's cache of HTML (layout/core.rs), the   *)
(* revalidation by path and by tag (revalidate_handlers.rs), server        *)
(* actions that redirect (actions/mod.rs) and the warm-up (warmup.rs).     *)
(* The tasks interleave at every await.  What a page shows is the edition  *)
(* of the data its render has read.  An operation of the response cache is *)
(* one step, but for invalidate_by_tag, which loops; the module            *)
(* ResponseCache has their parts.  The cache is enabled, as in production. *)
(***************************************************************************)
EXTENDS Naturals, Sequences

CONSTANTS
  Task,         \* the tasks of the server
  Page,         \* the pages: a path with its query
  Route,        \* the paths
  RouteOf,      \* the path of a page
  Bare,         \* the pages without a query
  Loading,      \* the paths with a loading.tsx, whose pages are streamed
  NoStore,      \* the paths configured no-store or no-cache
  Encoding,     \* the content encodings
  Identity,     \* the client takes none
  MaxEditions,  \* bound: editions of the data
  MaxCalls,     \* bound: requests, revalidations and actions
  None

Key == [page: Page, mode: {"html", "rsc"}]

ASSUME ServingAssumption ==
  /\ RouteOf \in [Page -> Route] /\ Bare \subseteq Page
  /\ \A p, q \in Bare : RouteOf[p] = RouteOf[q] => p = q
  /\ Loading \subseteq Route /\ NoStore \subseteq Route
  /\ Identity \notin Encoding
  /\ MaxEditions \in Nat /\ MaxCalls \in Nat
  /\ None \notin Nat \cup Key \cup {"path", "tag", "action"}

VARIABLES
  streaming,    \* config.rsc.enable_streaming
  edition,      \* the edition of the data
  stored,       \* the response under each key, None if there is none
  index,        \* the keys the tag index lists for each path
  layout,       \* the edition in the HTML cache of the renderer, or None
  pc, task,     \* where each task is, and its locals
  calls,
  floor,        \* of each key the edition that revalidations have promised
  raced         \* the keys of requests that a revalidation has overlapped

vars == <<streaming, edition, stored, index, layout, pc, task, calls, floor, raced>>
caches == <<stored, index, layout>>
promises == <<floor, raced>>

KeyRoute(k) == RouteOf[k.page]
Html(k) == k.mode = "html"

\* The response to a client that takes encoding e, header by header.
Encoded(e) == IF e = Identity THEN <<>> ELSE <<e>>

\* A response that is stored: how its body is encoded, the content-encoding
\* among its headers, and the encodings it is kept in beside.
Response(ed, layers) ==
  [edition |-> ed, layers |-> layers, header |-> layers, variants |-> {}]

Blank == [key |-> None, accepts |-> Identity, edition |-> None, failed |-> FALSE,
          layers |-> <<>>, declared |-> <<>>, clone |-> None, since |-> 0,
          how |-> None, route |-> None, todo |-> {}, unlisted |-> {}, met |-> {}]

Listed(S) == [r \in Route |-> {k \in S : KeyRoute(k) = r}]

\* warm_cache, before the server listens: the RSC keys of some paths, which
\* are those it could render.
Init ==
  /\ streaming \in BOOLEAN
  /\ edition = 0
  /\ \E warm \in SUBSET {k \in Key : /\ ~Html(k) /\ k.page \in Bare
                                     /\ KeyRoute(k) \notin Loading \cup NoStore} :
       /\ stored = [k \in Key |-> IF k \in warm THEN Response(0, <<>>) ELSE None]
       /\ index = Listed(warm)
  /\ layout = [p \in Page |-> None]
  /\ pc = [t \in Task |-> "idle"]
  /\ task = [t \in Task |-> Blank]
  /\ calls = 0
  /\ floor = [k \in Key |-> 0]
  /\ raced = {}

Goto(t, label) == pc' = [pc EXCEPT ![t] = label]

\* The request is answered, or the revalidation has returned.
Return(t) == Goto(t, "idle") /\ task' = [task EXCEPT ![t] = Blank]

Revalidating(t) == task[t].how \in {"path", "tag", "action"}
Requested == {task[t].key : t \in Task} \ {None}

-----------------------------------------------------------------------------
(* A request for a page.                                                   *)

\* Mutant: the encoding of an RSC hit is negotiated as well.
HitInAnyMode(r, entry) ==
  LET e == r.accepts
      Again == [r EXCEPT !.layers = entry.layers \o Encoded(e),
                         !.declared = Encoded(e) \o entry.header]
  IN {[reply |-> Again, at |-> IF e \in entry.variants THEN "reply" ELSE "update"]}

\* Mutant: the encoding of a hit is left out of its headers.
HitUndeclared(r, entry) ==
  {[reply |-> [r EXCEPT !.layers = entry.layers \o Encoded(r.accepts),
                        !.declared = entry.header], at |-> "reply"]}

\* response_cache.get has found entry: the body is the one that is kept in
\* the encoding of the client, or is encoded now, if that makes it smaller.
HitAs(r, entry) ==
  LET e == r.accepts
      Plain == [r EXCEPT !.layers = entry.layers, !.declared = entry.header]
      Again == [r EXCEPT !.layers = entry.layers \o Encoded(e),
                         !.declared = Encoded(e) \o entry.header]
  IN IF ~Html(r.key) \/ e = Identity THEN {[reply |-> Plain, at |-> "reply"]}
     ELSE IF e \in entry.variants THEN {[reply |-> Again, at |-> "reply"]}
     ELSE {[reply |-> Plain, at |-> "reply"], [reply |-> Again, at |-> "update"]}

\* handle_app_route up to its first await after the look at the cache.
Request(t, k, e) ==
  /\ pc[t] = "idle" /\ calls < MaxCalls
  /\ calls' = calls + 1
  /\ LET r == [Blank EXCEPT !.key = k, !.accepts = e, !.since = floor[k]]
         asks == [u \in Task |-> IF Revalidating(u)
                                 THEN [task[u] EXCEPT !.met = @ \cup {k}] ELSE task[u]]
         cached == Html(k) \/ ~streaming
     IN \/ /\ cached /\ stored[k] # None
           /\ \E hit \in HitAs([r EXCEPT !.edition = stored[k].edition,
                                         !.clone = stored[k]], stored[k]) :
                task' = [asks EXCEPT ![t] = hit.reply] /\ Goto(t, hit.at)
        \/ /\ ~(cached /\ stored[k] # None)
           /\ task' = [asks EXCEPT ![t] = r]
           /\ Goto(t, IF Html(k) THEN "layout" ELSE "render")
  /\ UNCHANGED <<streaming, edition, caches, promises>>

\* update_in_place: the clone of the hit with what was encoded for it.
Update(t) ==
  /\ pc[t] = "update"
  /\ LET r == task[t] IN
       stored' = IF stored[r.key] = None THEN stored
                 ELSE [stored EXCEPT ![r.key] =
                         [r.clone EXCEPT !.variants = @ \cup {r.accepts}]]
  /\ Goto(t, "reply")
  /\ UNCHANGED <<streaming, edition, index, layout, task, calls, promises>>

\* What is done with a page in one piece, of edition ed.  With streaming it is
\* encoded for the client, if that makes it smaller, and stored; it is not if
\* a first render had failed.  Without, the configuration of its path decides.
Assemble(t, ed) ==
  LET r == task[t]
      stores == IF streaming THEN Html(r.key) /\ ~r.failed
                ELSE KeyRoute(r.key) \notin NoStore
  IN /\ \E layers \in {<<>>} \cup
             (IF streaming /\ stores THEN {Encoded(r.accepts)} ELSE {}) :
          task' = [task EXCEPT ![t] = [@ EXCEPT !.edition = ed, !.layers = layers,
                                                !.declared = layers]]
     /\ Goto(t, IF stores THEN "store" ELSE "reply")

\* html_cache.get
LayoutHit(t) ==
  /\ pc[t] = "layout"
  /\ layout[task[t].key.page] # None
  /\ Assemble(t, layout[task[t].key.page])
  /\ UNCHANGED <<streaming, edition, caches, calls, promises>>

LayoutMiss(t) ==
  /\ pc[t] = "layout"
  /\ layout[task[t].key.page] = None
  /\ Goto(t, "render")
  /\ UNCHANGED <<streaming, edition, caches, task, calls, promises>>

Streams(k) == KeyRoute(k) \in Loading /\ (Html(k) \/ streaming)

\* render_route: the composition script reads the data.
Render(t) ==
  /\ pc[t] = "render"
  /\ ~Streams(task[t].key)
  /\ IF Html(task[t].key)
     THEN task' = [task EXCEPT ![t].edition = edition] /\ Goto(t, "keep")
     ELSE Assemble(t, edition)
  /\ UNCHANGED <<streaming, edition, caches, calls, promises>>

\* The page is streamed to the client, or collected if streaming is off.
Stream(t) ==
  /\ pc[t] = "render"
  /\ Streams(task[t].key)
  /\ IF streaming
     THEN /\ task' = [task EXCEPT ![t] =
                         [@ EXCEPT !.edition = edition,
                                   !.layers = Encoded(task[t].accepts),
                                   !.declared = Encoded(task[t].accepts)]]
          /\ Goto(t, "reply")
     ELSE Assemble(t, edition)
  /\ UNCHANGED <<streaming, edition, caches, calls, promises>>

\* It could not be streamed, and render_fallback has rendered it.
Fallback(t) ==
  /\ pc[t] = "render"
  /\ Streams(task[t].key)
  /\ IF Html(task[t].key)
     THEN task' = [task EXCEPT ![t].edition = edition] /\ Goto(t, "keep")
     ELSE Assemble(t, edition)
  /\ UNCHANGED <<streaming, edition, caches, calls, promises>>

\* html_cache.insert
Keep(t) ==
  /\ pc[t] = "keep"
  /\ layout' = [layout EXCEPT ![task[t].key.page] = task[t].edition]
  /\ Assemble(t, task[t].edition)
  /\ UNCHANGED <<streaming, edition, stored, index, calls, promises>>

\* render_synchronous tries once more; then the client gets the shell of the
\* application, or an error.
RenderFails(t) ==
  /\ pc[t] \in {"render", "keep"}
  /\ LET again == Html(task[t].key) /\ streaming /\ ~task[t].failed IN
       /\ task' = [task EXCEPT ![t] = [@ EXCEPT !.failed = TRUE, !.edition = None]]
       /\ Goto(t, IF again THEN "layout" ELSE "reply")
  /\ UNCHANGED <<streaming, edition, caches, calls, promises>>

\* response_cache.set
Store(t) ==
  /\ pc[t] = "store"
  /\ LET r == task[t] IN
       /\ stored' = [stored EXCEPT ![r.key] = Response(r.edition, r.layers)]
       /\ index' = [index EXCEPT ![KeyRoute(r.key)] = @ \cup {r.key}]
  /\ Goto(t, "reply")
  /\ UNCHANGED <<streaming, edition, layout, task, calls, promises>>

Answer(t) ==
  /\ pc[t] = "reply"
  /\ Return(t)
  /\ UNCHANGED <<streaming, edition, caches, calls, promises>>

-----------------------------------------------------------------------------
(* Revalidations and server actions.                                       *)

\* invalidate(k)
Without(k) ==
  /\ stored' = [stored EXCEPT ![k] = None]
  /\ index' = IF stored[k] = None THEN index
              ELSE [index EXCEPT ![KeyRoute(k)] = @ \ {k}]

\* A revalidation whose secret is right, or an action, begins.
Begin(t, r, how, ed, label) ==
  /\ pc[t] = "idle" /\ calls < MaxCalls
  /\ calls' = calls + 1
  /\ task' = [task EXCEPT ![t] = [Blank EXCEPT !.how = how, !.route = r,
                                               !.edition = ed, !.met = Requested]]
  /\ Goto(t, label)

Of(route) == {k \in Key : KeyRoute(k) = route}

\* What a revalidation of its path is there to renew.
Covered(r) ==
  CASE r.how = "path"   -> {k \in Of(r.route) : Html(k) \/ k.page \notin Bare}
    [] r.how = "tag"    -> {k \in Of(r.route) : ~Html(k)}
    [] r.how = "action" -> Of(r.route)

\* What requests that it overlaps may have undone: a response stored between
\* the copy of the tag's keys and the removal of the tag is listed no more.
Undone(r) == r.met \cap (IF r.how = "path" THEN Covered(r) ELSE Of(r.route))

\* It returns.  Whoever asks for one of the pages from now on is promised the
\* data there were when it began, but for the keys that are undone, by it or
\* before, if it did not find them in the tag index.
Promise(t) ==
  LET r == task[t] IN
  /\ floor' = [k \in Key |-> IF k \in Covered(r) /\ r.edition > floor[k]
                             THEN r.edition ELSE floor[k]]
  /\ raced' = (raced \ (Covered(r) \ r.unlisted)) \cup Undone(r)

\* revalidate_by_path, up to the keys with a query
RevalidatePath(t, r) ==
  /\ \E p \in Bare : RouteOf[p] = r /\ Without([page |-> p, mode |-> "html"])
  /\ Begin(t, r, "path", edition, "variants")
  /\ UNCHANGED <<streaming, edition, layout, promises>>

\* get_all_keys, of which those count that start with the path and a `?`
Variants(t) ==
  /\ pc[t] = "variants"
  /\ task' = [task EXCEPT ![t].todo =
       {k \in Key : stored[k] # None /\ KeyRoute(k) = task[t].route /\ k.page \notin Bare}]
  /\ Goto(t, "sweep")
  /\ UNCHANGED <<streaming, edition, caches, calls, promises>>

\* The loop over the copy of the keys, here and in invalidate_by_tag.
Sweep(t) ==
  /\ pc[t] \in {"sweep", "purge"}
  /\ \E k \in task[t].todo :
       Without(k) /\ task' = [task EXCEPT ![t].todo = @ \ {k}]
  /\ UNCHANGED <<streaming, edition, layout, pc, calls, promises>>

\* Mutant: the HTML cache of the renderer is not cleared.
ClearNothing(t) ==
  /\ pc[t] \in {"sweep", "clear"}
  /\ task[t].todo = {}
  /\ Promise(t)
  /\ Return(t)
  /\ UNCHANGED <<streaming, edition, stored, index, layout, calls>>

\* layout_html_cache.clear()
Clear(t) ==
  /\ \/ pc[t] = "sweep" /\ task[t].todo = {}
     \/ pc[t] = "clear"
  /\ layout' = [p \in Page |-> None]
  /\ Promise(t)
  /\ Return(t)
  /\ UNCHANGED <<streaming, edition, stored, index, calls>>

\* A server action changes the data, and its result is a redirect to r.
Action(t, r) ==
  /\ edition < MaxEditions
  /\ edition' = edition + 1
  /\ Begin(t, r, "action", edition + 1, "redirect")
  /\ UNCHANGED <<streaming, caches, promises>>

\* The RevalidateRequest with a tag.
RevalidateTag(t, r) ==
  /\ Begin(t, r, "tag", edition, "redirect")
  /\ UNCHANGED <<streaming, edition, caches, promises>>

\* invalidate_by_tag: the copy of the keys ...
PurgeSnapshot(t) ==
  /\ pc[t] = "redirect"
  /\ task' = [task EXCEPT ![t] = [@ EXCEPT !.todo = index[task[t].route],
                                           !.unlisted = Key \ index[task[t].route]]]
  /\ Goto(t, "purge")
  /\ UNCHANGED <<streaming, edition, caches, calls, promises>>

\* ... and the removal of the tag.
PurgeTag(t) ==
  /\ pc[t] = "purge" /\ task[t].todo = {}
  /\ index' = [index EXCEPT ![task[t].route] = {}]
  /\ IF task[t].how = "action"
     THEN /\ raced' = raced \cup Undone(task[t])
          /\ Goto(t, "clear") /\ UNCHANGED <<task, floor>>
     ELSE Promise(t) /\ Return(t)
  /\ UNCHANGED <<streaming, edition, stored, layout, calls>>

-----------------------------------------------------------------------------

\* The data change without a word to the server.
Publish ==
  /\ edition < MaxEditions
  /\ edition' = edition + 1
  /\ UNCHANGED <<streaming, caches, pc, task, calls, promises>>

\* An entry is evicted, and stays in the index, or it has expired.
Leave(k) ==
  /\ stored[k] # None
  /\ \/ Without(k)
     \/ stored' = [stored EXCEPT ![k] = None] /\ UNCHANGED index
  /\ UNCHANGED <<streaming, edition, layout, pc, task, calls, promises>>

Serve(t) ==
  \/ \E k \in Key, e \in Encoding \cup {Identity} : Request(t, k, e)
  \/ Update(t) \/ LayoutHit(t) \/ LayoutMiss(t) \/ Render(t) \/ Stream(t)
  \/ Fallback(t) \/ Keep(t) \/ RenderFails(t) \/ Store(t) \/ Answer(t)

Revalidate(t) ==
  \/ \E r \in Route : RevalidatePath(t, r) \/ RevalidateTag(t, r) \/ Action(t, r)
  \/ Variants(t) \/ Sweep(t) \/ Clear(t) \/ PurgeSnapshot(t) \/ PurgeTag(t)

Next ==
  \/ \E t \in Task : Serve(t) \/ Revalidate(t)
  \/ \E k \in Key : Leave(k)
  \/ Publish

Spec == Init /\ [][Next]_vars

-----------------------------------------------------------------------------

Entry == [edition: Nat, layers: Seq(Encoding), header: Seq(Encoding),
          variants: SUBSET Encoding]

Locals == [key: Key \cup {None}, accepts: Encoding \cup {Identity},
           edition: Nat \cup {None}, failed: BOOLEAN,
           layers: Seq(Encoding), declared: Seq(Encoding),
           clone: Entry \cup {None}, since: Nat,
           how: {None, "path", "tag", "action"}, route: Route \cup {None},
           todo: SUBSET Key, unlisted: SUBSET Key, met: SUBSET Key]

Serving == {"layout", "render", "keep", "store", "update", "reply"}
Renewing == {"variants", "sweep", "redirect", "purge", "clear"}

\* The values the variables take, and which locals a task has at its label; an
\* RSC response is kept as it was rendered, and in no other encoding.
TypeOK ==
  /\ streaming \in BOOLEAN
  /\ edition \in Nat /\ calls \in Nat
  /\ stored \in [Key -> Entry \cup {None}]
  /\ index \in [Route -> SUBSET Key]
  /\ layout \in [Page -> Nat \cup {None}]
  /\ pc \in [Task -> {"idle"} \cup Serving \cup Renewing]
  /\ task \in [Task -> Locals]
  /\ floor \in [Key -> Nat] /\ raced \subseteq Key
  /\ \A t \in Task :
       /\ pc[t] \in Serving => task[t].key \in Key /\ task[t].how = None
       /\ pc[t] \in {"keep", "store", "update"} => task[t].edition \in Nat
       /\ pc[t] \in {"update", "keep"} => Html(task[t].key)
       /\ pc[t] \in Renewing => task[t].route \in Route /\ task[t].edition \in Nat
  /\ \A k \in Key : stored[k] # None /\ ~Html(k) =>
       stored[k].layers = <<>> /\ stored[k].variants = {}

\* After a revalidation or an action has returned, whoever asks for a page it
\* covers is answered with data at least as new as when it began, from
\* whichever cache, unless a request for that page has overlapped it: the
\* request may store what it rendered before (core.rs:327, app_handler.rs:1166).
FreshAfterRevalidation ==
  \A t \in Task : pc[t] = "reply" /\ task[t].edition # None =>
    task[t].edition >= task[t].since \/ task[t].key \in raced

\* A client can decode what it gets: the encodings that the response declares
\* are those of its body, and it accepts them, unless the body was stored as
\* compressed for a client that takes another encoding (app_handler.rs:1149).
ClientDecodes ==
  \A t \in Task : pc[t] = "reply" =>
    LET r == task[t] IN
      \/ r.declared = r.layers /\ {r.layers[i] : i \in DOMAIN r.layers} \subseteq {r.accepts}
      \/ /\ r.clone # None
         /\ r.clone.layers \notin {<<>>, Encoded(r.accepts)}
=============================================================================
