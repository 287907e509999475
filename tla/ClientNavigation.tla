--------------------------- MODULE ClientNavigation ---------------------------
(***************************************************************************)
(* The client router together with the provider of the page's content,     *)
(* AppRouterProvider.tsx.  The router speaks to it through synchronous     *)
(* window events: rari:navigation-start before the fetch and rari:navigate *)
(* with the answer, whose body the provider reads while the router has     *)
(* already moved on; an answer that is streamed is shown before its body   *)
(* is read.  Beside navigations the provider refetches the page on         *)
(* refresh(), on hot updates and on a new manifest, and these fetches race *)
(* with navigations.  What the server has to show changes meanwhile: an    *)
(* edition is the state of its content.  The rows of the first page that   *)
(* come late (rari:rsc-row) are parsed without the root row, which came    *)
(* before the page could be navigated: that fails, and is left out.        *)
(***************************************************************************)
EXTENDS ClientRouter, FiniteSets

CONSTANTS
  MaxEditions,   \* bound: editions of the content on the server
  MaxRefetches   \* bound: refetches in flight

ASSUME ProviderAssumption == MaxEditions \in Nat /\ MaxRefetches \in Nat

VARIABLES
  navId,      \* currentNavigationIdRef
  bodies,     \* the answers handleNavigate has yet to show
  screen,     \* rscPayload: what is on the screen
  refetches,  \* pendingFetchesRef: one fetch for a navigation and a path
  lastGood,   \* lastSuccessfulPayloadRef: the last page a refetch got
  edition,    \* the edition on the server
  lost        \* for the properties: the last body to end was not shown

providerVars == <<navId, bodies, screen, refetches, lastGood, edition, lost>>
vars == <<routerVars, providerVars>>

Page == [route: Route, edition: 0 .. MaxEditions]
Body == [id: 1 .. MaxNavs, page: Page, streamed: BOOLEAN]
Refetch == [id: 0 .. MaxNavs, path: Route, since: 0 .. MaxEditions,
            answer: Page \cup {NoError}]
Screen == [id: 0 .. MaxNavs, page: Page, by: {"navigation", "refetch"}, path: Route,
           body: {"whole", "open", "torn"}]

\* The page the provider was mounted with, its children.
FirstPage == [route |-> Start, edition |-> 0]

\* What the server may answer to a request made at edition e.
Answers(path, e) ==
  {[route |-> Redirect[path], edition |-> v] : v \in e .. edition}

Init ==
  /\ RouterInit
  /\ navId = 0
  /\ bodies = {}
  /\ screen = [id |-> 0, page |-> FirstPage, by |-> "navigation",
               path |-> Start, body |-> "whole"]
  /\ refetches = {}
  /\ lastGood = NoError
  /\ edition = 0
  /\ lost = FALSE

-----------------------------------------------------------------------------
(* Navigations.                                                            *)

\* The signal of a navigation reaches the body of its answer too, whose
\* stream ends in a microtask; another shows a streamed answer.  The next
\* task starts when all have run.
BodyAborted(b) == nav[b.id].aborted
Open == screen.body = "open"
Idle == /\ NoMicrotask
        /\ \A b \in bodies : ~BodyAborted(b) /\ ~b.streamed
        /\ Open => ~nav[screen.id].aborted

\* Mutated: back and forward do not tell the provider.
NavigationStartButPops ==
  \/ /\ \E r \in Route : Navigate(r) \/ NavigateReplacing(r) \/ NavigateRefused(r)
     /\ navId' = Len(nav')
     /\ UNCHANGED <<bodies, screen, refetches, lastGood, edition, lost>>
  \/ Idle /\ (\E k \in DOMAIN history : Pop(k)) /\ UNCHANGED providerVars

\* handleNavigationStart, which the navigations that go ahead call.
NavigationStart ==
  /\ \/ \E r \in Route : Navigate(r) \/ NavigateReplacing(r) \/ NavigateRefused(r)
     \/ /\ Idle
        /\ Retry \/ RetryRefused \/ \E k \in DOMAIN history : Pop(k) \/ PopRefused(k)
  /\ navId' = Len(nav')
  /\ UNCHANGED <<bodies, screen, refetches, lastGood, edition, lost>>

\* handleNonStreamingResponse tells the provider of the newest answer;
\* handleNavigate ignores another navigation's than the one it follows.
Announced(i) == i = Len(nav) /\ i = navId

\* What it shows may come from a cache, of any earlier edition.
ArriveAndRead(i) ==
  /\ Idle
  /\ Arrive(i)
  /\ \E page \in Answers(nav[i].target, 0), streamed \in BOOLEAN :
       bodies' = IF Announced(i)
                 THEN bodies \cup {[id |-> i, page |-> page, streamed |-> streamed]}
                 ELSE bodies
  /\ UNCHANGED <<navId, screen, refetches, lastGood, edition, lost>>

\* handleNavigate has an element, of an answer nothing has overtaken.
Show(b, body) ==
  /\ bodies' = bodies \ {b}
  /\ IF b.id = navId
     THEN /\ screen' = [id |-> b.id, page |-> b.page, by |-> "navigation",
                        path |-> nav[b.id].target, body |-> body]
          /\ lost' = FALSE
     ELSE UNCHANGED <<screen, lost>>
  /\ UNCHANGED <<routerVars, navId, refetches, lastGood, edition>>

\* It awaits the element, which is there when the body has been read.
ShowBody(b) ==
  /\ Idle
  /\ Show(b, "whole")

\* It does not await that of a streamed answer, which fills up on the screen.
ShowStream(b) ==
  /\ b.streamed
  /\ ~BodyAborted(b)
  /\ Show(b, "open")

StreamEnds ==
  /\ Idle
  /\ Open
  /\ screen' = [screen EXCEPT !.body = "whole"]
  /\ UNCHANGED <<routerVars, navId, bodies, refetches, lastGood, edition, lost>>

\* The connection breaks.  Without its root row the element is rejected and
\* the provider renders its children; later the page stays in part.
StreamFails ==
  /\ Idle
  /\ Open
  /\ \E page \in {screen.page, FirstPage} :
       screen' = [screen EXCEPT !.page = page, !.body = "torn"]
  /\ UNCHANGED <<routerVars, navId, bodies, refetches, lastGood, edition, lost>>

\* The next navigation has aborted it: the rows that lack never come.
StreamAborted ==
  /\ Open
  /\ nav[screen.id].aborted
  /\ screen' = [screen EXCEPT !.body = "torn"]
  /\ UNCHANGED <<routerVars, navId, bodies, refetches, lastGood, edition, lost>>

\* An awaited body may break too.
BodyFails(b) ==
  /\ Idle
  /\ bodies' = bodies \ {b}
  /\ lost' = TRUE
  /\ UNCHANGED <<routerVars, navId, screen, refetches, lastGood, edition>>

\* An answer that is aborted is not shown: its element is awaited for ever.
DropBody(b) ==
  /\ BodyAborted(b)
  /\ bodies' = bodies \ {b}
  /\ lost' = TRUE
  /\ UNCHANGED <<routerVars, navId, screen, refetches, lastGood, edition>>

-----------------------------------------------------------------------------
(* Refetches.                                                              *)

\* Mutated: every refresh fetches.
JoinsNever == FALSE

\* The key of a refetch is the navigation in force and the path of the URL.
Joins == \E f \in refetches : f.id = navId /\ f.path = Url

\* handleAppRouterRerender, handleRscInvalidate, handleManifestUpdated
Refresh ==
  /\ Idle
  /\ ~Joins
  /\ Cardinality(refetches) < MaxRefetches
  /\ refetches' = refetches \cup
       {[id |-> navId, path |-> Url, since |-> edition, answer |-> NoError]}
  /\ UNCHANGED <<routerVars, navId, bodies, screen, lastGood, edition, lost>>

\* The text of the page is there; one like the last one is not looked at.
RefetchAnswered(f) ==
  /\ Idle
  /\ f.answer = NoError
  /\ \E page \in Answers(f.path, f.since) :
       refetches' = (refetches \ {f}) \cup
         (IF page = lastGood THEN {} ELSE {[f EXCEPT !.answer = page]})
  /\ UNCHANGED <<routerVars, navId, bodies, screen, lastGood, edition, lost>>

Refreshed(f) == [id |-> f.id, page |-> f.answer, by |-> "refetch",
                 path |-> f.path, body |-> "whole"]

\* Mutated: a refetch shows its page whatever has been clicked since.
RefetchParsedAnyway(f) ==
  /\ Idle
  /\ f.answer # NoError
  /\ refetches' = refetches \ {f}
  /\ screen' = Refreshed(f)
  /\ lastGood' = f.answer
  /\ UNCHANGED <<routerVars, navId, bodies, edition, lost>>

\* It is parsed, its modules are loaded: the page changes unless a
\* navigation has started since the refetch.
RefetchParsed(f) ==
  /\ Idle
  /\ f.answer # NoError
  /\ refetches' = refetches \ {f}
  /\ IF navId = f.id
     THEN /\ screen' = Refreshed(f)
          /\ lastGood' = f.answer
     ELSE UNCHANGED <<screen, lastGood>>
  /\ UNCHANGED <<routerVars, navId, bodies, edition, lost>>

\* The fetch fails, or the text cannot be parsed.  trackHMRFailure counts such
\* failures, to reload the page when there are many in a row: the count is
\* left out, and a reload is the end of what is modelled, the life of a page.
RefetchFails(f) ==
  /\ Idle
  /\ refetches' = refetches \ {f}
  /\ UNCHANGED <<routerVars, navId, bodies, screen, lastGood, edition, lost>>

\* The application, or its data, changes on the server.
Publish ==
  /\ Idle
  /\ edition < MaxEditions
  /\ edition' = edition + 1
  /\ UNCHANGED <<routerVars, navId, bodies, screen, refetches, lastGood, lost>>

-----------------------------------------------------------------------------

\* What the router does without a word to the provider.
RouterAlone ==
  /\ \/ \E i \in DOMAIN nav : Cleanup(i)
     \/ /\ Idle
        /\ \/ \E k \in DOMAIN history : PopJoins(k)
           \/ RetryIgnored \/ Dismiss
           \/ \E i \in DOMAIN nav, network \in BOOLEAN :
                Fail(i, network) \/ FailRefused(i, network)
  /\ UNCHANGED providerVars

Reads ==
  \/ \E i \in DOMAIN nav : ArriveAndRead(i)
  \/ \E b \in bodies : ShowBody(b) \/ ShowStream(b) \/ BodyFails(b) \/ DropBody(b)
  \/ StreamEnds \/ StreamFails \/ StreamAborted

Refetching ==
  \E f \in refetches : RefetchAnswered(f) \/ RefetchParsed(f) \/ RefetchFails(f)

Next ==
  \/ NavigationStart \/ RouterAlone \/ Reads
  \/ Refresh \/ Refetching \/ Publish

Spec == Init /\ [][Next]_vars

-----------------------------------------------------------------------------

TypeOK ==
  /\ RouterTypeOK
  /\ navId = Len(nav)
  /\ bodies \subseteq Body /\ \A b \in bodies : b.id <= Len(nav)
  /\ screen \in Screen
  /\ refetches \subseteq Refetch
  /\ lastGood \in Page \cup {NoError}
  /\ edition \in 0 .. MaxEditions
  /\ lost \in BOOLEAN

Settled == /\ bodies = {} /\ refetches = {} /\ ~Open
           /\ \A i \in DOMAIN nav : ~Fetching(i)

\* A refetch asked for the path of a navigation that did not complete.
Stray == /\ screen.by = "refetch" /\ screen.id # 0
         /\ nav[screen.id].state \in {"failed", "cancelled", "refused"}

(***************************************************************************)
(* Once all is quiet the screen shows the page of the current route.  It   *)
(* fails to in three ways only: the body of the newest answer was lost     *)
(* after the router had moved on, a refetch was made for the path of a     *)
(* navigation that then failed, or a streamed body was lost when its page  *)
(* was on the screen already.                                              *)
(***************************************************************************)
ScreenMatchesRoute ==
  Settled /\ ~lost /\ ~Stray /\ screen.body # "torn" => screen.page.route = current

(***************************************************************************)
(* Two refreshes of a page, with no navigation between them, never show an *)
(* older edition after a newer one, however their answers are delayed.     *)
(***************************************************************************)
RefreshesInOrder ==
  [][screen.by = "refetch" /\ screen'.by = "refetch"
     /\ screen'.id = screen.id /\ screen'.path = screen.path
       => screen'.page.edition >= screen.page.edition]_vars

(***************************************************************************)
(* No body is read but that of the navigation in force, once the           *)
(* microtasks have run: a page that was overtaken, awaited or on the       *)
(* screen, is not read on, and cannot count as a failure.                  *)
(***************************************************************************)
OneBodyRead ==
  Idle => /\ \A b \in bodies : b.id = navId /\ ~Fetching(b.id)
          /\ Open => screen.id = navId /\ ~Fetching(screen.id)

=============================================================================
