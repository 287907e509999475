----------------------------- MODULE ClientRouter -----------------------------
(***************************************************************************)
(* The client router: ClientRouter.tsx, with the error handler it counts   *)
(* retries with.  It runs on the one thread of a page.  A navigation       *)
(* writes the URL, fetches the page and, when the answer is there, tells   *)
(* the provider and moves the current route; the next navigation aborts    *)
(* it.  What a task leaves for its microtasks (the rejection of an aborted *)
(* fetch) runs before the next task starts, but code of the application    *)
(* may navigate several times within one task.  The browser may refuse to  *)
(* write the history, by a throw of pushState and replaceState.            *)
(***************************************************************************)
EXTENDS Naturals, Sequences

CONSTANTS
  Route,        \* the paths of the site, normalized
  Start,        \* the path the page was loaded at
  Redirect,     \* the path a request for a path ends at, which redirects no more
  MaxRetries,   \* maxRetries of the error handler
  MaxNavs,      \* bound: navigations of one page load
  MaxCount,     \* bound: the retries counted of one path
  NoError       \* no error is displayed

ASSUME RouterAssumption ==
  /\ Start \in Route
  /\ Redirect \in [Route -> Route]
  /\ \A r \in Route : Redirect[Redirect[r]] = Redirect[r]
  /\ Redirect[Start] = Start
  /\ MaxRetries \in Nat
  /\ MaxNavs \in Nat
  /\ MaxCount \in Nat

VARIABLES
  nav,          \* the navigations so far; the id of one is its index
  pending,      \* pendingNavigationsRef: the id under a path, 0 for none
  controller,   \* abortControllerRef: the id it belongs to, 0 for none
  current,      \* currentRouteRef
  history,      \* the paths of the entries of window.history
  at,           \* the entry the page is at
  error,        \* navigationState.error
  retries,      \* retryCount of the error handler
  shown         \* the retryCount the overlay is rendered with, 0 for none

routerVars ==
  <<nav, pending, controller, current, history, at, error, retries, shown>>

Navigation == [target: Route, from: Route, aborted: BOOLEAN,
               state: {"fetching", "completed", "failed", "cancelled", "refused"}]

Url == history[at]
Fetching(i) == nav[i].state = "fetching"

\* An aborted fetch rejects in a microtask of the task that aborted it.
Rejecting(i) == Fetching(i) /\ nav[i].aborted
NoMicrotask == \A i \in DOMAIN nav : ~Rejecting(i)

RouterInit ==
  /\ nav = <<>>
  /\ pending = [r \in Route |-> 0]
  /\ controller = 0
  /\ current = Start
  /\ history = <<Start>>
  /\ at = 1
  /\ error = NoError
  /\ retries = [r \in Route |-> 0]
  /\ shown = 0

-----------------------------------------------------------------------------
(* Starting a navigation.                                                  *)

\* Mutated: the abort controller of the last navigation is left alone.
CancelsPending(i) == \E r \in Route : pending[r] = i

\* Mutated: a click aborts nothing.
CancelsNothing(i) == FALSE

\* cancelAllPendingNavigations and cancelNavigation abort these.
Cancels(i) == i = controller \/ \E r \in Route : pending[r] = i

Aborted == [i \in DOMAIN nav |->
              [nav[i] EXCEPT !.aborted = @ \/ Cancels(i)]]

\* navigate goes ahead: not to the route it is at, unless it replaces the
\* entry, and not to a path that is being navigated to.
GoesAhead(r, replace) == (r # current \/ replace) /\ pending[r] = 0

\* What the part of navigate up to its fetch does to the tables.
Begin(r, state) ==
  /\ Len(nav) < MaxNavs
  /\ nav' = Append(Aborted, [target |-> r, from |-> current,
                             aborted |-> FALSE, state |-> state])
  /\ pending' = [q \in Route |-> IF q = r THEN Len(nav) + 1 ELSE 0]
  /\ controller' = Len(nav) + 1

\* It wrote the history, which is h at entry k now.
Depart(r, h, k) ==
  /\ Begin(r, "fetching")
  /\ history' = h
  /\ at' = k

Push(r) == Depart(r, Append(SubSeq(history, 1, at), r), at + 1)
ReplaceEntry(r) == [history EXCEPT ![at] = r]

\* What handleNavigationError displays of an error of the path r.
Display(r, retryable) ==
  /\ error' = [route |-> r, retryable |-> retryable]
  /\ shown' = retries'[r]

\* The write throws.  The error is handled before navigate sets the pending
\* entry, which nothing deletes then but another navigation.  The handler
\* writes the route back into the entry k, or that throws too.
Refuse(r, k) ==
  /\ Begin(r, "refused")
  /\ at' = k
  /\ history' \in {history, [history EXCEPT ![k] = current]}
  /\ Display(r, FALSE)

\* router.push, navigate(), and a click the debouncer lets through.
Navigate(r) ==
  /\ GoesAhead(r, FALSE)
  /\ Push(r)
  /\ UNCHANGED <<current, error, retries, shown>>

\* router.replace, navigate(.., {replace: true})
NavigateReplacing(r) ==
  /\ GoesAhead(r, TRUE)
  /\ Depart(r, ReplaceEntry(r), at)
  /\ UNCHANGED <<current, error, retries, shown>>

\* Either of them, and the browser refuses.
NavigateRefused(r) ==
  /\ GoesAhead(r, TRUE)
  /\ UNCHANGED <<current, retries>>
  /\ Refuse(r, at)

\* handlePopState: the browser has moved to entry k before the event.
Pop(k) ==
  /\ NoMicrotask
  /\ k # at
  /\ GoesAhead(history[k], TRUE)
  /\ Depart(history[k], history, k)
  /\ UNCHANGED <<current, error, retries, shown>>

PopRefused(k) ==
  /\ NoMicrotask
  /\ k # at
  /\ GoesAhead(history[k], TRUE)
  /\ UNCHANGED <<current, retries>>
  /\ Refuse(history[k], k)

\* ... and navigate returns the promise of the navigation to that path.
PopJoins(k) ==
  /\ NoMicrotask
  /\ k # at
  /\ ~GoesAhead(history[k], TRUE)
  /\ at' = k
  /\ UNCHANGED <<nav, pending, controller, current, history, error, retries, shown>>

\* The overlay offers a retry while this holds: it compares the count it was
\* rendered with, which a click of Try Again does not render anew.
CanRetry == error # NoError /\ error.retryable /\ shown < MaxRetries

\* handleRetry counts, without a limit of its own.
CountRetry ==
  /\ NoMicrotask
  /\ CanRetry
  /\ retries[error.route] < MaxCount
  /\ retries' = [retries EXCEPT ![error.route] = @ + 1]

\* ... and navigates
Retry ==
  /\ CountRetry
  /\ GoesAhead(error.route, FALSE)
  /\ Push(error.route)
  /\ UNCHANGED <<current, error, shown>>

RetryRefused ==
  /\ CountRetry
  /\ GoesAhead(error.route, FALSE)
  /\ Refuse(error.route, at)
  /\ UNCHANGED current

\* ... to the route the page is at by now, or to one that is pending.
RetryIgnored ==
  /\ CountRetry
  /\ ~GoesAhead(error.route, FALSE)
  /\ UNCHANGED <<nav, pending, controller, current, history, at, error, shown>>

\* handleDismiss
Dismiss ==
  /\ NoMicrotask
  /\ error # NoError
  /\ error' = NoError
  /\ shown' = 0
  /\ UNCHANGED <<nav, pending, controller, current, history, at, retries>>

-----------------------------------------------------------------------------
(* The end of a navigation.                                                *)

Answerable(i) == NoMicrotask /\ i \in DOMAIN nav /\ Fetching(i)

Ended(i, how) == [nav EXCEPT ![i].state = how]
\* Mutated: the table of pending navigations is not kept up.
ForgottenNever(i) == pending
Forgotten(i) == [pending EXCEPT ![nav[i].target] = 0]

\* The answer is there: the URL follows a redirect, completeNavigation.
Arrive(i) ==
  /\ Answerable(i)
  /\ LET actual == Redirect[nav[i].target] IN
       /\ history' = IF actual = nav[i].target THEN history
                                               ELSE ReplaceEntry(actual)
       /\ current' = actual
       /\ retries' = [retries EXCEPT ![actual] = 0]
  /\ error' = NoError
  /\ shown' = 0
  /\ nav' = Ended(i, "completed")
  /\ pending' = Forgotten(i)
  /\ UNCHANGED <<controller, at>>

\* Mutated: the URL stays at the page that could not be fetched.
FailLeavingUrl(i, network) ==
  /\ Answerable(i)
  /\ UNCHANGED retries
  /\ Display(nav[i].target, network)
  /\ nav' = Ended(i, "failed")
  /\ pending' = Forgotten(i)
  /\ UNCHANGED <<controller, current, history, at>>

\* handleNavigationError of an error that is no AbortError: a status of 400
\* and up except 404, or the network (which alone may be retried).
Fail(i, network) ==
  /\ Answerable(i)
  /\ UNCHANGED retries
  /\ Display(nav[i].target, network)
  /\ history' = ReplaceEntry(nav[i].from)
  /\ nav' = Ended(i, "failed")
  /\ pending' = Forgotten(i)
  /\ UNCHANGED <<controller, current, at>>

\* The handler's own write is refused: the throw leaves the entry pending.
FailRefused(i, network) ==
  /\ Answerable(i)
  /\ UNCHANGED retries
  /\ Display(nav[i].target, network)
  /\ nav' = Ended(i, "refused")
  /\ UNCHANGED <<pending, controller, current, history, at>>

\* handleNavigationError of an AbortError: cleanupAbortedNavigation, which
\* forgets the path whichever navigation is pending under it.
Cleanup(i) ==
  /\ i \in DOMAIN nav
  /\ Rejecting(i)
  /\ nav' = Ended(i, "cancelled")
  /\ pending' = Forgotten(i)
  /\ UNCHANGED <<controller, current, history, at, error, retries, shown>>

RouterEnds ==
  \E i \in DOMAIN nav :
    \/ Arrive(i) \/ Cleanup(i)
    \/ \E network \in BOOLEAN : Fail(i, network) \/ FailRefused(i, network)

RouterNext ==
  \/ \E r \in Route : Navigate(r) \/ NavigateReplacing(r) \/ NavigateRefused(r)
  \/ \E k \in DOMAIN history : Pop(k) \/ PopRefused(k) \/ PopJoins(k)
  \/ Retry \/ RetryRefused \/ RetryIgnored \/ Dismiss
  \/ RouterEnds

RouterSpec == RouterInit /\ [][RouterNext]_routerVars

-----------------------------------------------------------------------------

RouterTypeOK ==
  /\ nav \in Seq(Navigation)
  /\ Len(nav) <= MaxNavs
  /\ pending \in [Route -> 0 .. Len(nav)]
  /\ controller \in 0 .. Len(nav)
  /\ current \in Route
  /\ history \in Seq(Route)
  /\ at \in 1 .. Len(history)
  /\ error \in [route: Route, retryable: BOOLEAN] \cup {NoError}
  /\ retries \in [Route -> 0 .. MaxCount]
  /\ shown \in 0 .. MaxCount

(***************************************************************************)
(* At most one navigation can still change the page: the newest one.  All  *)
(* earlier ones are over or aborted, though a path can drop out of the     *)
(* pending table while the newest navigation to it is under way, and only  *)
(* the abort controller knows it then.                                     *)
(***************************************************************************)
OneInFlight ==
  \A i \in DOMAIN nav : Fetching(i) /\ ~nav[i].aborted => i = Len(nav)

(***************************************************************************)
(* A path under which a click is taken for a repetition is being navigated *)
(* to, by the newest navigation, whose answer or failure is still to come. *)
(* One kind of click is swallowed, on the path of a navigation the browser *)
(* refused to write the history for, and only until the next navigation.   *)
(***************************************************************************)
PendingIsLive ==
  \A r \in Route : pending[r] # 0 =>
     /\ pending[r] = Len(nav)
     /\ nav[pending[r]].state \in {"fetching", "refused"}
     /\ ~nav[pending[r]].aborted
     /\ nav[pending[r]].target = r

(***************************************************************************)
(* The address bar tells where the user is, or is going: after redirects,  *)
(* failures, aborted navigations, back and forward in any order, the URL   *)
(* is the target of the navigation under way, and the current route when   *)
(* there is none.  Only a navigation that the browser refused may leave it *)
(* elsewhere, and the next one puts that right.                            *)
(***************************************************************************)
Astray == nav # <<>> /\ nav[Len(nav)].state = "refused"

UrlMatchesRoute ==
  ~Astray => Url = IF nav # <<>> /\ Fetching(Len(nav)) THEN nav[Len(nav)].target
                                                       ELSE current
=============================================================================
