----------------------------- MODULE ClientProofs -----------------------------
(***************************************************************************)
(* Theorems about ClientRouter and ClientNavigation, for every site, all   *)
(* redirects and every number of navigations, retries, editions and        *)
(* refetches.                                                              *)
(***************************************************************************)
EXTENDS ClientNavigation, SequenceTheorems, TLAPS

\* The newest navigation, as long as it is under way.
NewestIsLive ==
  /\ controller = Len(nav)
  /\ nav # <<>> /\ Fetching(Len(nav)) =>
       ~nav[Len(nav)].aborted /\ nav[Len(nav)].from = current

\* The inductive invariant.
IInv == RouterTypeOK /\ OneInFlight /\ NewestIsLive /\ PendingIsLive /\ UrlMatchesRoute

-----------------------------------------------------------------------------
(* What the operators on the navigations return.                           *)

LEMMA NavType ==
  ASSUME RouterTypeOK
  PROVE  /\ Len(nav) \in Nat /\ DOMAIN nav = 1 .. Len(nav)
         /\ \A i \in DOMAIN nav : nav[i] \in Navigation
         /\ nav # <<>> <=> Len(nav) \in DOMAIN nav
  BY ElementOfSeq, LenProperties, EmptySeq DEF RouterTypeOK

LEMMA UrlType ==
  ASSUME RouterTypeOK
  PROVE  /\ Len(history) \in Nat /\ DOMAIN history = 1 .. Len(history)
         /\ \A k \in DOMAIN history : history[k] \in Route
  BY ElementOfSeq, LenProperties DEF RouterTypeOK

LEMMA EndedType ==
  ASSUME RouterTypeOK, NEW i \in DOMAIN nav,
         NEW how \in {"completed", "failed", "cancelled", "refused"}
  PROVE  /\ Ended(i, how) \in Seq(Navigation)
         /\ Len(Ended(i, how)) = Len(nav)
         /\ DOMAIN Ended(i, how) = DOMAIN nav
         /\ Ended(i, how)[i].state = how
         /\ Ended(i, how)[i].target = nav[i].target
         /\ Ended(i, how)[i].aborted = nav[i].aborted
         /\ \A j \in DOMAIN nav : j # i => Ended(i, how)[j] = nav[j]
<1> DEFINE e == [nav[i] EXCEPT !.state = how]
<1>1. nav[i] \in Navigation /\ i \in 1 .. Len(nav)
  BY NavType
<1>2. /\ e \in Navigation /\ e.state = how
      /\ e.target = nav[i].target /\ e.aborted = nav[i].aborted
  BY <1>1 DEF Navigation
<1>3. Ended(i, how) = [nav EXCEPT ![i] = e]
  BY DEF Ended
<1> HIDE DEF e
<1>4. /\ [nav EXCEPT ![i] = e] \in Seq(Navigation)
      /\ Len([nav EXCEPT ![i] = e]) = Len(nav)
      /\ \A j \in 1 .. Len(nav) : [nav EXCEPT ![i] = e][j] = IF j = i THEN e ELSE nav[j]
  BY <1>1, <1>2, ExceptSeq DEF RouterTypeOK
<1> QED
  BY <1>1, <1>2, <1>3, <1>4, NavType, LenProperties

LEMMA AbortedType ==
  ASSUME RouterTypeOK
  PROVE  /\ Aborted \in Seq(Navigation)
         /\ Len(Aborted) = Len(nav)
         /\ \A i \in DOMAIN nav :
              /\ Aborted[i].state = nav[i].state
              /\ Aborted[i].aborted <=> (nav[i].aborted \/ Cancels(i))
<1> DEFINE a(i) == [nav[i] EXCEPT !.aborted = @ \/ Cancels(i)]
<1>1. \A i \in DOMAIN nav :
        /\ a(i) \in Navigation
        /\ a(i).state = nav[i].state
        /\ a(i).aborted <=> (nav[i].aborted \/ Cancels(i))
  <2> SUFFICES ASSUME NEW i \in DOMAIN nav
               PROVE  /\ a(i) \in Navigation
                      /\ a(i).state = nav[i].state
                      /\ a(i).aborted <=> (nav[i].aborted \/ Cancels(i))
    OBVIOUS
  <2>1. nav[i] \in Navigation
    BY NavType
  <2>2. Cancels(i) \in BOOLEAN
    BY DEF Cancels
  <2> QED
    BY <2>1, <2>2 DEF Navigation
<1> HIDE DEF a
<1>2. Aborted = [i \in 1 .. Len(nav) |-> a(i)]
  BY NavType DEF Aborted, a
<1>3. Aborted \in [1 .. Len(nav) -> Navigation] /\ Len(nav) \in Nat
  BY <1>1, <1>2, NavType
<1>4. Aborted \in Seq(Navigation) /\ Len(Aborted) = Len(nav)
  BY <1>3, <1>2
<1> QED
  BY <1>1, <1>2, <1>4, NavType

-----------------------------------------------------------------------------
(* The beginning of a navigation.                                          *)

\* A navigation that begins, which the browser lets write the history or not.
LEMMA BeginStep ==
  ASSUME IInv, NEW r \in Route, NEW state \in {"fetching", "refused"}, Begin(r, state),
         history' \in Seq(Route), at' \in 1 .. Len(history'),
         state = "fetching" => history'[at'] = r,
         UNCHANGED current,
         error' \in [route: Route, retryable: BOOLEAN] \cup {NoError},
         shown' \in 0 .. MaxCount,
         retries' \in [Route -> 0 .. MaxCount]
  PROVE  IInv'
<1> DEFINE n == Len(nav) + 1
           new == [target |-> r, from |-> current, aborted |-> FALSE,
                   state |-> state]
<1> USE DEF IInv
<1>1. new \in Navigation
  BY DEF Navigation, RouterTypeOK
<1> HIDE DEF new
<1>2. nav' = Append(Aborted, new)
  BY DEF Begin, new
<1>3. /\ nav' \in Seq(Navigation)
      /\ Len(nav') = n /\ n \in Nat /\ n # 0
      /\ DOMAIN nav' = 1 .. n
      /\ nav'[n] = new
      /\ \A i \in DOMAIN nav : nav'[i] = Aborted[i]
  BY <1>1, <1>2, AbortedType, NavType, AppendProperties, LenProperties
<1>4. DOMAIN nav' = DOMAIN nav \cup {n}
  BY <1>3, NavType
<1>5. nav' # <<>>
  BY <1>3, EmptySeq
<1>6. new.target = r /\ new.from = current /\ ~new.aborted /\ new.state = state
  BY DEF new
<1>7. RouterTypeOK'
  <2>1. pending' \in [Route -> 0 .. n] /\ controller' \in 0 .. n
    BY <1>3 DEF Begin
  <2>2. Len(nav') <= MaxNavs
    BY <1>3, RouterAssumption, NavType DEF Begin
  <2>3. current' \in Route
    BY DEF RouterTypeOK
  <2> QED
    BY <1>3, <2>1, <2>2, <2>3 DEF RouterTypeOK
<1>8. OneInFlight'
  <2> SUFFICES ASSUME NEW i \in DOMAIN nav', i # n
               PROVE  ~Fetching(i)' \/ nav'[i].aborted
    BY <1>3 DEF OneInFlight
  <2>1. i \in DOMAIN nav /\ nav'[i] = Aborted[i]
    BY <1>3, <1>4
  <2>2. nav[i].state = "fetching" /\ ~nav[i].aborted => i = controller
    BY <2>1 DEF OneInFlight, NewestIsLive, Fetching
  <2>3. nav[i].state = "fetching" => Aborted[i].aborted
    BY <2>1, <2>2, AbortedType DEF Cancels
  <2> QED
    BY <2>1, <2>3, AbortedType DEF Fetching
<1>9. NewestIsLive'
  BY <1>3, <1>6 DEF NewestIsLive, Begin
<1>10. PendingIsLive'
  <2> SUFFICES ASSUME NEW q \in Route, pending'[q] # 0
               PROVE  /\ pending'[q] = Len(nav')
                      /\ nav'[n].state \in {"fetching", "refused"} /\ ~nav'[n].aborted
                      /\ nav'[n].target = q
    BY <1>3 DEF PendingIsLive
  <2>1. q = r /\ pending'[q] = n
    BY DEF Begin
  <2> QED
    BY <1>3, <1>6, <2>1
<1>11. UrlMatchesRoute'
  <2>1. CASE state = "fetching"
    <3>1. Url' = r
      BY <2>1 DEF Url
    <3> QED
      BY <1>3, <1>5, <1>6, <2>1, <3>1 DEF UrlMatchesRoute, Fetching
  <2>2. CASE state = "refused"
    BY <1>3, <1>5, <1>6, <2>2 DEF UrlMatchesRoute, Astray
  <2> QED
    BY <2>1, <2>2
<1> QED
  BY <1>7, <1>8, <1>9, <1>10, <1>11

\* Where Depart may lead: to the path of the entry that is current then.
LEMMA DepartStep ==
  ASSUME IInv, NEW r \in Route, NEW h \in Seq(Route), NEW k \in 1 .. Len(h),
         h[k] = r, Depart(r, h, k), UNCHANGED <<current, error, shown>>,
         retries' \in [Route -> 0 .. MaxCount]
  PROVE  IInv'
<1>1. /\ error' \in [route: Route, retryable: BOOLEAN] \cup {NoError}
      /\ shown' \in 0 .. MaxCount
  BY DEF IInv, RouterTypeOK
<1>2. Begin(r, "fetching") /\ history' = h /\ at' = k
  BY DEF Depart
<1> QED
  BY <1>1, <1>2, BeginStep

LEMMA RefuseStep ==
  ASSUME IInv, NEW r \in Route, NEW k \in DOMAIN history, Refuse(r, k),
         UNCHANGED current,
         retries' \in [Route -> 0 .. MaxCount]
  PROVE  IInv'
<1>1. history \in Seq(Route) /\ k \in 1 .. Len(history) /\ current \in Route
  BY UrlType DEF IInv, RouterTypeOK
<1>2. history' \in Seq(Route) /\ Len(history') = Len(history)
  BY <1>1, ExceptSeq DEF Refuse
<1>3. error' = [route |-> r, retryable |-> FALSE] /\ shown' = retries'[r]
  BY DEF Refuse, Display
<1>4. Begin(r, "refused") /\ at' = k
  BY DEF Refuse
<1> QED
  BY <1>1, <1>2, <1>3, <1>4, BeginStep

LEMMA PushStep ==
  ASSUME IInv, NEW r \in Route, Push(r), UNCHANGED <<current, error, shown>>,
         retries' \in [Route -> 0 .. MaxCount]
  PROVE  IInv'
<1> DEFINE front == SubSeq(history, 1, at)
           h == Append(front, r)
<1>1. at \in 1 .. Len(history) /\ Len(history) \in Nat
  BY UrlType DEF IInv, RouterTypeOK
<1>2. \A k \in 1 .. at : history[k] \in Route
  BY <1>1, UrlType DEF IInv
<1>3. front \in Seq(Route) /\ Len(front) = at
  BY <1>1, <1>2, SubSeqProperties
<1> HIDE DEF front
<1>4. h \in Seq(Route) /\ Len(h) = at + 1 /\ h[at + 1] = r /\ at + 1 \in 1 .. Len(h)
  BY <1>1, <1>3, AppendProperties
<1>5. Depart(r, h, at + 1)
  BY DEF Push, front
<1> HIDE DEF h
<1> QED
  BY <1>4, <1>5, DepartStep

LEMMA ReplacedType ==
  ASSUME RouterTypeOK, NEW r \in Route
  PROVE  /\ ReplaceEntry(r) \in Seq(Route)
         /\ Len(ReplaceEntry(r)) = Len(history)
         /\ ReplaceEntry(r)[at] = r
  BY ExceptSeq DEF RouterTypeOK, ReplaceEntry

-----------------------------------------------------------------------------
(* The end of a navigation.                                                *)

\* The one that is answered or fails is the newest.
LEMMA AnswerableIsNewest ==
  ASSUME IInv, NEW i, Answerable(i)
  PROVE  /\ i = Len(nav) /\ i \in DOMAIN nav /\ nav # <<>>
         /\ nav[i].from = current /\ nav[i] \in Navigation
         /\ Url = nav[i].target
<1>1. i \in DOMAIN nav /\ Fetching(i) /\ ~nav[i].aborted
  BY DEF Answerable, NoMicrotask, Rejecting
<1>2. i = Len(nav)
  BY <1>1 DEF IInv, OneInFlight
<1> QED
  BY <1>1, <1>2, NavType DEF IInv, NewestIsLive, UrlMatchesRoute, Astray, Fetching

\* No path is pending any more when the newest navigation is over.
LEMMA NothingPending ==
  ASSUME IInv, NEW i, i = Len(nav), pending' = Forgotten(i)
  PROVE  pending' = [r \in Route |-> 0]
<1>1. pending \in [Route -> 0 .. Len(nav)]
  BY DEF IInv, RouterTypeOK
<1>2. \A r \in Route : pending[r] # 0 => nav[i].target = r
  BY DEF IInv, PendingIsLive
<1> QED
  BY <1>1, <1>2 DEF Forgotten

LEMMA EndStep ==
  ASSUME IInv, NEW i, NEW how \in {"completed", "failed"}, i = Len(nav), i \in DOMAIN nav,
         nav' = Ended(i, how), pending' = Forgotten(i),
         UNCHANGED <<controller, at>>,
         history' \in Seq(Route), Len(history') = Len(history),
         current' \in Route, history'[at] = current',
         error' \in [route: Route, retryable: BOOLEAN] \cup {NoError},
         shown' \in 0 .. MaxCount,
         retries' \in [Route -> 0 .. MaxCount]
  PROVE  IInv'
<1> USE DEF IInv
<1>1. pending' = [r \in Route |-> 0]
  BY NothingPending
<1>2. /\ nav' \in Seq(Navigation) /\ Len(nav') = Len(nav)
      /\ DOMAIN nav' = DOMAIN nav /\ nav'[i].state = how
      /\ \A j \in DOMAIN nav : j # i => nav'[j] = nav[j]
  BY EndedType
<1>3. ~Fetching(Len(nav))'
  BY <1>2 DEF Fetching
<1>4. Len(nav) \in Nat
  BY NavType
<1>5. RouterTypeOK'
  BY <1>1, <1>2, <1>4 DEF RouterTypeOK
<1>6. OneInFlight'
  BY <1>2, <1>3 DEF OneInFlight, Fetching
<1>7. NewestIsLive'
  BY <1>2, <1>3 DEF NewestIsLive
<1>8. PendingIsLive'
  BY <1>1 DEF PendingIsLive
<1>9. UrlMatchesRoute'
  BY <1>2, <1>3 DEF UrlMatchesRoute, Url
<1> QED
  BY <1>5, <1>6, <1>7, <1>8, <1>9

\* ... and when the browser refuses to let the error handler write.
LEMMA EndRefusedStep ==
  ASSUME IInv, NEW i, i = Len(nav), i \in DOMAIN nav, nav' = Ended(i, "refused"),
         UNCHANGED <<pending, controller, current, history, at>>,
         error' \in [route: Route, retryable: BOOLEAN] \cup {NoError},
         shown' \in 0 .. MaxCount,
         retries' \in [Route -> 0 .. MaxCount]
  PROVE  IInv'
<1> USE DEF IInv
<1>1. /\ nav' \in Seq(Navigation) /\ Len(nav') = Len(nav)
      /\ DOMAIN nav' = DOMAIN nav /\ nav'[i].state = "refused"
      /\ nav'[i].target = nav[i].target /\ nav'[i].aborted = nav[i].aborted
      /\ \A j \in DOMAIN nav : j # i => nav'[j] = nav[j]
  BY EndedType
<1>2. ~Fetching(Len(nav))'
  BY <1>1 DEF Fetching
<1>3. nav' # <<>>
  BY <1>1, NavType, EmptySeq
<1>4. RouterTypeOK'
  BY <1>1 DEF RouterTypeOK
<1>5. OneInFlight'
  BY <1>1, <1>2 DEF OneInFlight, Fetching
<1>6. NewestIsLive'
  BY <1>1, <1>2 DEF NewestIsLive
<1>7. PendingIsLive'
  BY <1>1 DEF PendingIsLive
<1>8. UrlMatchesRoute'
  BY <1>1, <1>3 DEF UrlMatchesRoute, Astray
<1> QED
  BY <1>4, <1>5, <1>6, <1>7, <1>8

-----------------------------------------------------------------------------
(* The invariant.                                                          *)

LEMMA InitIInv ==
  ASSUME RouterInit
  PROVE  IInv
<1>1. /\ nav \in Seq(Navigation) /\ Len(nav) = 0 /\ DOMAIN nav = {} /\ nav = <<>>
      /\ history \in Seq(Route) /\ Len(history) = 1 /\ history[1] = Start /\ at = 1
      /\ pending = [r \in Route |-> 0] /\ retries = [r \in Route |-> 0]
      /\ controller = 0 /\ current = Start /\ error = NoError /\ shown = 0
  BY RouterAssumption DEF RouterInit
<1>2. RouterTypeOK
  BY <1>1, RouterAssumption DEF RouterTypeOK
<1>3. OneInFlight /\ NewestIsLive /\ PendingIsLive /\ UrlMatchesRoute
  BY <1>1 DEF OneInFlight, NewestIsLive, PendingIsLive, UrlMatchesRoute, Url
<1> QED
  BY <1>2, <1>3 DEF IInv

LEMMA NextIInv ==
  ASSUME IInv, RouterNext
  PROVE  IInv'
<1> USE DEF IInv
<1>1. RouterTypeOK
  OBVIOUS
<1>2. ASSUME NEW r \in Route, Navigate(r)
      PROVE  IInv'
  <2>1. retries' \in [Route -> 0 .. MaxCount]
    BY <1>2 DEF Navigate, RouterTypeOK
  <2> QED
    BY <1>2, <2>1, PushStep DEF Navigate
<1>3. ASSUME NEW r \in Route, NavigateReplacing(r)
      PROVE  IInv'
  <2>1. retries' \in [Route -> 0 .. MaxCount]
    BY <1>3 DEF NavigateReplacing, RouterTypeOK
  <2>2. at \in 1 .. Len(ReplaceEntry(r))
    BY ReplacedType DEF RouterTypeOK
  <2> QED
    BY <1>3, <2>1, <2>2, ReplacedType, DepartStep DEF NavigateReplacing
<1>4. ASSUME NEW k \in DOMAIN history, Pop(k)
      PROVE  IInv'
  <2>1. retries' \in [Route -> 0 .. MaxCount] /\ history \in Seq(Route)
    BY <1>4 DEF Pop, RouterTypeOK
  <2>2. k \in 1 .. Len(history) /\ history[k] \in Route
    BY <1>1, UrlType
  <2> QED
    BY <1>4, <2>1, <2>2, DepartStep DEF Pop
<1>5. ASSUME NEW k \in DOMAIN history, PopJoins(k)
      PROVE  IInv'
  <2>1. k \in 1 .. Len(history) /\ history[k] \in Route
    BY <1>1, UrlType
  <2>2. pending[history[k]] # 0
    BY <1>5 DEF PopJoins, GoesAhead
  <2>3. /\ nav[Len(nav)].state \in {"fetching", "refused"}
        /\ nav[Len(nav)].target = history[k]
    BY <2>1, <2>2 DEF PendingIsLive
  <2>4. Len(nav) \in Nat /\ pending[history[k]] \in 0 .. Len(nav)
    BY <1>1, <2>1, NavType DEF RouterTypeOK
  <2>5. nav # <<>>
    BY <1>1, <2>1, <2>2, <2>4, NavType DEF PendingIsLive
  <2>6. RouterTypeOK'
    BY <1>5, <2>1 DEF PopJoins, RouterTypeOK
  <2>7. OneInFlight' /\ NewestIsLive' /\ PendingIsLive'
    BY <1>5 DEF PopJoins, OneInFlight, NewestIsLive, PendingIsLive, Fetching
  <2>8. UrlMatchesRoute'
    BY <1>5, <2>3, <2>5 DEF PopJoins, UrlMatchesRoute, Astray, Url, Fetching
  <2> QED
    BY <2>6, <2>7, <2>8
<1>6. ASSUME CountRetry
      PROVE  error.route \in Route /\ retries' \in [Route -> 0 .. MaxCount]
  <2>1. error.route \in Route /\ retries[error.route] < MaxCount
    BY <1>1, <1>6 DEF CountRetry, CanRetry, RouterTypeOK
  <2>2. retries \in [Route -> 0 .. MaxCount]
    BY DEF RouterTypeOK
  <2>3. retries[error.route] + 1 \in 0 .. MaxCount
    BY <2>1, <2>2, RouterAssumption
  <2> QED
    BY <1>6, <2>1, <2>2, <2>3 DEF CountRetry
<1>7. CASE Retry
  BY <1>6, <1>7, PushStep DEF Retry
<1>8. ASSUME NEW r \in Route, NavigateRefused(r)
      PROVE  IInv'
  <2>1. retries' \in [Route -> 0 .. MaxCount] /\ at \in DOMAIN history
    BY <1>1, <1>8, UrlType DEF NavigateRefused, RouterTypeOK
  <2> QED
    BY <1>8, <2>1, RefuseStep DEF NavigateRefused
<1>9. ASSUME NEW k \in DOMAIN history, PopRefused(k)
      PROVE  IInv'
  <2>1. retries' \in [Route -> 0 .. MaxCount] /\ history[k] \in Route
    BY <1>1, <1>9, UrlType DEF PopRefused, RouterTypeOK
  <2> QED
    BY <1>9, <2>1, RefuseStep DEF PopRefused
<1>10. CASE RetryRefused
  <2>1. at \in DOMAIN history
    BY <1>1, UrlType DEF RouterTypeOK
  <2> QED
    BY <1>6, <1>10, <2>1, RefuseStep DEF RetryRefused
<1>11. CASE RetryIgnored \/ Dismiss
  <2>1. RouterTypeOK'
    <3>1. ASSUME RetryIgnored PROVE RouterTypeOK'
      BY <1>1, <1>6, <3>1 DEF RetryIgnored, RouterTypeOK
    <3>2. ASSUME Dismiss PROVE RouterTypeOK'
      BY <1>1, <3>2, RouterAssumption DEF Dismiss, RouterTypeOK
    <3> QED
      BY <1>11, <3>1, <3>2
  <2> QED
    BY <1>11, <2>1 DEF RetryIgnored, Dismiss, OneInFlight, NewestIsLive,
                      PendingIsLive, UrlMatchesRoute, Astray, Url, Fetching
<1>12. ASSUME NEW i \in DOMAIN nav, Arrive(i)
       PROVE  IInv'
  <2> DEFINE actual == Redirect[nav[i].target]
  <2>1. /\ i = Len(nav) /\ nav[i] \in Navigation /\ Url = nav[i].target
    BY <1>12, AnswerableIsNewest DEF Arrive
  <2>2. actual \in Route
    BY <2>1, RouterAssumption DEF Navigation
  <2>3. /\ history' = IF actual = nav[i].target THEN history ELSE ReplaceEntry(actual)
        /\ current' = actual /\ retries' = [retries EXCEPT ![actual] = 0]
    BY <1>12 DEF Arrive
  <2> HIDE DEF actual
  <2>4. history' \in Seq(Route) /\ Len(history') = Len(history) /\ history'[at] = current'
    BY <2>1, <2>2, <2>3, ReplacedType DEF Url, RouterTypeOK
  <2>5. retries' \in [Route -> 0 .. MaxCount] /\ 0 \in 0 .. MaxCount
    BY <2>2, <2>3, RouterAssumption DEF RouterTypeOK
  <2> QED
    BY <1>12, <2>1, <2>2, <2>3, <2>4, <2>5, EndStep DEF Arrive
<1>13. ASSUME NEW i \in DOMAIN nav, NEW network \in BOOLEAN, Fail(i, network)
       PROVE  IInv'
  <2>1. /\ i = Len(nav) /\ nav[i] \in Navigation /\ nav[i].from = current
    BY <1>13, AnswerableIsNewest DEF Fail
  <2>2. current \in Route /\ nav[i].target \in Route
    BY <2>1 DEF RouterTypeOK, Navigation
  <2>3. history' \in Seq(Route) /\ Len(history') = Len(history) /\ history'[at] = current'
    BY <1>13, <2>1, <2>2, ReplacedType DEF Fail
  <2>4. retries' \in [Route -> 0 .. MaxCount] /\ current' \in Route
    BY <1>13, <2>2 DEF Fail, RouterTypeOK
  <2>5. /\ error' \in [route: Route, retryable: BOOLEAN] \cup {NoError}
        /\ shown' \in 0 .. MaxCount
    BY <1>13, <2>2, <2>4 DEF Fail, Display
  <2> QED
    BY <1>13, <2>1, <2>3, <2>4, <2>5, EndStep DEF Fail
<1>14. ASSUME NEW i \in DOMAIN nav, NEW network \in BOOLEAN, FailRefused(i, network)
       PROVE  IInv'
  <2>1. i = Len(nav) /\ nav[i] \in Navigation
    BY <1>14, AnswerableIsNewest DEF FailRefused
  <2>2. retries' \in [Route -> 0 .. MaxCount] /\ nav[i].target \in Route
    BY <1>14, <2>1 DEF FailRefused, RouterTypeOK, Navigation
  <2>3. /\ error' \in [route: Route, retryable: BOOLEAN] \cup {NoError}
        /\ shown' \in 0 .. MaxCount
    BY <1>14, <2>2 DEF FailRefused, Display
  <2> QED
    BY <1>14, <2>1, <2>2, <2>3, EndRefusedStep DEF FailRefused
<1>15. ASSUME NEW i \in DOMAIN nav, Cleanup(i)
       PROVE  IInv'
  <2>1. i # Len(nav)
    BY <1>1, <1>15, NavType DEF Cleanup, Rejecting, NewestIsLive
  <2>2. /\ nav' \in Seq(Navigation) /\ Len(nav') = Len(nav)
        /\ DOMAIN nav' = DOMAIN nav /\ nav'[i].state = "cancelled"
        /\ \A j \in DOMAIN nav : j # i => nav'[j] = nav[j]
    BY <1>15, EndedType DEF Cleanup
  <2>3. nav # <<>> /\ Len(nav) \in DOMAIN nav /\ nav'[Len(nav)] = nav[Len(nav)]
    <3>1. nav # <<>>
      BY <1>1, NavType, EmptySeq
    <3> QED
      BY <1>1, <2>1, <2>2, <3>1, NavType
  <2>4. nav' # <<>>
    BY <1>1, <2>2, <2>3, NavType, EmptySeq
  <2>5. \A r \in Route : pending'[r] = pending[r] \/ pending'[r] = 0
    BY <1>15 DEF Cleanup, Forgotten, RouterTypeOK
  <2>6. pending' \in [Route -> 0 .. Len(nav)]
    <3>1. pending \in [Route -> 0 .. Len(nav)] /\ 0 \in 0 .. Len(nav)
      BY <1>1, NavType DEF RouterTypeOK
    <3>2. pending' = [pending EXCEPT ![nav[i].target] = 0]
      BY <1>15 DEF Cleanup, Forgotten
    <3> QED
      BY <3>1, <3>2
  <2>7. RouterTypeOK'
    BY <1>15, <2>2, <2>6 DEF Cleanup, RouterTypeOK
  <2>8. OneInFlight'
    BY <2>2 DEF OneInFlight, Fetching
  <2>9. NewestIsLive' /\ UrlMatchesRoute'
    BY <1>15, <2>2, <2>3, <2>4
       DEF Cleanup, NewestIsLive, UrlMatchesRoute, Astray, Url, Fetching
  <2>10. PendingIsLive'
    BY <2>2, <2>3, <2>5 DEF PendingIsLive
  <2> QED
    BY <2>7, <2>8, <2>9, <2>10
<1> QED
  BY <1>2, <1>3, <1>4, <1>5, <1>7, <1>8, <1>9, <1>10, <1>11, <1>12, <1>13, <1>14, <1>15
     DEF RouterNext, RouterEnds

LEMMA StutterIInv ==
  ASSUME IInv, UNCHANGED routerVars
  PROVE  IInv'
  BY DEF IInv, routerVars, RouterTypeOK, OneInFlight, NewestIsLive, PendingIsLive,
         UrlMatchesRoute, Astray, Url, Fetching

LEMMA RouterInvariant == RouterSpec => []IInv
<1>1. RouterInit => IInv
  BY InitIInv
<1>2. IInv /\ [RouterNext]_routerVars => IInv'
  BY NextIInv, StutterIInv
<1> QED
  BY <1>1, <1>2, PTL DEF RouterSpec

-----------------------------------------------------------------------------

(***************************************************************************)
(* The state of the router keeps its type: the tables name navigations     *)
(* there are, and the entry the page is at is one of the history.          *)
(***************************************************************************)
THEOREM RouterTypeCorrect == RouterSpec => []RouterTypeOK
  BY RouterInvariant, PTL DEF IInv

(***************************************************************************)
(* However often the application navigates within one task, and whatever   *)
(* path drops out of the pending table too early, no two navigations can   *)
(* still change the page.                                                  *)
(***************************************************************************)
THEOREM OneNavigationInFlight == RouterSpec => []OneInFlight
  BY RouterInvariant, PTL DEF IInv

(***************************************************************************)
(* A click that is taken for a repetition repeats the newest navigation,   *)
(* whose end is still to come unless the browser refused it: such a dead   *)
(* entry never outlives the next navigation.                               *)
(***************************************************************************)
THEOREM PendingNavigationsLive == RouterSpec => []PendingIsLive
  BY RouterInvariant, PTL DEF IInv

(***************************************************************************)
(* The address bar shows the target of the navigation under way, or else   *)
(* the current route, unless the newest navigation is one the browser      *)
(* refused.                                                                *)
(***************************************************************************)
THEOREM UrlFollowsRoute == RouterSpec => []UrlMatchesRoute
  BY RouterInvariant, PTL DEF IInv

-----------------------------------------------------------------------------
(* The provider beside the router.                                         *)

Done(j) == nav[j].state = "completed"

\* Where navigation j leads, if it is to complete.
Lands(j) == Redirect[nav[j].target]
MayLand(j) == nav[j].state \in {"fetching", "completed"}

\* A body under way is the newest navigation's, or about to reject.
BodiesOfDone ==
  \A b \in bodies : /\ Done(b.id)
                    /\ b.page.route = Lands(b.id)
                    /\ b.id = Len(nav) \/ nav[b.id].aborted

\* The current route is where the last navigation to complete has led.
CurrentIsLast ==
  /\ (\A j \in DOMAIN nav : ~Done(j)) => current = Start
  /\ \A j \in DOMAIN nav :
       Done(j) /\ (\A k \in DOMAIN nav : k > j => ~Done(k)) => current = Lands(j)

\* The answer of a navigation newer than the screen is still to be shown.
ShownUnlessLost ==
  ~lost => \A j \in DOMAIN nav :
             Done(j) /\ j > screen.id => \E b \in bodies : b.id = j

\* A page fetched at navigation id is the page this navigation leads to.
Belongs(id, page) ==
  IF id = 0 THEN page = Start ELSE MayLand(id) => page = Lands(id)

RefetchesBelong ==
  \A f \in refetches :
    /\ f.id <= Len(nav)
    /\ Belongs(f.id, Redirect[f.path])
    /\ f.answer # NoError => f.answer.route = Redirect[f.path]

ScreenBelongs ==
  /\ screen.id <= Len(nav)
  /\ screen.body # "torn" => Belongs(screen.id, screen.page.route)
  /\ screen.by = "navigation" /\ screen.id # 0 => Done(screen.id)
  /\ Open => /\ screen.by = "navigation" /\ screen.id # 0
             /\ screen.id = Len(nav) \/ nav[screen.id].aborted

\* One refetch under a key; none is older than what is on the screen.
RefetchesKeyed ==
  \A f, g \in refetches : f.id = g.id /\ f.path = g.path => f = g

RefetchesRecent ==
  /\ \A f \in refetches :
       /\ f.since <= edition
       /\ f.answer # NoError => f.since <= f.answer.edition /\ f.answer.edition <= edition
  /\ screen.by = "refetch" =>
       /\ screen.page.edition <= edition
       /\ \A f \in refetches :
            f.id = screen.id /\ f.path = screen.path => screen.page.edition <= f.since

PInv == /\ IInv /\ TypeOK /\ BodiesOfDone /\ CurrentIsLast /\ ShownUnlessLost
        /\ RefetchesBelong /\ ScreenBelongs /\ RefetchesKeyed /\ RefetchesRecent

-----------------------------------------------------------------------------
(* What a step does to the navigations.                                    *)

\* Every step of the two together is one of the router's, or none.
LEMMA NextIsRouters ==
  ASSUME Next
  PROVE  RouterNext \/ UNCHANGED routerVars
<1>1. CASE NavigationStart
  BY <1>1 DEF NavigationStart, RouterNext
<1>2. CASE RouterAlone
  BY <1>2 DEF RouterAlone, RouterNext, RouterEnds
<1>3. CASE Reads
  BY <1>3 DEF Reads, ArriveAndRead, ShowBody, ShowStream, Show, BodyFails, DropBody,
              StreamEnds, StreamFails, StreamAborted, RouterNext, RouterEnds
<1>4. CASE Refresh \/ Refetching \/ Publish
  BY <1>4 DEF Refresh, Refetching, RefetchAnswered, RefetchParsed, RefetchFails, Publish
<1> QED
  BY <1>1, <1>2, <1>3, <1>4 DEF Next

\* A navigation stays where it leads to, and over once it is completed.
Grows ==
  /\ Len(nav') \in Nat /\ Len(nav') >= Len(nav)
  /\ \A j \in DOMAIN nav :
       /\ j \in DOMAIN nav'
       /\ Lands(j)' = Lands(j)
       /\ Done(j) => Done(j)'
       /\ MayLand(j)' => MayLand(j)
       /\ nav[j].aborted => nav'[j].aborted
       /\ j = Len(nav) => j = Len(nav') \/ nav'[j].aborted

LEMMA BeginNav ==
  ASSUME IInv, NEW r \in Route, NEW state \in {"fetching", "refused"}, Begin(r, state)
  PROVE  /\ Grows
         /\ Len(nav') = Len(nav) + 1
         /\ DOMAIN nav' = DOMAIN nav \cup {Len(nav) + 1}
         /\ nav'[Len(nav) + 1].state = state
         /\ \A j \in DOMAIN nav : nav'[j].state = nav[j].state
         /\ Len(nav) \in DOMAIN nav => nav'[Len(nav)].aborted
<1> DEFINE new == [target |-> r, from |-> current, aborted |-> FALSE,
                   state |-> state]
           n == Len(nav) + 1
<1>0. RouterTypeOK /\ controller = Len(nav)
  BY DEF IInv, NewestIsLive
<1>1. new \in Navigation /\ new.state = state
  BY <1>0 DEF Navigation, RouterTypeOK
<1>2. nav' = Append(Aborted, new)
  BY DEF Begin
<1> HIDE DEF new
<1>3. /\ nav' \in Seq(Navigation)
      /\ Len(nav') = n /\ n \in Nat
      /\ DOMAIN nav' = 1 .. n
      /\ nav'[n] = new
      /\ \A i \in DOMAIN nav : nav'[i] = Aborted[i]
  BY <1>0, <1>1, <1>2, AbortedType, NavType, AppendProperties, LenProperties
<1>4. DOMAIN nav' = DOMAIN nav \cup {n} /\ Len(nav) \in Nat
  BY <1>0, <1>3, NavType
<1>5. ASSUME NEW j \in DOMAIN nav
      PROVE  /\ nav'[j].state = nav[j].state
             /\ nav'[j].target = nav[j].target
             /\ nav[j].aborted \/ j = Len(nav) => nav'[j].aborted
  <2>1. Aborted[j] = [nav[j] EXCEPT !.aborted = @ \/ Cancels(j)]
    BY DEF Aborted
  <2>2. nav[j] \in Navigation
    BY <1>0, NavType
  <2>3. Aborted[j].target = nav[j].target
    BY <2>1, <2>2 DEF Navigation
  <2>4. j = Len(nav) => Cancels(j)
    BY <1>0 DEF Cancels
  <2> QED
    BY <1>0, <1>3, <2>3, <2>4, AbortedType
<1>6. Grows
  BY <1>3, <1>4, <1>5 DEF Grows, Lands, Done, MayLand
<1> QED
  BY <1>1, <1>3, <1>4, <1>5, <1>6

LEMMA EndedNav ==
  ASSUME IInv, NEW i \in DOMAIN nav, Fetching(i),
         NEW how \in {"completed", "failed", "cancelled", "refused"},
         nav' = Ended(i, how)
  PROVE  /\ Grows
         /\ Len(nav') = Len(nav)
         /\ DOMAIN nav' = DOMAIN nav
         /\ nav'[i].state = how
         /\ \A j \in DOMAIN nav : j # i => nav'[j] = nav[j]
<1>0. RouterTypeOK
  BY DEF IInv
<1>1. /\ Len(nav') = Len(nav)
      /\ DOMAIN nav' = DOMAIN nav
      /\ nav'[i].state = how
      /\ \A j \in DOMAIN nav : j # i => nav'[j] = nav[j]
  BY <1>0, EndedType
<1>2. nav'[i].target = nav[i].target /\ nav'[i].aborted = nav[i].aborted
  BY <1>0, EndedType
<1>3. Len(nav) \in Nat
  BY <1>0, NavType
<1>4. Grows
  BY <1>1, <1>2, <1>3 DEF Grows, Lands, Done, MayLand, Fetching
<1> QED
  BY <1>1, <1>4

LEMMA SameNav ==
  ASSUME IInv, UNCHANGED nav
  PROVE  Grows
<1>1. Len(nav) \in Nat
  BY NavType DEF IInv
<1> QED
  BY <1>1 DEF Grows, Lands, Done, MayLand

-----------------------------------------------------------------------------
(* What is left alone by a step of the router, or a refetch that ends.     *)

LEMMA BelongsStays ==
  ASSUME RouterTypeOK, Grows, NEW id \in Nat, id <= Len(nav), NEW page,
         Belongs(id, page)
  PROVE  id <= Len(nav') /\ Belongs(id, page)'
<1>1. id # 0 => id \in DOMAIN nav
  BY NavType
<1>2. id <= Len(nav')
  BY NavType DEF Grows
<1>3. Belongs(id, page)'
  BY <1>1 DEF Grows, Belongs
<1> QED
  BY <1>2, <1>3

LEMMA RefetchesStay ==
  ASSUME PInv, Grows, refetches' \subseteq refetches
  PROVE  RefetchesBelong'
<1> SUFFICES ASSUME NEW f \in refetches'
             PROVE  /\ f.id <= Len(nav')
                    /\ Belongs(f.id, Redirect[f.path])'
                    /\ f.answer # NoError => f.answer.route = Redirect[f.path]
  BY DEF RefetchesBelong
<1>1. f \in refetches /\ f.id \in Nat
  BY DEF PInv, TypeOK, Refetch
<1> QED
  BY <1>1, BelongsStays DEF PInv, IInv, RefetchesBelong

LEMMA ScreenStays ==
  ASSUME PInv, Grows, UNCHANGED screen
  PROVE  ScreenBelongs'
<1>1. screen.id \in Nat /\ RouterTypeOK
  BY DEF PInv, IInv, TypeOK, Screen
<1>2. /\ screen.id <= Len(nav)
      /\ screen.body # "torn" => Belongs(screen.id, screen.page.route)
  BY DEF PInv, ScreenBelongs
<1>3. \A id \in Nat : \A page : id <= Len(nav) /\ Belongs(id, page) =>
        id <= Len(nav') /\ Belongs(id, page)'
  BY <1>1, BelongsStays
<1>4. /\ screen'.id <= Len(nav')
      /\ screen'.body # "torn" => Belongs(screen.id, screen.page.route)'
  <2>1. PICK id, page : id = screen.id /\ page = screen.page.route
    OBVIOUS
  <2>2. screen'.id = id /\ screen'.page.route = page
    BY <2>1
  <2>3. screen.body # "torn" => Belongs(id, page)'
    BY <1>1, <1>2, <1>3, <2>1
  <2>4. screen.id <= Len(nav')
    BY <1>1, <1>2, NavType DEF Grows
  <2> QED
    BY <2>2, <2>3, <2>4 DEF Belongs
<1>5. screen.by = "navigation" /\ screen.id # 0 => Done(screen.id)'
  BY <1>1, <1>2, NavType DEF PInv, ScreenBelongs, Grows, Done
<1>6. Open => /\ screen.by = "navigation" /\ screen.id # 0
              /\ screen.id = Len(nav') \/ nav'[screen.id].aborted
  <2>1. screen.id # 0 => screen.id \in DOMAIN nav
    BY <1>1, <1>2, NavType
  <2> QED
    BY <2>1 DEF PInv, ScreenBelongs, Grows
<1> QED
  BY <1>4, <1>5, <1>6 DEF ScreenBelongs, Done, Open

LEMMA RecentStays ==
  ASSUME PInv, refetches' \subseteq refetches, UNCHANGED <<screen, edition>>
  PROVE  RefetchesKeyed' /\ RefetchesRecent'
  BY DEF PInv, RefetchesKeyed, RefetchesRecent

\* A completed navigation stays the last, if no other is completed.
LEMMA CurrentStays ==
  ASSUME PInv, Grows, UNCHANGED current,
         \A j \in DOMAIN nav' : Done(j)' => j \in DOMAIN nav /\ Done(j)
  PROVE  CurrentIsLast'
<1>1. (\A j \in DOMAIN nav' : ~Done(j)') => current' = Start
  BY DEF PInv, CurrentIsLast, Grows
<1>2. ASSUME NEW j \in DOMAIN nav', Done(j)',
             \A k \in DOMAIN nav' : k > j => ~Done(k)'
      PROVE  current' = Lands(j)'
  <2>1. j \in DOMAIN nav /\ Done(j)
    BY <1>2
  <2>2. \A k \in DOMAIN nav : k > j => ~Done(k)
    BY <1>2 DEF Grows
  <2> QED
    BY <2>1, <2>2 DEF PInv, CurrentIsLast, Grows
<1> QED
  BY <1>1, <1>2 DEF CurrentIsLast

\* No navigation completes, no body ends and the screen stays as it is.
LEMMA ShownStays ==
  ASSUME PInv, UNCHANGED <<bodies, screen, lost>>,
         \A j \in DOMAIN nav' : Done(j)' => j \in DOMAIN nav /\ Done(j)
  PROVE  ShownUnlessLost'
  BY DEF PInv, ShownUnlessLost

LEMMA TypeStep ==
  ASSUME PInv, RouterTypeOK', Grows, navId' = Len(nav'),
         UNCHANGED <<bodies, screen, refetches, lastGood, edition, lost>>
  PROVE  TypeOK'
<1>1. \A b \in bodies : b.id <= Len(nav')
  <2> SUFFICES ASSUME NEW b \in bodies PROVE b.id <= Len(nav')
    OBVIOUS
  <2>1. b.id \in Nat /\ b.id <= Len(nav) /\ Len(nav) \in Nat
    BY NavType DEF PInv, IInv, TypeOK, Body
  <2> QED
    BY <2>1 DEF Grows
<1> QED
  BY <1>1 DEF PInv, TypeOK

LEMMA BodyId ==
  ASSUME PInv, NEW b \in bodies
  PROVE  /\ b.id \in DOMAIN nav /\ b.id \in Nat /\ Done(b.id)
         /\ b.page.route = Lands(b.id)
         /\ b.id = Len(nav) \/ nav[b.id].aborted
<1>1. b.id \in 1 .. MaxNavs /\ b.id <= Len(nav) /\ RouterTypeOK
  BY DEF PInv, IInv, TypeOK, Body
<1>2. b.id \in DOMAIN nav
  BY <1>1, RouterAssumption, NavType
<1> QED
  BY <1>1, <1>2, RouterAssumption DEF PInv, BodiesOfDone

-----------------------------------------------------------------------------
(* The steps of the router.                                                *)

LEMMA BeginKeeps ==
  ASSUME PInv, RouterTypeOK', NEW r \in Route,
         NEW state \in {"fetching", "refused"}, Begin(r, state),
         navId' = Len(nav'),
         UNCHANGED <<current, bodies, screen, refetches, lastGood, edition, lost>>
  PROVE  /\ TypeOK' /\ BodiesOfDone' /\ CurrentIsLast' /\ ShownUnlessLost'
         /\ RefetchesBelong' /\ ScreenBelongs' /\ RefetchesKeyed' /\ RefetchesRecent'
<1>0. IInv /\ RouterTypeOK
  BY DEF PInv, IInv
<1>1. /\ Grows
      /\ DOMAIN nav' = DOMAIN nav \cup {Len(nav) + 1}
      /\ nav'[Len(nav) + 1].state \in {"fetching", "refused"}
      /\ \A j \in DOMAIN nav : nav'[j].state = nav[j].state
      /\ Len(nav) \in DOMAIN nav => nav'[Len(nav)].aborted
  BY <1>0, BeginNav
<1>2. \A j \in DOMAIN nav' : Done(j)' => j \in DOMAIN nav /\ Done(j)
  BY <1>1 DEF Done
<1>3. BodiesOfDone'
  <2> SUFFICES ASSUME NEW b \in bodies
               PROVE  Done(b.id)' /\ b.page.route = Lands(b.id)' /\ nav'[b.id].aborted
    BY DEF BodiesOfDone, Done, Lands
  <2>1. b.id \in DOMAIN nav /\ Done(b.id) /\ b.page.route = Lands(b.id)
    BY BodyId
  <2>2. nav'[b.id].aborted
    BY <1>1, <2>1, BodyId DEF Grows
  <2> QED
    BY <1>1, <2>1, <2>2 DEF Grows
<1> QED
  BY <1>1, <1>2, <1>3, TypeStep, CurrentStays, ShownStays, RefetchesStay,
     ScreenStays, RecentStays

\* Cleanup and Fail: a navigation ends without having led anywhere.
LEMMA EndKeeps ==
  ASSUME PInv, RouterTypeOK', NEW i \in DOMAIN nav, Fetching(i),
         NEW how \in {"failed", "cancelled", "refused"}, nav' = Ended(i, how),
         UNCHANGED current, UNCHANGED providerVars
  PROVE  /\ TypeOK' /\ BodiesOfDone' /\ CurrentIsLast' /\ ShownUnlessLost'
         /\ RefetchesBelong' /\ ScreenBelongs' /\ RefetchesKeyed' /\ RefetchesRecent'
<1> USE DEF providerVars
<1>0. IInv
  BY DEF PInv
<1>1. /\ Grows
      /\ Len(nav') = Len(nav)
      /\ DOMAIN nav' = DOMAIN nav
      /\ nav'[i].state = how
      /\ \A j \in DOMAIN nav : j # i => nav'[j] = nav[j]
  BY <1>0, EndedNav
<1>2. \A j \in DOMAIN nav' : Done(j)' => j \in DOMAIN nav /\ Done(j)
  BY <1>1 DEF Done
<1>3. BodiesOfDone'
  <2> SUFFICES ASSUME NEW b \in bodies
               PROVE  /\ Done(b.id)' /\ b.page.route = Lands(b.id)'
                      /\ b.id = Len(nav') \/ nav'[b.id].aborted
    BY DEF BodiesOfDone, Done, Lands
  <2>1. b.id \in DOMAIN nav /\ Done(b.id) /\ b.page.route = Lands(b.id)
    BY BodyId
  <2>2. b.id = Len(nav') \/ nav'[b.id].aborted
    BY <1>1, <2>1, BodyId DEF Grows
  <2> QED
    BY <1>1, <2>1, <2>2 DEF Grows
<1>4. navId' = Len(nav')
  BY <1>1 DEF PInv, TypeOK
<1> QED
  BY <1>1, <1>2, <1>3, <1>4, TypeStep, CurrentStays, ShownStays, RefetchesStay,
     ScreenStays, RecentStays

\* The rest: the navigations and the provider stay as they are.
LEMMA AloneKeeps ==
  ASSUME PInv, RouterTypeOK', UNCHANGED <<nav, current>>, UNCHANGED providerVars
  PROVE  /\ TypeOK' /\ BodiesOfDone' /\ CurrentIsLast' /\ ShownUnlessLost'
         /\ RefetchesBelong' /\ ScreenBelongs' /\ RefetchesKeyed' /\ RefetchesRecent'
<1> USE DEF providerVars
<1>1. Grows
  BY SameNav DEF PInv
<1>2. \A j \in DOMAIN nav' : Done(j)' => j \in DOMAIN nav /\ Done(j)
  BY DEF Done
<1>3. BodiesOfDone'
  BY DEF PInv, BodiesOfDone, Done, Lands
<1>4. navId' = Len(nav')
  BY DEF PInv, TypeOK
<1> QED
  BY <1>1, <1>2, <1>3, <1>4, TypeStep, CurrentStays, ShownStays, RefetchesStay,
     ScreenStays, RecentStays

-----------------------------------------------------------------------------
(* The answers of navigations.                                             *)

LEMMA IdleBody ==
  ASSUME PInv, Idle, NEW b \in bodies
  PROVE  b.id = Len(nav) /\ b.id = navId
  BY BodyId DEF Idle, BodyAborted, PInv, TypeOK

LEMMA NavLands ==
  ASSUME RouterTypeOK, NEW i \in DOMAIN nav
  PROVE  nav[i].target \in Route /\ Lands(i) \in Route
  BY NavType, RouterAssumption DEF Lands, Navigation

LEMMA AnswersArePages ==
  ASSUME PInv, NEW path \in Route, NEW e \in 0 .. edition, NEW page \in Answers(path, e)
  PROVE  /\ page \in Page /\ page.route = Redirect[path]
         /\ e <= page.edition /\ page.edition <= edition
  BY RouterAssumption, ProviderAssumption DEF PInv, TypeOK, Answers, Page

LEMMA ArriveKeeps ==
  ASSUME PInv, RouterTypeOK', NEW i \in DOMAIN nav, ArriveAndRead(i)
  PROVE  /\ TypeOK' /\ BodiesOfDone' /\ CurrentIsLast' /\ ShownUnlessLost'
         /\ RefetchesBelong' /\ ScreenBelongs' /\ RefetchesKeyed' /\ RefetchesRecent'
<1>0. IInv /\ RouterTypeOK /\ TypeOK
  BY DEF PInv, IInv
<1>1. /\ Answerable(i) /\ nav' = Ended(i, "completed") /\ current' = Lands(i)
      /\ UNCHANGED <<navId, screen, refetches, lastGood, edition, lost>>
  BY DEF ArriveAndRead, Arrive, Lands
<1>2. Fetching(i) /\ i = Len(nav) /\ i \in Nat /\ i = navId
  BY <1>0, <1>1, AnswerableIsNewest, NavType DEF Answerable, TypeOK
<1>3. /\ Grows
      /\ Len(nav') = Len(nav)
      /\ DOMAIN nav' = DOMAIN nav
      /\ nav'[i].state = "completed"
      /\ \A j \in DOMAIN nav : j # i => nav'[j] = nav[j]
  BY <1>0, <1>1, <1>2, EndedNav
<1>4. PICK page \in Answers(nav[i].target, 0), streamed \in BOOLEAN :
        bodies' = bodies \cup {[id |-> i, page |-> page, streamed |-> streamed]}
  BY <1>2 DEF ArriveAndRead, Announced
<1>5. page \in Page /\ page.route = Lands(i)
  <2>1. 0 \in 0 .. edition
    BY <1>0, ProviderAssumption DEF TypeOK
  <2> QED
    BY <1>0, <2>1, NavLands, AnswersArePages DEF Lands
<1> DEFINE new == [id |-> i, page |-> page, streamed |-> streamed]
<1>6. new \in Body /\ new.id = i /\ new.page = page
  <2>1. Len(nav) <= MaxNavs
    BY <1>0 DEF RouterTypeOK
  <2>2. i \in 1 .. Len(nav)
    BY <1>0, <1>2, NavType
  <2>3. i \in 1 .. MaxNavs
    BY <1>2, <2>1, <2>2, RouterAssumption
  <2> QED
    BY <1>5, <2>3 DEF Body
<1> HIDE DEF new
<1>7. bodies' = bodies \cup {new}
  BY <1>4 DEF new
<1>8. TypeOK'
  <2>1. bodies' \subseteq Body /\ \A b \in bodies' : b.id <= Len(nav')
    BY <1>0, <1>2, <1>3, <1>6, <1>7, NavType DEF TypeOK
  <2> QED
    BY <1>0, <1>1, <1>3, <2>1 DEF TypeOK
<1>9. BodiesOfDone'
  <2> SUFFICES ASSUME NEW b \in bodies'
               PROVE  /\ Done(b.id)' /\ b.page.route = Lands(b.id)'
                      /\ b.id = Len(nav') \/ nav'[b.id].aborted
    BY DEF BodiesOfDone, Done, Lands
  <2>1. CASE b = new
    BY <1>2, <1>3, <1>5, <1>6, <2>1 DEF Done, Grows
  <2>2. CASE b \in bodies
    BY <1>3, <2>2, BodyId DEF Grows
  <2> QED
    BY <1>7, <2>1, <2>2
<1>10. CurrentIsLast'
  <2>1. Done(i)' /\ i \in DOMAIN nav'
    BY <1>3 DEF Done
  <2>2. ASSUME NEW j \in DOMAIN nav', \A k \in DOMAIN nav' : k > j => ~Done(k)'
        PROVE  j = i
    BY <1>0, <1>2, <1>3, <2>1, <2>2, NavType
  <2>3. Lands(i)' = Lands(i)
    BY <1>3 DEF Grows
  <2> QED
    BY <1>1, <2>1, <2>2, <2>3 DEF CurrentIsLast
<1>11. ShownUnlessLost'
  <2> SUFFICES ASSUME ~lost, NEW j \in DOMAIN nav', Done(j)', j > screen.id
               PROVE  \E b \in bodies' : b.id = j
    BY <1>1 DEF ShownUnlessLost
  <2>1. CASE j = i
    BY <1>6, <1>7, <2>1
  <2>2. CASE j # i
    BY <1>3, <1>7, <2>2 DEF PInv, ShownUnlessLost, Done
  <2> QED
    BY <2>1, <2>2
<1> QED
  BY <1>1, <1>3, <1>8, <1>9, <1>10, <1>11, RefetchesStay, ScreenStays, RecentStays

LEMMA BodiesStay ==
  ASSUME PInv, UNCHANGED nav, bodies' \subseteq bodies
  PROVE  BodiesOfDone'
  BY DEF PInv, BodiesOfDone, Done, Lands

LEMMA CurrentSame ==
  ASSUME PInv, UNCHANGED <<nav, current>>
  PROVE  CurrentIsLast'
  BY DEF PInv, CurrentIsLast, Done, Lands

LEMMA ShowKeeps ==
  ASSUME PInv, RouterTypeOK', NEW b \in bodies, NEW body \in {"whole", "open"},
         Show(b, body), ~BodyAborted(b)
  PROVE  /\ TypeOK' /\ BodiesOfDone' /\ CurrentIsLast' /\ ShownUnlessLost'
         /\ RefetchesBelong' /\ ScreenBelongs' /\ RefetchesKeyed' /\ RefetchesRecent'
<1> DEFINE display == [id |-> b.id, page |-> b.page, by |-> "navigation",
                     path |-> nav[b.id].target, body |-> body]
<1>0. IInv /\ RouterTypeOK /\ TypeOK
  BY DEF PInv, IInv
<1>1. /\ UNCHANGED <<nav, current, navId, refetches, edition, lastGood>>
      /\ bodies' = bodies \ {b}
  BY DEF Show, routerVars
<1>2. BodiesOfDone' /\ CurrentIsLast' /\ RefetchesBelong'
  BY <1>0, <1>1, SameNav, BodiesStay, CurrentSame, RefetchesStay
<1>3. b.id = Len(nav) /\ b.id = navId /\ b.id \in Nat /\ b.id \in DOMAIN nav
  BY <1>0, BodyId DEF BodyAborted, TypeOK
<1>4. screen' = display /\ lost' = FALSE
  BY <1>3 DEF Show
<1>5. /\ display \in Screen /\ display.id = b.id /\ display.page = b.page
      /\ display.by = "navigation" /\ display.body = body
  <2>1. b.id \in 0 .. MaxNavs /\ b.page \in Page
    BY <1>0, RouterAssumption DEF TypeOK, Body
  <2>2. nav[b.id].target \in Route
    BY <1>0, <1>3, NavLands
  <2> QED
    BY <2>1, <2>2 DEF Screen
<1> HIDE DEF display
<1>6. TypeOK'
  <2>1. bodies' \subseteq Body /\ \A c \in bodies' : c.id <= Len(nav)
    BY <1>0, <1>1 DEF TypeOK
  <2>2. lost' \in BOOLEAN
    BY <1>4
  <2> QED
    BY <1>0, <1>1, <1>4, <1>5, <2>1, <2>2 DEF TypeOK
<1>7. ShownUnlessLost'
  BY <1>0, <1>1, <1>3, <1>4, <1>5, NavType DEF ShownUnlessLost
<1>8. ScreenBelongs'
  <2>1. Done(b.id) /\ b.page.route = Lands(b.id) /\ b.id # 0
    BY <1>0, <1>3, BodyId, NavType
  <2>2. screen'.id = b.id /\ screen'.page = b.page /\ screen'.by = "navigation"
    BY <1>4, <1>5
  <2>3. b.id <= Len(nav)
    BY <1>3
  <2> QED
    BY <1>1, <1>3, <2>1, <2>2, <2>3 DEF ScreenBelongs, Belongs, Done, Lands, Open
<1>9. RefetchesKeyed' /\ RefetchesRecent'
  BY <1>1, <1>4, <1>5 DEF PInv, RefetchesKeyed, RefetchesRecent
<1> QED
  BY <1>2, <1>6, <1>7, <1>8, <1>9

LEMMA BodyKeeps ==
  ASSUME PInv, RouterTypeOK', NEW b \in bodies,
         ShowBody(b) \/ ShowStream(b) \/ BodyFails(b) \/ DropBody(b)
  PROVE  /\ TypeOK' /\ BodiesOfDone' /\ CurrentIsLast' /\ ShownUnlessLost'
         /\ RefetchesBelong' /\ ScreenBelongs' /\ RefetchesKeyed' /\ RefetchesRecent'
<1>0. IInv /\ RouterTypeOK /\ TypeOK
  BY DEF PInv, IInv
<1>1. CASE ShowBody(b) \/ ShowStream(b)
  <2>1. \E body \in {"whole", "open"} : Show(b, body) /\ ~BodyAborted(b)
    BY <1>1 DEF ShowBody, ShowStream, Idle
  <2> QED
    BY <2>1, ShowKeeps
<1>2. CASE BodyFails(b) \/ DropBody(b)
  <2>1. /\ UNCHANGED <<nav, current, navId, refetches, edition, lastGood, screen>>
        /\ bodies' = bodies \ {b} /\ lost' = TRUE
    BY <1>2 DEF BodyFails, DropBody, routerVars
  <2>2. BodiesOfDone' /\ CurrentIsLast' /\ RefetchesBelong' /\ ScreenBelongs'
    BY <1>0, <2>1, SameNav, BodiesStay, CurrentSame, RefetchesStay, ScreenStays
  <2>3. TypeOK'
    BY <1>0, <2>1 DEF TypeOK
  <2>4. ShownUnlessLost'
    BY <2>1 DEF ShownUnlessLost
  <2> QED
    BY <2>1, <2>2, <2>3, <2>4, RecentStays
<1> QED
  BY <1>1, <1>2

\* A streamed body ends, breaks or is aborted while its page is on the screen.
LEMMA StreamKeeps ==
  ASSUME PInv, RouterTypeOK', StreamEnds \/ StreamFails \/ StreamAborted
  PROVE  /\ TypeOK' /\ BodiesOfDone' /\ CurrentIsLast' /\ ShownUnlessLost'
         /\ RefetchesBelong' /\ ScreenBelongs' /\ RefetchesKeyed' /\ RefetchesRecent'
<1>0. /\ IInv /\ RouterTypeOK /\ TypeOK /\ Open /\ screen \in Screen
      /\ UNCHANGED <<nav, current, navId, bodies, refetches, lastGood, edition, lost>>
  BY DEF PInv, IInv, TypeOK, StreamEnds, StreamFails, StreamAborted, routerVars
<1>1. PICK page \in {screen.page, FirstPage}, body \in {"whole", "torn"} :
        /\ screen' = [screen EXCEPT !.page = page, !.body = body]
        /\ body = "whole" => page = screen.page
  <2>1. CASE StreamFails
    BY <2>1 DEF StreamFails
  <2>2. CASE StreamEnds \/ StreamAborted
    <3>1. \A body : [screen EXCEPT !.body = body]
                    = [screen EXCEPT !.page = screen.page, !.body = body]
      BY <1>0 DEF Screen
    <3> QED
      BY <2>2, <3>1 DEF StreamEnds, StreamAborted
  <2> QED
    BY <2>1, <2>2
<1>2. /\ screen' \in Screen /\ screen'.id = screen.id /\ screen'.by = screen.by
      /\ screen'.body = body /\ screen'.page = page
  <2>1. FirstPage \in Page
    BY RouterAssumption, ProviderAssumption DEF FirstPage, Page
  <2>2. page \in Page
    BY <1>0, <2>1 DEF Screen
  <2> QED
    BY <1>0, <1>1, <2>2 DEF Screen
<1>3. screen.by = "navigation" /\ Open
  BY <1>0 DEF PInv, ScreenBelongs
<1>4. TypeOK'
  BY <1>0, <1>2 DEF TypeOK
<1>5. BodiesOfDone' /\ CurrentIsLast' /\ RefetchesBelong'
  BY <1>0, SameNav, BodiesStay, CurrentSame, RefetchesStay
<1>6. ShownUnlessLost'
  BY <1>0, <1>2 DEF PInv, ShownUnlessLost, Done
<1>7. ScreenBelongs'
  BY <1>0, <1>1, <1>2 DEF PInv, ScreenBelongs, Belongs, MayLand, Done, Lands, Open
<1>8. RefetchesKeyed' /\ RefetchesRecent'
  BY <1>0, <1>2, <1>3 DEF PInv, RefetchesKeyed, RefetchesRecent
<1> QED
  BY <1>4, <1>5, <1>6, <1>7, <1>8

-----------------------------------------------------------------------------
(* Refetches.                                                              *)

\* A page fetched for the path of the URL is the newest navigation's.
LEMMA UrlBelongs ==
  ASSUME PInv
  PROVE  Url \in Route /\ Belongs(navId, Redirect[Url])
<1>0. IInv /\ RouterTypeOK /\ TypeOK /\ navId = Len(nav) /\ Len(nav) \in Nat
  BY NavType DEF PInv, IInv, TypeOK
<1>1. Url \in Route
  BY <1>0, UrlType DEF Url, RouterTypeOK
<1>2. CASE nav = <<>>
  <2>1. navId = 0 /\ DOMAIN nav = {}
    BY <1>0, <1>2, EmptySeq, NavType
  <2>2. current = Start
    BY <2>1 DEF PInv, CurrentIsLast
  <2>3. Url = Start
    BY <1>0, <1>2, <2>2 DEF IInv, UrlMatchesRoute, Astray
  <2> QED
    BY <1>1, <2>1, <2>3, RouterAssumption DEF Belongs
<1>3. CASE nav # <<>>
  <2>1. navId \in DOMAIN nav /\ navId # 0
    BY <1>0, <1>3, NavType
  <2>2. Lands(navId) \in Route /\ nav[navId].target \in Route
    BY <1>0, <2>1, NavLands
  <2>3. CASE Fetching(navId)
    <3>1. Url = nav[navId].target
      BY <1>0, <1>3, <2>3 DEF IInv, UrlMatchesRoute, Astray, Fetching
    <3> QED
      BY <1>1, <2>1, <3>1 DEF Belongs, Lands
  <2>4. CASE Done(navId)
    <3>1. current = Lands(navId)
      BY <1>0, <2>1, <2>4, NavType DEF PInv, CurrentIsLast
    <3>2. Url = current
      BY <1>0, <1>3, <2>4 DEF IInv, UrlMatchesRoute, Astray, Done, Fetching
    <3>3. Redirect[Lands(navId)] = Lands(navId)
      BY <2>2, RouterAssumption DEF Lands
    <3> QED
      BY <1>1, <2>1, <3>1, <3>2, <3>3 DEF Belongs
  <2>5. CASE ~MayLand(navId)
    BY <1>1, <2>1, <2>5 DEF Belongs
  <2> QED
    BY <2>3, <2>4, <2>5 DEF MayLand, Fetching, Done
<1> QED
  BY <1>2, <1>3

LEMMA RefreshKeeps ==
  ASSUME PInv, RouterTypeOK', Refresh
  PROVE  /\ TypeOK' /\ BodiesOfDone' /\ CurrentIsLast' /\ ShownUnlessLost'
         /\ RefetchesBelong' /\ ScreenBelongs' /\ RefetchesKeyed' /\ RefetchesRecent'
<1> DEFINE new == [id |-> navId, path |-> Url, since |-> edition, answer |-> NoError]
<1>0. IInv /\ RouterTypeOK /\ TypeOK /\ navId = Len(nav) /\ Len(nav) \in Nat
  BY NavType DEF PInv, IInv, TypeOK
<1>1. /\ UNCHANGED <<nav, current, navId, bodies, screen, lastGood, edition, lost>>
      /\ refetches' = refetches \cup {new} /\ ~Joins
  BY DEF Refresh, routerVars
<1>2. Url \in Route /\ Belongs(navId, Redirect[Url])
  BY UrlBelongs
<1>3. /\ new \in Refetch /\ new.id = navId /\ new.path = Url
      /\ new.since = edition /\ new.answer = NoError
  BY <1>0, <1>2, RouterAssumption DEF Refetch, TypeOK, RouterTypeOK
<1> HIDE DEF new
<1>4. TypeOK'
  BY <1>0, <1>1, <1>3 DEF TypeOK
<1>5. BodiesOfDone' /\ CurrentIsLast' /\ ScreenBelongs'
  BY <1>0, <1>1, SameNav, BodiesStay, CurrentSame, ScreenStays
<1>6. ShownUnlessLost'
  BY <1>1 DEF PInv, ShownUnlessLost, Done
<1>7. RefetchesBelong'
  <2> SUFFICES ASSUME NEW f \in refetches'
               PROVE  /\ f.id <= Len(nav)
                      /\ Belongs(f.id, Redirect[f.path])
                      /\ f.answer # NoError => f.answer.route = Redirect[f.path]
    BY <1>1 DEF RefetchesBelong, Belongs, MayLand, Lands
  <2>1. CASE f \in refetches
    BY <2>1 DEF PInv, RefetchesBelong
  <2>2. CASE f = new
    BY <1>0, <1>2, <1>3, <2>2
  <2> QED
    BY <1>1, <2>1, <2>2
<1>8. RefetchesKeyed'
  <2>1. \A f \in refetches : ~(f.id = new.id /\ f.path = new.path)
    BY <1>1, <1>3 DEF Joins
  <2> QED
    BY <1>1, <2>1 DEF PInv, RefetchesKeyed
<1>9. RefetchesRecent'
  <2>1. edition \in Nat
    BY <1>0 DEF TypeOK
  <2> QED
    BY <1>1, <1>3, <2>1 DEF PInv, RefetchesRecent
<1> QED
  BY <1>4, <1>5, <1>6, <1>7, <1>8, <1>9

LEMMA RefetchFacts ==
  ASSUME PInv, NEW f \in refetches
  PROVE  /\ f \in Refetch /\ f.path \in Route /\ f.since \in 0 .. edition
         /\ f.id \in 0 .. MaxNavs /\ f.id <= Len(nav)
         /\ Belongs(f.id, Redirect[f.path])
         /\ f.answer # NoError =>
              /\ f.answer \in Page /\ f.answer.route = Redirect[f.path]
              /\ f.since <= f.answer.edition /\ f.answer.edition <= edition
  BY DEF PInv, TypeOK, Refetch, RefetchesBelong, RefetchesRecent

LEMMA AnsweredKeeps ==
  ASSUME PInv, RouterTypeOK', NEW f \in refetches, RefetchAnswered(f)
  PROVE  /\ TypeOK' /\ BodiesOfDone' /\ CurrentIsLast' /\ ShownUnlessLost'
         /\ RefetchesBelong' /\ ScreenBelongs' /\ RefetchesKeyed' /\ RefetchesRecent'
<1>0. IInv /\ RouterTypeOK /\ TypeOK
  BY DEF PInv, IInv
<1>1. UNCHANGED <<nav, current, navId, bodies, screen, lastGood, edition, lost>>
  BY DEF RefetchAnswered, routerVars
<1>2. PICK page \in Answers(f.path, f.since) :
        refetches' = (refetches \ {f}) \cup
          (IF page = lastGood THEN {} ELSE {[f EXCEPT !.answer = page]})
  BY DEF RefetchAnswered
<1> DEFINE g == [f EXCEPT !.answer = page]
<1>3. /\ page \in Page /\ page.route = Redirect[f.path]
      /\ f.since <= page.edition /\ page.edition <= edition
  BY RefetchFacts, AnswersArePages
<1>4. /\ g \in Refetch /\ g.id = f.id /\ g.path = f.path /\ g.since = f.since
      /\ g.answer = page
  BY <1>3, RefetchFacts DEF Refetch
<1> HIDE DEF g
<1>5. refetches' \subseteq (refetches \ {f}) \cup {g}
  BY <1>2 DEF g
<1>6. TypeOK'
  BY <1>0, <1>1, <1>4, <1>5 DEF TypeOK
<1>7. BodiesOfDone' /\ CurrentIsLast' /\ ScreenBelongs'
  BY <1>0, <1>1, SameNav, BodiesStay, CurrentSame, ScreenStays
<1>8. ShownUnlessLost'
  BY <1>1 DEF PInv, ShownUnlessLost, Done
<1>9. RefetchesBelong'
  <2> SUFFICES ASSUME NEW h \in refetches'
               PROVE  /\ h.id <= Len(nav)
                      /\ Belongs(h.id, Redirect[h.path])
                      /\ h.answer # NoError => h.answer.route = Redirect[h.path]
    BY <1>1 DEF RefetchesBelong, Belongs, MayLand, Lands
  <2>1. CASE h \in refetches
    BY <2>1, RefetchFacts
  <2>2. CASE h = g
    BY <1>3, <1>4, <2>2, RefetchFacts
  <2> QED
    BY <1>5, <2>1, <2>2
<1>10. RefetchesKeyed'
  BY <1>4, <1>5 DEF PInv, RefetchesKeyed
<1>11. RefetchesRecent'
  BY <1>1, <1>3, <1>4, <1>5, RefetchFacts DEF PInv, RefetchesRecent
<1> QED
  BY <1>6, <1>7, <1>8, <1>9, <1>10, <1>11

LEMMA ParsedKeeps ==
  ASSUME PInv, RouterTypeOK', NEW f \in refetches, RefetchParsed(f)
  PROVE  /\ TypeOK' /\ BodiesOfDone' /\ CurrentIsLast' /\ ShownUnlessLost'
         /\ RefetchesBelong' /\ ScreenBelongs' /\ RefetchesKeyed' /\ RefetchesRecent'
<1>0. IInv /\ RouterTypeOK /\ TypeOK /\ navId = Len(nav) /\ Len(nav) \in Nat
  BY NavType DEF PInv, IInv, TypeOK
<1>1. /\ UNCHANGED <<nav, current, navId, bodies, edition, lost>>
      /\ refetches' = refetches \ {f} /\ f.answer # NoError
  BY DEF RefetchParsed, routerVars
<1>2. BodiesOfDone' /\ CurrentIsLast' /\ RefetchesBelong'
  BY <1>0, <1>1, SameNav, BodiesStay, CurrentSame, RefetchesStay
<1>3. CASE navId = f.id
  <2> DEFINE display == Refreshed(f)
  <2>1. screen' = display /\ lastGood' = f.answer
    BY <1>3 DEF RefetchParsed
  <2>2. /\ display \in Screen /\ display.id = f.id /\ display.page = f.answer
        /\ display.by = "refetch" /\ display.path = f.path /\ display.body = "whole"
    BY <1>1, RefetchFacts DEF Screen, Refreshed
  <2> HIDE DEF display
  <2>3. TypeOK'
    BY <1>0, <1>1, <2>1, <2>2, RefetchFacts, ProviderAssumption DEF TypeOK
  <2>4. ShownUnlessLost'
    BY <1>0, <1>1, <1>3, <2>1, <2>2, NavType DEF ShownUnlessLost
  <2>5. ScreenBelongs'
    <3>1. f.id <= Len(nav) /\ Belongs(f.id, f.answer.route)
      BY <1>1, RefetchFacts
    <3> QED
      BY <1>1, <2>1, <2>2, <3>1 DEF ScreenBelongs, Belongs, MayLand, Lands, Open
  <2>6. RefetchesKeyed'
    BY <1>1 DEF PInv, RefetchesKeyed
  <2>7. RefetchesRecent'
    <3>1. ASSUME NEW g \in refetches', g.id = f.id, g.path = f.path
          PROVE  FALSE
      BY <1>1, <3>1 DEF PInv, RefetchesKeyed
    <3>2. f.answer.edition <= edition
      BY <1>1, RefetchFacts
    <3>3. \A g \in refetches' :
            /\ g.since <= edition
            /\ g.answer # NoError => g.since <= g.answer.edition /\ g.answer.edition <= edition
      BY <1>1 DEF PInv, RefetchesRecent
    <3> QED
      BY <1>1, <2>1, <2>2, <3>1, <3>2, <3>3 DEF RefetchesRecent
  <2> QED
    BY <1>2, <2>3, <2>4, <2>5, <2>6, <2>7
<1>4. CASE navId # f.id
  <2>1. UNCHANGED <<screen, lastGood>>
    BY <1>4 DEF RefetchParsed
  <2>2. TypeOK'
    BY <1>0, <1>1, <2>1 DEF TypeOK
  <2>3. ShownUnlessLost'
    BY <1>1, <2>1 DEF PInv, ShownUnlessLost, Done
  <2> QED
    BY <1>0, <1>1, <1>2, <2>1, <2>2, <2>3, SameNav, ScreenStays, RecentStays
<1> QED
  BY <1>3, <1>4

LEMMA FailsKeeps ==
  ASSUME PInv, RouterTypeOK', NEW f \in refetches, RefetchFails(f)
  PROVE  /\ TypeOK' /\ BodiesOfDone' /\ CurrentIsLast' /\ ShownUnlessLost'
         /\ RefetchesBelong' /\ ScreenBelongs' /\ RefetchesKeyed' /\ RefetchesRecent'
<1>0. IInv /\ RouterTypeOK /\ TypeOK
  BY DEF PInv, IInv
<1>1. /\ UNCHANGED <<nav, current, navId, bodies, screen, lastGood, edition, lost>>
      /\ refetches' = refetches \ {f}
  BY DEF RefetchFails, routerVars
<1>2. TypeOK'
  BY <1>0, <1>1 DEF TypeOK
<1>3. ShownUnlessLost'
  BY <1>1 DEF PInv, ShownUnlessLost, Done
<1> QED
  BY <1>0, <1>1, <1>2, <1>3, SameNav, BodiesStay, CurrentSame, RefetchesStay,
     ScreenStays, RecentStays

LEMMA PublishKeeps ==
  ASSUME PInv, RouterTypeOK', Publish
  PROVE  /\ TypeOK' /\ BodiesOfDone' /\ CurrentIsLast' /\ ShownUnlessLost'
         /\ RefetchesBelong' /\ ScreenBelongs' /\ RefetchesKeyed' /\ RefetchesRecent'
<1>0. IInv /\ RouterTypeOK /\ TypeOK
  BY DEF PInv, IInv
<1>1. /\ UNCHANGED <<nav, current, navId, bodies, screen, refetches, lastGood, lost>>
      /\ edition < MaxEditions /\ edition' = edition + 1
  BY DEF Publish, routerVars
<1>2. TypeOK'
  BY <1>0, <1>1, ProviderAssumption DEF TypeOK
<1>3. ShownUnlessLost'
  BY <1>1 DEF PInv, ShownUnlessLost, Done
<1>4. RefetchesKeyed'
  BY <1>1 DEF PInv, RefetchesKeyed
<1>5. RefetchesRecent'
  <2>1. edition \in Nat /\ screen.page.edition \in Nat
    BY <1>0 DEF TypeOK, Screen, Page
  <2>2. \A f \in refetches : /\ f.since \in Nat
                             /\ f.answer # NoError => f.answer.edition \in Nat
    BY <1>0 DEF TypeOK, Refetch, Page
  <2> QED
    BY <1>1, <2>1, <2>2 DEF PInv, RefetchesRecent
<1> QED
  BY <1>0, <1>1, <1>2, <1>3, <1>4, <1>5, SameNav, BodiesStay, CurrentSame,
     RefetchesStay, ScreenStays

-----------------------------------------------------------------------------
(* The invariant of the two together.                                      *)

LEMMA InitPInv ==
  ASSUME Init
  PROVE  PInv
<1>1. /\ IInv /\ RouterTypeOK /\ nav = <<>> /\ DOMAIN nav = {} /\ Len(nav) = 0
      /\ current = Start
  BY InitIInv DEF Init, RouterInit, IInv
<1>2. TypeOK
  <2>1. screen \in Screen
    BY RouterAssumption, ProviderAssumption DEF Init, Screen, Page, FirstPage
  <2>2. lost \in BOOLEAN
    BY DEF Init
  <2>3. /\ navId = Len(nav) /\ bodies = {} /\ refetches = {} /\ lastGood = NoError
        /\ edition \in 0 .. MaxEditions
    BY <1>1, ProviderAssumption DEF Init
  <2> QED
    BY <1>1, <2>1, <2>2, <2>3 DEF TypeOK
<1>3. BodiesOfDone /\ CurrentIsLast /\ ShownUnlessLost
  BY <1>1 DEF Init, BodiesOfDone, CurrentIsLast, ShownUnlessLost
<1>4. RefetchesBelong /\ ScreenBelongs /\ RefetchesKeyed /\ RefetchesRecent
  BY <1>1 DEF Init, FirstPage, Open, RefetchesBelong, ScreenBelongs, Belongs,
              RefetchesKeyed, RefetchesRecent
<1> QED
  BY <1>1, <1>2, <1>3, <1>4 DEF PInv

LEMMA StartKeeps ==
  ASSUME PInv, RouterTypeOK', NavigationStart
  PROVE  /\ TypeOK' /\ BodiesOfDone' /\ CurrentIsLast' /\ ShownUnlessLost'
         /\ RefetchesBelong' /\ ScreenBelongs' /\ RefetchesKeyed' /\ RefetchesRecent'
<1>1. \E r \in Route, state \in {"fetching", "refused"} : Begin(r, state) /\ UNCHANGED current
  <2>1. ASSUME NEW r \in Route, Navigate(r) \/ NavigateReplacing(r) \/ NavigateRefused(r)
        PROVE  /\ Begin(r, "fetching") \/ Begin(r, "refused")
               /\ UNCHANGED current
    BY <2>1 DEF Navigate, NavigateReplacing, NavigateRefused, Push, Depart, Refuse
  <2>2. ASSUME Retry \/ RetryRefused
        PROVE  /\ error.route \in Route
               /\ Begin(error.route, "fetching") \/ Begin(error.route, "refused")
               /\ UNCHANGED current
    <3>1. error.route \in Route
      BY <2>2 DEF PInv, IInv, RouterTypeOK, Retry, RetryRefused, CountRetry, CanRetry
    <3> QED
      BY <2>2, <3>1 DEF Retry, RetryRefused, Push, Depart, Refuse
  <2>3. ASSUME NEW k \in DOMAIN history, Pop(k) \/ PopRefused(k)
        PROVE  /\ history[k] \in Route
               /\ Begin(history[k], "fetching") \/ Begin(history[k], "refused")
               /\ UNCHANGED current
    BY <2>3, UrlType DEF Pop, PopRefused, Depart, Refuse, PInv, IInv
  <2>4. \/ \E r \in Route : Navigate(r) \/ NavigateReplacing(r) \/ NavigateRefused(r)
        \/ Retry \/ RetryRefused
        \/ \E k \in DOMAIN history : Pop(k) \/ PopRefused(k)
    BY DEF NavigationStart
  <2> QED
    BY <2>1, <2>2, <2>3, <2>4
<1>2. PICK r \in Route : \E state \in {"fetching", "refused"} :
              Begin(r, state) /\ UNCHANGED current
  BY <1>1
<1>3. PICK state \in {"fetching", "refused"} : Begin(r, state) /\ UNCHANGED current
  BY <1>2
<1>4. /\ navId' = Len(nav')
      /\ UNCHANGED <<bodies, screen, refetches, lastGood, edition, lost>>
  BY DEF NavigationStart
<1> QED
  BY <1>3, <1>4, BeginKeeps

LEMMA AloneStepKeeps ==
  ASSUME PInv, RouterTypeOK', RouterAlone
  PROVE  /\ TypeOK' /\ BodiesOfDone' /\ CurrentIsLast' /\ ShownUnlessLost'
         /\ RefetchesBelong' /\ ScreenBelongs' /\ RefetchesKeyed' /\ RefetchesRecent'
<1>0. UNCHANGED providerVars
  BY DEF RouterAlone
<1>1. CASE \E i \in DOMAIN nav : Cleanup(i)
  <2>1. PICK i \in DOMAIN nav : Cleanup(i)
    BY <1>1
  <2>2. Fetching(i) /\ nav' = Ended(i, "cancelled") /\ UNCHANGED current
    BY <2>1 DEF Cleanup, Rejecting
  <2> QED
    BY <1>0, <2>2, EndKeeps
<1>2. CASE \E i \in DOMAIN nav, network \in BOOLEAN : Fail(i, network)
  <2>1. PICK i \in DOMAIN nav, network \in BOOLEAN : Fail(i, network)
    BY <1>2
  <2>2. Fetching(i) /\ nav' = Ended(i, "failed") /\ UNCHANGED current
    BY <2>1 DEF Fail, Answerable
  <2> QED
    BY <1>0, <2>2, EndKeeps
<1>3. CASE \E i \in DOMAIN nav, network \in BOOLEAN : FailRefused(i, network)
  <2>1. PICK i \in DOMAIN nav, network \in BOOLEAN : FailRefused(i, network)
    BY <1>3
  <2>2. Fetching(i) /\ nav' = Ended(i, "refused") /\ UNCHANGED current
    BY <2>1 DEF FailRefused, Answerable
  <2> QED
    BY <1>0, <2>2, EndKeeps
<1>4. CASE RetryIgnored \/ Dismiss \/ \E k \in DOMAIN history : PopJoins(k)
  BY <1>0, <1>4, AloneKeeps DEF RetryIgnored, Dismiss, PopJoins
<1> QED
  BY <1>1, <1>2, <1>3, <1>4 DEF RouterAlone

LEMMA NextPInv ==
  ASSUME PInv, Next
  PROVE  PInv'
<1>1. IInv' /\ RouterTypeOK'
  BY NextIsRouters, NextIInv, StutterIInv DEF PInv, IInv
<1>2. CASE NavigationStart
  BY <1>1, <1>2, StartKeeps DEF PInv
<1>3. CASE RouterAlone
  BY <1>1, <1>3, AloneStepKeeps DEF PInv
<1>4. CASE Reads
  <2>1. ASSUME NEW i \in DOMAIN nav, ArriveAndRead(i)
        PROVE  PInv'
    BY <1>1, <2>1, ArriveKeeps DEF PInv
  <2>2. ASSUME NEW b \in bodies,
               ShowBody(b) \/ ShowStream(b) \/ BodyFails(b) \/ DropBody(b)
        PROVE  PInv'
    BY <1>1, <2>2, BodyKeeps DEF PInv
  <2>3. ASSUME StreamEnds \/ StreamFails \/ StreamAborted
        PROVE  PInv'
    BY <1>1, <2>3, StreamKeeps DEF PInv
  <2> QED
    BY <1>4, <2>1, <2>2, <2>3 DEF Reads
<1>5. CASE Refresh \/ Publish
  BY <1>1, <1>5, RefreshKeeps, PublishKeeps DEF PInv
<1>6. CASE Refetching
  <2>1. PICK f \in refetches : RefetchAnswered(f) \/ RefetchParsed(f) \/ RefetchFails(f)
    BY <1>6 DEF Refetching
  <2> QED
    BY <1>1, <2>1, AnsweredKeeps, ParsedKeeps, FailsKeeps DEF PInv
<1> QED
  BY <1>2, <1>3, <1>4, <1>5, <1>6 DEF Next

LEMMA StutterPInv ==
  ASSUME PInv, UNCHANGED vars
  PROVE  PInv'
<1>1. IInv' /\ RouterTypeOK'
  BY StutterIInv DEF PInv, IInv, vars
<1>2. UNCHANGED <<nav, current>> /\ UNCHANGED providerVars
  BY DEF vars, routerVars
<1> QED
  BY <1>1, <1>2, AloneKeeps DEF PInv

LEMMA ProviderInvariant == Spec => []PInv
<1>1. Init => PInv
  BY InitPInv
<1>2. PInv /\ [Next]_vars => PInv'
  BY NextPInv, StutterPInv
<1> QED
  BY <1>1, <1>2, PTL DEF Spec

-----------------------------------------------------------------------------

(***************************************************************************)
(* With the provider listening, the router does what it does alone: every  *)
(* step of the two is a step of the router or leaves it as it is, so what  *)
(* is proved of the router holds of the page.                              *)
(***************************************************************************)
THEOREM NavigationImplementsRouter == Spec => RouterSpec
<1>1. Init => RouterInit
  BY DEF Init
<1>2. [Next]_vars => [RouterNext]_routerVars
  BY NextIsRouters DEF vars
<1> QED
  BY <1>1, <1>2, PTL DEF Spec, RouterSpec

(***************************************************************************)
(* The state of the page keeps its type, and the provider follows the      *)
(* newest navigation, whichever handler has started it.                    *)
(***************************************************************************)
THEOREM NavigationTypeCorrect == Spec => []TypeOK
  BY ProviderInvariant, PTL DEF PInv

(***************************************************************************)
(* Between two tasks no body is read but that of the newest navigation,    *)
(* which is over: a page that was overtaken is not read on, whether the    *)
(* provider awaits it or streams it to the screen.                         *)
(***************************************************************************)
THEOREM OneBodyIsRead == Spec => []OneBodyRead
<1>1. ASSUME PInv
      PROVE  OneBodyRead
  <2>1. ASSUME Idle, NEW b \in bodies
        PROVE  b.id = navId /\ ~Fetching(b.id)
    BY <1>1, <2>1, IdleBody, BodyId DEF Fetching, Done
  <2>2. ASSUME Idle, Open
        PROVE  screen.id = navId /\ ~Fetching(screen.id)
    BY <1>1, <2>2 DEF PInv, TypeOK, ScreenBelongs, Idle, Fetching, Done
  <2> QED
    BY <2>1, <2>2 DEF OneBodyRead
<1> QED
  BY <1>1, ProviderInvariant, PTL

(***************************************************************************)
(* When everything has ended the screen shows the page of the current      *)
(* route, unless the last body was lost, a refetch was made for a          *)
(* navigation that failed then, or a streamed page on the screen lost the  *)
(* rest of its body.                                                       *)
(***************************************************************************)
THEOREM ScreenShowsRoute == Spec => []ScreenMatchesRoute
<1>1. ASSUME PInv, Settled, ~lost, ~Stray, screen.body # "torn"
      PROVE  screen.page.route = current
  <2>0. RouterTypeOK /\ screen \in Screen
    BY <1>1 DEF PInv, IInv, TypeOK
  <2>1. screen.id \in Nat /\ screen.by \in {"navigation", "refetch"} /\ screen.id <= Len(nav)
    BY <1>1, <2>0 DEF Screen, PInv, ScreenBelongs
  <2>2. \A j \in DOMAIN nav : Done(j) => ~(j > screen.id)
    BY <1>1 DEF PInv, ShownUnlessLost, Settled
  <2>3. CASE screen.id = 0
    <3>1. \A j \in DOMAIN nav : ~Done(j)
      BY <2>0, <2>2, <2>3, NavType
    <3> QED
      BY <1>1, <2>3, <3>1 DEF PInv, CurrentIsLast, ScreenBelongs, Belongs
  <2>4. CASE screen.id # 0
    <3>1. screen.id \in DOMAIN nav /\ nav[screen.id] \in Navigation /\ ~Fetching(screen.id)
      BY <1>1, <2>0, <2>1, <2>4, NavType DEF Settled
    <3>2. Done(screen.id)
      BY <1>1, <2>1, <2>4, <3>1
         DEF PInv, ScreenBelongs, Stray, Navigation, Done, Fetching
    <3>3. \A k \in DOMAIN nav : k > screen.id => ~Done(k)
      BY <2>2
    <3>4. current = Lands(screen.id)
      BY <1>1, <3>1, <3>2, <3>3 DEF PInv, CurrentIsLast
    <3>5. screen.page.route = Lands(screen.id)
      BY <1>1, <2>4, <3>2 DEF PInv, ScreenBelongs, Belongs, MayLand, Done
    <3> QED
      BY <3>4, <3>5
  <2> QED
    BY <2>3, <2>4
<1>2. PInv => ScreenMatchesRoute
  BY <1>1 DEF ScreenMatchesRoute
<1> QED
  BY <1>2, ProviderInvariant, PTL

(***************************************************************************)
(* However the answers of refreshes are delayed, a page is never replaced  *)
(* by an older edition of it: refetches of one page do not overlap, and    *)
(* each asks for what is newer than the screen.                            *)
(***************************************************************************)
THEOREM RefreshesAreInOrder == Spec => RefreshesInOrder
<1> DEFINE InOrder ==
      screen.by = "refetch" /\ screen'.by = "refetch"
      /\ screen'.id = screen.id /\ screen'.path = screen.path
        => screen'.page.edition >= screen.page.edition
<1>1. ASSUME PInv, Next
      PROVE  InOrder
  <2>0. screen.page.edition \in Nat
    BY <1>1 DEF PInv, TypeOK, Screen, Page
  <2>1. CASE UNCHANGED screen
    BY <2>0, <2>1
  <2>2. CASE \E b \in bodies : \E body \in {"whole", "open"} : Show(b, body)
    <3>1. PICK b \in bodies, body \in {"whole", "open"} : Show(b, body)
      BY <2>2
    <3>2. CASE b.id = navId
      <4>1. screen'.by = "navigation"
        BY <3>1, <3>2 DEF Show
      <4> QED
        BY <4>1
    <3>3. CASE b.id # navId
      BY <2>0, <3>1, <3>3 DEF Show
    <3> QED
      BY <3>2, <3>3
  <2>5. CASE StreamEnds \/ StreamFails \/ StreamAborted
    BY <1>1, <2>5 DEF StreamEnds, StreamFails, StreamAborted, PInv, ScreenBelongs
  <2>3. CASE \E f \in refetches : RefetchParsed(f)
    <3>1. PICK f \in refetches : RefetchParsed(f)
      BY <2>3
    <3>2. CASE navId = f.id
      <4>1. /\ f.answer # NoError /\ screen'.id = f.id /\ screen'.path = f.path
            /\ screen'.page = f.answer
        BY <3>1, <3>2 DEF RefetchParsed, Refreshed
      <4>2. f.since \in Nat /\ f.answer.edition \in Nat /\ f.since <= f.answer.edition
        BY <1>1, <4>1, RefetchFacts DEF Page, PInv, TypeOK
      <4>3. screen.by = "refetch" /\ f.id = screen.id /\ f.path = screen.path =>
              screen.page.edition <= f.since
        BY <1>1 DEF PInv, RefetchesRecent
      <4> QED
        BY <2>0, <4>1, <4>2, <4>3
    <3>3. CASE navId # f.id
      BY <2>0, <3>1, <3>3 DEF RefetchParsed
    <3> QED
      BY <3>2, <3>3
  <2>4. \/ UNCHANGED screen
        \/ \E b \in bodies : \E body \in {"whole", "open"} : Show(b, body)
        \/ StreamEnds \/ StreamFails \/ StreamAborted
        \/ \E f \in refetches : RefetchParsed(f)
    BY <1>1 DEF Next, NavigationStart, RouterAlone, providerVars, Reads, ArriveAndRead,
                ShowBody, ShowStream, BodyFails, DropBody, Refresh, Refetching,
                RefetchAnswered, RefetchFails, Publish
  <2> QED
    BY <2>1, <2>2, <2>3, <2>4, <2>5
<1>2. PInv /\ [Next]_vars => [InOrder]_vars
  BY <1>1
<1> QED
  BY <1>2, ProviderInvariant, PTL DEF Spec, RefreshesInOrder
=============================================================================
