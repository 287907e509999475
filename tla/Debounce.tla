------------------------------- MODULE Debounce -------------------------------
(***************************************************************************)
(* The debouncer between the links of a page and the client router:        *)
(* debounce.ts.  Time goes in ticks.  The code compares Date.now() with    *)
(* the times of the last call and the last invocation; what is kept here   *)
(* is how long ago they were, as far as the comparisons tell it apart.  A  *)
(* timer that is due may run late, but not never.  The clock is taken to   *)
(* go forward.                                                             *)
(***************************************************************************)
EXTENDS Naturals, FiniteSets, FiniteSetsExt

CONSTANTS
  Wait,        \* wait
  MaxWait,     \* options.maxWait
  MaxTimers,   \* bound: timers at a time
  MaxCalls,    \* bound: calls of the debounced function
  None

ASSUME DebounceAssumption ==
  /\ Wait \in Nat \ {0} /\ MaxWait \in Nat \ {0}
  /\ MaxTimers \in Nat \ {0} /\ MaxCalls \in Nat
  /\ None \notin Nat

VARIABLES
  leading, trailing,  \* the options
  timers,             \* the timers that are set: how long each has left
  timeoutId,          \* the timer the debouncer knows of
  sinceCall,          \* time - lastCallTime
  sinceInvoke,        \* time - lastInvokeTime
  args,               \* lastArgs: the number of the call they are of
  calls,              \* the calls so far
  invoked,            \* the call whose arguments func got last, 0 for none
  cancelled,          \* the calls made before the last cancel
  waiting             \* how long the first call not answered yet has waited
                      \* while no timer was late

vars == <<leading, trailing, timers, timeoutId, sinceCall, sinceInvoke, args,
          calls, invoked, cancelled, waiting>>

Cap == Max({Wait, MaxWait})
Ids == 1 .. MaxTimers

\* A time of 0 is longer ago than any wait.
Init ==
  /\ leading \in BOOLEAN /\ trailing \in BOOLEAN
  /\ timers = [i \in {} |-> 0]
  /\ timeoutId = None
  /\ sinceCall = Cap
  /\ sinceInvoke = Cap
  /\ args = None
  /\ calls = 0 /\ invoked = 0 /\ cancelled = 0
  /\ waiting = None

Due(i) == timers[i] = 0

\* shouldInvoke
ShouldInvoke ==
  sinceCall >= Wait \/ sinceInvoke >= MaxWait

\* timeoutId = setTimeout(timerExpired, left), beside the timers of T
Arm(T, left) ==
  \E new \in Ids \ DOMAIN T :
    /\ new = CHOOSE i \in Ids \ DOMAIN T : TRUE
    /\ timeoutId' = new
    /\ timers' = [i \in DOMAIN T \cup {new} |->
                    IF i = new THEN left ELSE T[i]]

Without(i) == [j \in DOMAIN timers \ {i} |-> timers[j]]

\* invokeFunc with the arguments of call n
Invoke(n) ==
  /\ invoked' = n
  /\ args' = None
  /\ sinceInvoke' = 0
  /\ waiting' = None

\* The arguments of call n are kept for later.
Keep(n) ==
  /\ args' = n
  /\ waiting' = IF waiting = None THEN 0 ELSE waiting
  /\ UNCHANGED invoked

-----------------------------------------------------------------------------

\* leadingEdge
LeadingEdge(n) ==
  /\ Arm(timers, Wait)
  /\ IF leading THEN Invoke(n) ELSE Keep(n) /\ sinceInvoke' = 0

\* debounced: a timer that is set and not known any more stays set.
Call ==
  /\ calls < MaxCalls
  /\ calls' = calls + 1
  /\ sinceCall' = 0
  /\ \/ ShouldInvoke /\ timeoutId = None /\ LeadingEdge(calls + 1)
     \/ ShouldInvoke /\ timeoutId # None /\ Arm(timers, Wait) /\ Invoke(calls + 1)
     \/ /\ ~ShouldInvoke
        /\ Keep(calls + 1)
        /\ IF timeoutId = None THEN Arm(timers, Wait)
                               ELSE UNCHANGED <<timers, timeoutId>>
        /\ UNCHANGED sinceInvoke
  /\ UNCHANGED <<leading, trailing, cancelled>>

\* trailingEdge
TrailingEdge ==
  /\ timeoutId' = None
  /\ IF trailing /\ args # None
     THEN Invoke(args)
     ELSE args' = None /\ waiting' = None /\ UNCHANGED <<invoked, sinceInvoke>>

\* Mutated: the timer that expires too early is not set again.
TimerExpiredOnce(i) ==
  /\ i \in DOMAIN timers /\ Due(i)
  /\ timers' = Without(i)
  /\ \/ ShouldInvoke /\ TrailingEdge
     \/ ~ShouldInvoke /\ UNCHANGED <<timeoutId, args, invoked, sinceInvoke, waiting>>
  /\ UNCHANGED <<leading, trailing, sinceCall, calls, cancelled>>

\* Mutated: the timer that is set again forgets maxWait.
TimerExpiredAfterWait(i) ==
  /\ i \in DOMAIN timers /\ Due(i)
  /\ \/ ShouldInvoke /\ TrailingEdge /\ timers' = Without(i)
     \/ /\ ~ShouldInvoke
        /\ Arm(Without(i), Wait - sinceCall)
        /\ UNCHANGED <<args, invoked, sinceInvoke, waiting>>
  /\ UNCHANGED <<leading, trailing, sinceCall, calls, cancelled>>

\* timerExpired
TimerExpired(i) ==
  /\ i \in DOMAIN timers /\ Due(i)
  /\ \/ ShouldInvoke /\ TrailingEdge /\ timers' = Without(i)
     \/ /\ ~ShouldInvoke
        /\ Arm(Without(i), Min({Wait - sinceCall, MaxWait - sinceInvoke}))
        /\ UNCHANGED <<args, invoked, sinceInvoke, waiting>>
  /\ UNCHANGED <<leading, trailing, sinceCall, calls, cancelled>>

\* Mutated: the timer is cleared and still known.
CancelKeepingTimer ==
  /\ timers' = Without(timeoutId)
  /\ sinceInvoke' = Cap
  /\ sinceCall' = Cap
  /\ args' = None
  /\ waiting' = None
  /\ cancelled' = calls
  /\ UNCHANGED <<leading, trailing, timeoutId, calls, invoked>>

\* Mutated: the arguments survive the cancel.
CancelKeepingArgs ==
  /\ timers' = Without(timeoutId)
  /\ timeoutId' = None
  /\ sinceInvoke' = Cap
  /\ sinceCall' = Cap
  /\ waiting' = None
  /\ cancelled' = calls
  /\ UNCHANGED <<leading, trailing, args, calls, invoked>>

\* cancel
Cancel ==
  /\ timers' = Without(timeoutId)
  /\ timeoutId' = None
  /\ sinceInvoke' = Cap
  /\ sinceCall' = Cap
  /\ args' = None
  /\ waiting' = None
  /\ cancelled' = calls
  /\ UNCHANGED <<leading, trailing, calls, invoked>>

\* flush: the timer stays set.
Flush ==
  /\ timeoutId # None
  /\ TrailingEdge
  /\ UNCHANGED <<leading, trailing, timers, sinceCall, calls, cancelled>>

OneMore(t) == Min({t + 1, Cap})

Tick ==
  /\ timers' = [i \in DOMAIN timers |-> IF Due(i) THEN 0 ELSE timers[i] - 1]
  /\ sinceCall' = OneMore(sinceCall)
  /\ sinceInvoke' = OneMore(sinceInvoke)
  /\ waiting' = IF \E i \in DOMAIN timers : Due(i) THEN waiting
                ELSE IF waiting = None THEN None ELSE Min({waiting + 1, Cap + 1})
  /\ UNCHANGED <<leading, trailing, timeoutId, args, calls, invoked, cancelled>>

Expire == \E i \in Ids : TimerExpired(i)
Next == Call \/ Expire \/ Cancel \/ Flush \/ Tick

Spec == Init /\ [][Next]_vars

(***************************************************************************)
(* Time passes and the browser runs the timers that are due; nobody has to *)
(* call, cancel or flush.                                                  *)
(***************************************************************************)
FairSpec == Spec /\ WF_vars(Tick) /\ WF_vars(Expire)

-----------------------------------------------------------------------------

TypeOK ==
  /\ leading \in BOOLEAN /\ trailing \in BOOLEAN
  /\ DOMAIN timers \subseteq Ids
  /\ \A i \in DOMAIN timers : timers[i] \in 0 .. Wait
  /\ timeoutId \in DOMAIN timers \cup {None}
  /\ sinceCall \in 0 .. Cap
  /\ sinceInvoke \in 0 .. Cap
  /\ args \in 1 .. calls \cup {None}
  /\ calls \in 0 .. MaxCalls /\ invoked \in 0 .. calls /\ cancelled \in 0 .. calls
  /\ waiting \in 0 .. Cap + 1 \cup {None}

(***************************************************************************)
(* A call that is kept has a timer that will answer it, the one cancel and *)
(* flush know of, though older timers that were never cleared may run in   *)
(* between and take its place.                                             *)
(***************************************************************************)
KeptHasTimer == args # None => timeoutId # None

(***************************************************************************)
(* No click navigates twice: what is kept to be invoked is a call that     *)
(* func did not get yet, nor did it get a later one.                       *)
(***************************************************************************)
KeptIsNew == args # None => args > invoked

(***************************************************************************)
(* What was cancelled stays cancelled, even if a timer set before the      *)
(* cancel is still running and expires after new calls.                    *)
(***************************************************************************)
CancelledStays == [][invoked' # invoked => invoked' > cancelled]_vars

(***************************************************************************)
(* However fast the clicks come, none waits longer than maxWait, or wait,  *)
(* for a navigation, as long as the timers are on time.                    *)
(***************************************************************************)
BoundedWait == waiting # None => waiting <= Cap

(***************************************************************************)
(* The last click is not lost: a call that is kept is answered, by func    *)
(* getting its arguments or those of a later call, or it is cancelled, or  *)
(* the debouncer was told not to invoke on the trailing edge.              *)
(***************************************************************************)
LastCallAnswered ==
  \A n \in 1 .. MaxCalls :
    (args = n) ~> (invoked >= n \/ cancelled >= n \/ ~trailing)
=============================================================================
