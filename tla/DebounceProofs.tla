---------------------------- MODULE DebounceProofs ----------------------------
(***************************************************************************)
(* Theorems about Debounce, for all waits and any number of timers and     *)
(* calls.                                                                  *)
(***************************************************************************)
EXTENDS Debounce, TLAPS

\* What is kept was made after the last cancel, and waits with its timer:
\* the two times add up to no more than the longest wait.
KeptWaits ==
  /\ args # None => args > cancelled
  /\ waiting # None <=> args # None
  /\ waiting # None =>
       /\ timers[timeoutId] + waiting <= Cap
       /\ waiting <= sinceInvoke

\* The inductive invariant.
IInv == TypeOK /\ KeptHasTimer /\ KeptIsNew /\ KeptWaits

-----------------------------------------------------------------------------
(* The minimum and the maximum of two numbers.                             *)

LEMMA MinOfTwo ==
  ASSUME NEW a \in Nat, NEW b \in Nat
  PROVE  Min({a, b}) \in {a, b} /\ Min({a, b}) <= a /\ Min({a, b}) <= b
<1>1. \E x \in {a, b} : \A y \in {a, b} : x <= y
  BY a <= b \/ b <= a
<1> QED
  BY <1>1 DEF Min

LEMMA CapType ==
  /\ Cap \in Nat \ {0} /\ Wait <= Cap /\ MaxWait <= Cap
  /\ Wait \in Nat \ {0} /\ MaxWait \in Nat \ {0} /\ None \notin Nat
<1>1. Wait \in Nat \ {0} /\ MaxWait \in Nat \ {0}
  BY DebounceAssumption
<1>2. \E x \in {Wait, MaxWait} : \A y \in {Wait, MaxWait} : x >= y
  BY <1>1, Wait >= MaxWait \/ MaxWait >= Wait
<1>3. Cap \in {Wait, MaxWait} /\ \A y \in {Wait, MaxWait} : Cap >= y
  BY <1>2 DEF Cap, Max
<1> QED
  BY <1>1, <1>3, DebounceAssumption

\* A timer that is set is not one of those that were.
LEMMA Armed ==
  ASSUME NEW T, DOMAIN T \subseteq Ids, NEW left \in 0 .. Wait,
         \A i \in DOMAIN T : T[i] \in 0 .. Wait,
         Arm(T, left)
  PROVE  /\ timeoutId' \in Ids /\ timeoutId' # None
         /\ timeoutId' \in DOMAIN timers' /\ timers'[timeoutId'] = left
         /\ DOMAIN timers' \subseteq Ids
         /\ \A i \in DOMAIN timers' : timers'[i] \in 0 .. Wait
<1>1. PICK new \in Ids \ DOMAIN T :
        /\ timeoutId' = new
        /\ timers' = [i \in DOMAIN T \cup {new} |-> IF i = new THEN left ELSE T[i]]
  BY DEF Arm
<1>2. new # None
  BY DebounceAssumption DEF Ids
<1> QED
  BY <1>1, <1>2

\* The state of the timers but one.
LEMMA WithoutType ==
  ASSUME TypeOK, NEW i
  PROVE  /\ DOMAIN Without(i) = DOMAIN timers \ {i}
         /\ DOMAIN Without(i) \subseteq Ids
         /\ \A j \in DOMAIN Without(i) : Without(i)[j] = timers[j] /\ Without(i)[j] \in 0 .. Wait
  BY DEF Without, TypeOK

LEMMA Overdue ==
  ASSUME TypeOK, NEW t \in 0 .. Cap
  PROVE  OneMore(t) \in 0 .. Cap /\ OneMore(t) >= t /\ (t < Cap => OneMore(t) = t + 1)
  BY MinOfTwo, CapType DEF OneMore

-----------------------------------------------------------------------------
(* Every action keeps the invariant.                                       *)

LEMMA CallStep ==
  ASSUME IInv, Call
  PROVE  IInv'
<1> DEFINE n == calls + 1
<1> USE DEF IInv
<1>1. /\ n \in 1 .. MaxCalls /\ n # None /\ n > invoked /\ n > cancelled
      /\ calls' = n /\ n \in Nat /\ calls \in Nat
      /\ invoked \in Nat /\ cancelled \in Nat /\ sinceInvoke \in Nat
  BY DebounceAssumption DEF Call, TypeOK
<1>2. /\ DOMAIN timers \subseteq Ids /\ \A i \in DOMAIN timers : timers[i] \in 0 .. Wait
      /\ Wait \in 0 .. Wait
  BY CapType DEF TypeOK
<1>3. sinceCall' = 0 /\ UNCHANGED <<leading, trailing, cancelled>>
  BY DEF Call
<1>4. ASSUME Invoke(n), Arm(timers, Wait)
      PROVE  IInv'
  <2>1. invoked' = n /\ args' = None /\ sinceInvoke' = 0 /\ waiting' = None
    BY <1>4 DEF Invoke
  <2>2. TypeOK'
    BY <1>1, <1>2, <1>3, <1>4, <2>1, Armed, CapType DEF TypeOK
  <2> QED
    BY <2>1, <2>2 DEF KeptHasTimer, KeptIsNew, KeptWaits
<1>5. ASSUME Keep(n), waiting = None \/ waiting \in 0 .. Cap,
             timeoutId' # None, timeoutId' \in DOMAIN timers',
             sinceInvoke' \in 0 .. Cap,
             waiting' <= sinceInvoke',
             timers'[timeoutId'] + waiting' <= Cap,
             DOMAIN timers' \subseteq Ids,
             \A i \in DOMAIN timers' : timers'[i] \in 0 .. Wait
      PROVE  IInv'
  <2>1. args' = n /\ invoked' = invoked /\ waiting' # None /\ waiting' \in 0 .. Cap
    BY <1>5, CapType DEF Keep
  <2>2. TypeOK'
    BY <1>1, <1>3, <1>5, <2>1, CapType DEF TypeOK
  <2> QED
    BY <1>1, <1>3, <1>5, <2>1, <2>2 DEF KeptHasTimer, KeptIsNew, KeptWaits
<1>6. CASE LeadingEdge(n) /\ timeoutId = None
  <2>1. waiting = None
    BY <1>6 DEF KeptHasTimer, KeptWaits
  <2>2. CASE leading
    BY <1>4, <1>6, <2>2 DEF LeadingEdge
  <2>3. CASE ~leading
    <3>1. Arm(timers, Wait) /\ Keep(n) /\ sinceInvoke' = 0
      BY <1>6, <2>3 DEF LeadingEdge
    <3>2. waiting' = 0
      BY <2>1, <3>1 DEF Keep
    <3> QED
      BY <1>2, <1>5, <2>1, <3>1, <3>2, Armed, CapType
  <2> QED
    BY <2>2, <2>3
<1>7. CASE Arm(timers, Wait) /\ Invoke(n)
  BY <1>4, <1>7
<1>8. CASE /\ Keep(n) /\ UNCHANGED sinceInvoke
           /\ IF timeoutId = None THEN Arm(timers, Wait)
                                  ELSE UNCHANGED <<timers, timeoutId>>
  <2>1. CASE timeoutId = None
    <3>1. waiting = None /\ waiting' = 0
      BY <1>8, <2>1 DEF KeptHasTimer, KeptWaits, Keep
    <3> QED
      BY <1>1, <1>2, <1>5, <1>8, <2>1, <3>1, Armed, CapType DEF TypeOK
  <2>2. CASE timeoutId # None
    <3>1. timeoutId \in DOMAIN timers /\ timers[timeoutId] \in 0 .. Wait
      BY <1>2, <2>2 DEF TypeOK
    <3>2. CASE waiting = None
      <4>1. waiting' = 0
        BY <1>8, <3>2 DEF Keep
      <4> QED
        BY <1>1, <1>2, <1>5, <1>8, <2>2, <3>1, <3>2, <4>1, CapType DEF TypeOK
    <3>3. CASE waiting # None
      <4>1. waiting' = waiting /\ waiting \in Nat
        BY <1>8, <3>3 DEF Keep, TypeOK
      <4>2. timers[timeoutId] + waiting <= Cap /\ waiting <= sinceInvoke
        BY <3>3 DEF KeptWaits
      <4>3. waiting \in 0 .. Cap
        BY <3>1, <4>1, <4>2, CapType
      <4> QED
        BY <1>1, <1>2, <1>5, <1>8, <2>2, <3>1, <4>1, <4>2, <4>3 DEF TypeOK
    <3> QED
      BY <3>2, <3>3
  <2> QED
    BY <2>1, <2>2
<1> QED
  BY <1>6, <1>7, <1>8 DEF Call

\* trailingEdge, whatever becomes of the timers
LEMMA TrailingStep ==
  ASSUME IInv, TrailingEdge, UNCHANGED <<leading, trailing, sinceCall, calls, cancelled>>,
         DOMAIN timers' \subseteq Ids,
         \A i \in DOMAIN timers' : timers'[i] \in 0 .. Wait
  PROVE  IInv'
<1> USE DEF IInv
<1>1. /\ timeoutId' = None /\ args' = None /\ waiting' = None
      /\ sinceInvoke' \in 0 .. Cap /\ invoked' \in 0 .. calls
  <2>1. 0 \in 0 .. Cap /\ args \in 1 .. calls \cup {None} /\ calls \in Nat
    BY CapType DEF TypeOK
  <2>2. CASE trailing /\ args # None
    BY <2>1, <2>2 DEF TrailingEdge, Invoke
  <2>3. CASE ~(trailing /\ args # None)
    BY <2>3 DEF TrailingEdge, TypeOK
  <2> QED
    BY <2>2, <2>3
<1>2. TypeOK'
  BY <1>1 DEF TypeOK
<1> QED
  BY <1>1, <1>2 DEF KeptHasTimer, KeptIsNew, KeptWaits

LEMMA TimerStep ==
  ASSUME IInv, NEW i, TimerExpired(i)
  PROVE  IInv'
<1> USE DEF IInv
<1>1. CASE ShouldInvoke /\ TrailingEdge /\ timers' = Without(i)
  BY <1>1, WithoutType, TrailingStep DEF TimerExpired
<1>2. CASE /\ ~ShouldInvoke
           /\ Arm(Without(i), Min({Wait - sinceCall, MaxWait - sinceInvoke}))
           /\ UNCHANGED <<args, invoked, sinceInvoke, waiting>>
  <2> DEFINE left == Min({Wait - sinceCall, MaxWait - sinceInvoke})
  <2>1. sinceCall \in Nat /\ sinceInvoke \in Nat /\ sinceCall < Wait /\ sinceInvoke < MaxWait
    BY <1>2, CapType DEF ShouldInvoke, TypeOK
  <2>2. Wait - sinceCall \in 0 .. Wait /\ MaxWait - sinceInvoke \in Nat
    BY <2>1, CapType
  <2>3. left \in 0 .. Wait /\ left <= MaxWait - sinceInvoke
    BY <2>2, MinOfTwo, CapType
  <2> HIDE DEF left
  <2>4. Arm(Without(i), left)
    BY <1>2 DEF left
  <2>5. /\ timeoutId' # None /\ timeoutId' \in DOMAIN timers' /\ timers'[timeoutId'] = left
        /\ DOMAIN timers' \subseteq Ids
        /\ \A j \in DOMAIN timers' : timers'[j] \in 0 .. Wait
    BY <2>3, <2>4, WithoutType, Armed
  <2>6. UNCHANGED <<leading, trailing, sinceCall, calls, cancelled,
                    args, invoked, sinceInvoke, waiting>>
    BY <1>2 DEF TimerExpired
  <2>7. TypeOK'
    BY <2>5, <2>6 DEF TypeOK
  <2>8. waiting # None => left + waiting <= Cap
    BY <2>1, <2>3, CapType DEF KeptWaits, TypeOK
  <2> QED
    BY <2>5, <2>6, <2>7, <2>8 DEF KeptHasTimer, KeptIsNew, KeptWaits
<1> QED
  BY <1>1, <1>2 DEF TimerExpired

LEMMA CancelStep ==
  ASSUME IInv, Cancel
  PROVE  IInv'
<1>1. DOMAIN timers' \subseteq Ids /\ \A i \in DOMAIN timers' : timers'[i] \in 0 .. Wait
  BY WithoutType DEF IInv, Cancel
<1>2. /\ timeoutId' = None /\ args' = None /\ waiting' = None
      /\ sinceCall' = Cap /\ sinceInvoke' = Cap /\ cancelled' = calls
      /\ UNCHANGED <<leading, trailing, calls, invoked>>
  BY DEF Cancel
<1>3. TypeOK'
  <2>1. calls \in 0 .. calls /\ Cap \in 0 .. Cap
    BY CapType DEF IInv, TypeOK
  <2> QED
    BY <1>1, <1>2, <2>1 DEF IInv, TypeOK
<1> QED
  BY <1>2, <1>3 DEF IInv, KeptHasTimer, KeptIsNew, KeptWaits

LEMMA TickStep ==
  ASSUME IInv, Tick
  PROVE  IInv'
<1> USE DEF IInv
<1>1. /\ DOMAIN timers' = DOMAIN timers
      /\ \A i \in DOMAIN timers :
           /\ timers[i] \in 0 .. Wait /\ timers'[i] \in 0 .. Wait
           /\ timers'[i] <= timers[i]
           /\ ~Due(i) => timers'[i] = timers[i] - 1
  BY CapType DEF Tick, Due, TypeOK
<1>2. UNCHANGED <<leading, trailing, timeoutId, args, calls, invoked, cancelled>>
  BY DEF Tick
<1>3. /\ sinceCall' \in 0 .. Cap
      /\ sinceInvoke' \in 0 .. Cap /\ sinceInvoke' >= sinceInvoke
      /\ sinceInvoke < Cap => sinceInvoke' = sinceInvoke + 1
  BY Overdue DEF Tick, TypeOK
<1>4. /\ waiting' # None <=> waiting # None
      /\ waiting # None =>
           /\ waiting' \in 0 .. Cap + 1
           /\ timers'[timeoutId] + waiting' <= Cap
           /\ waiting' <= sinceInvoke'
  <2>1. CASE waiting = None
    BY <2>1 DEF Tick
  <2>2. CASE waiting # None
    <3>1. /\ timeoutId \in DOMAIN timers /\ waiting \in 0 .. Cap + 1
          /\ timers[timeoutId] + waiting <= Cap /\ waiting <= sinceInvoke
          /\ sinceInvoke \in 0 .. Cap /\ Cap \in Nat /\ None \notin Nat
      BY <2>2, CapType DEF TypeOK, KeptHasTimer, KeptWaits
    <3>2. CASE \E i \in DOMAIN timers : Due(i)
      <4>1. waiting' = waiting
        BY <3>2 DEF Tick
      <4> QED
        BY <1>1, <1>3, <2>2, <3>1, <4>1
    <3>3. CASE ~\E i \in DOMAIN timers : Due(i)
      <4>1. waiting' = Min({waiting + 1, Cap + 1})
        BY <2>2, <3>3 DEF Tick
      <4>2. timers'[timeoutId] = timers[timeoutId] - 1 /\ timers[timeoutId] \in Nat
        BY <1>1, <3>1, <3>3
      <4>3. waiting' \in Nat /\ waiting' <= waiting + 1 /\ waiting' <= Cap + 1
        BY <3>1, <4>1, MinOfTwo
      <4>4. waiting' <= sinceInvoke'
        <5>1. timers[timeoutId] - 1 \in 0 .. Wait
          BY <1>1, <3>1, <4>2
        <5>2. waiting + 1 <= Cap
          BY <3>1, <4>2, <5>1, CapType
        <5> QED
          BY <1>3, <3>1, <4>3, <5>2
      <4> QED
        BY <3>1, <4>2, <4>3, <4>4
    <3> QED
      BY <3>2, <3>3
  <2> QED
    BY <2>1, <2>2
<1>5. TypeOK'
  BY <1>1, <1>2, <1>3, <1>4 DEF TypeOK
<1> QED
  BY <1>2, <1>4, <1>5 DEF KeptHasTimer, KeptIsNew, KeptWaits

LEMMA InitIInv ==
  ASSUME Init
  PROVE  IInv
<1>1. TypeOK
  BY CapType, DebounceAssumption DEF Init, TypeOK
<1> QED
  BY <1>1 DEF Init, IInv, KeptHasTimer, KeptIsNew, KeptWaits

LEMMA NextIInv ==
  ASSUME IInv, [Next]_vars
  PROVE  IInv'
<1>1. CASE Flush
  <2>1. DOMAIN timers' \subseteq Ids /\ \A i \in DOMAIN timers' : timers'[i] \in 0 .. Wait
    BY <1>1 DEF Flush, IInv, TypeOK
  <2> QED
    BY <1>1, <2>1, TrailingStep DEF Flush
<1>2. CASE UNCHANGED vars
  BY <1>2 DEF vars, IInv, TypeOK, KeptHasTimer, KeptIsNew, KeptWaits
<1> QED
  BY <1>1, <1>2, CallStep, TimerStep, CancelStep, TickStep DEF Next, Expire

LEMMA DebounceInvariant == Spec => []IInv
  BY InitIInv, NextIInv, PTL DEF Spec

-----------------------------------------------------------------------------

(***************************************************************************)
(* The state of the debouncer keeps its type: the timer it knows of is     *)
(* set, and none is set for longer than wait.                              *)
(***************************************************************************)
THEOREM TypeCorrect == Spec => []TypeOK
  BY DebounceInvariant, PTL DEF IInv

(***************************************************************************)
(* Whatever becomes of the timers that are set twice and never cleared,    *)
(* a call that is kept has one that is known.                              *)
(***************************************************************************)
THEOREM KeptAlwaysHasTimer == Spec => []KeptHasTimer
  BY DebounceInvariant, PTL DEF IInv

(***************************************************************************)
(* No call is given to func twice or after a later one.                    *)
(***************************************************************************)
THEOREM KeptAlwaysNew == Spec => []KeptIsNew
  BY DebounceInvariant, PTL DEF IInv

(***************************************************************************)
(* No call waits longer than wait and maxWait while the timers are on      *)
(* time: what its timer has left and what it has waited add up to less.    *)
(***************************************************************************)
THEOREM WaitIsBounded == Spec => []BoundedWait
<1>1. IInv => BoundedWait
  <2> SUFFICES ASSUME IInv, waiting # None
               PROVE  waiting <= Cap
    BY DEF BoundedWait
  <2>1. timers[timeoutId] \in 0 .. Wait /\ waiting \in Nat
    BY DEF IInv, TypeOK, KeptHasTimer, KeptWaits
  <2> QED
    BY <2>1, CapType DEF IInv, KeptWaits
<1> QED
  BY <1>1, DebounceInvariant, PTL

(***************************************************************************)
(* A timer that outlives a cancel never brings back a call from before it. *)
(***************************************************************************)
THEOREM CancelIsFinal == Spec => CancelledStays
<1>1. ASSUME IInv, Next, invoked' # invoked
      PROVE  invoked' > cancelled
  <2>1. calls \in Nat /\ cancelled \in 0 .. calls
    BY <1>1 DEF IInv, TypeOK
  <2>2. CASE Call
    <3>1. invoked' = calls + 1
      BY <1>1, <2>2 DEF Call, LeadingEdge, Invoke, Keep
    <3> QED
      BY <2>1, <3>1
  <2>3. CASE TrailingEdge
    BY <1>1, <2>3 DEF TrailingEdge, Invoke, IInv, KeptWaits
  <2> QED
    BY <1>1, <2>2, <2>3 DEF Next, Expire, TimerExpired, Cancel, Flush, Tick
<1>2. IInv /\ [Next]_vars => [invoked' # invoked => invoked' > cancelled]_vars
  BY <1>1
<1> QED
  BY <1>2, DebounceInvariant, PTL DEF Spec, CancelledStays
=============================================================================
