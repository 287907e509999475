------------------------ MODULE RenderContextProofs ------------------------
(***************************************************************************)
(* Theorems about RenderContext, for every finite set of requests of each  *)
(* kind, every set of mixes and every bound on the faults.                 *)
(*                                                                         *)
(* The inductive invariant IInv begins with the lists of what the tasks    *)
(* have still to do (TodosInv): each kind of task has finitely many, and a *)
(* list says whether its task is in the mutex, is counted, has to clear    *)
(* the context, to run a script.  Each step takes a list to another list   *)
(* (Kinds), and the other parts follow from what it does to these.         *)
(***************************************************************************)
EXTENDS RenderContext, SequenceTheorems, FiniteSetTheorems, TLAPS

-----------------------------------------------------------------------------
(* What becomes of the list of what a task has to do.                      *)

\* As the task is done with op, or has failed at it, l becomes n.
Moves(op, l, n) ==
  /\ op = "lock" => ~InLock(l) /\ InLock(n)
  /\ op = "unlock" => InLock(l) /\ ~InLock(n)
  /\ op \notin {"lock", "unlock"} => (InLock(n) <=> InLock(l))
  /\ op = "count" => ~Counted(l) /\ Counted(n)
  /\ op \in {"uncount", "undo", "stream"} => Counted(l) /\ ~Counted(n)
  /\ op \notin {"count", "uncount", "undo", "stream"} => (Counted(n) <=> Counted(l))
  /\ op \notin {"set", "clear", "stream"} => (Clears(l) => Clears(n))
  /\ op = "set" => ~Meets(n, {"set"})
  /\ op # "set" => (Meets(n, {"set"}) <=> Meets(l, {"set"}))
  /\ Renders(n) => Renders(l)
  /\ Meets(n, {"start", "set", "count"}) => Meets(l, {"start", "set", "count"})

\* What the first thing to do says of the others.
Heads(l) ==
  /\ Head(l) \in Labels \ {"start", "clearIf", "chunk"}
  /\ Head(l) = "set" => Meets(l, {"set"}) /\ Clears(Tail(l))
  /\ Head(l) = "count" => Meets(l, {"count"})
  /\ Head(l) = "clear" => ~Renders(l)
  /\ Head(l) \in {"render", "fallback", "resolve"} => Renders(l) /\ ~Meets(l, {"set"})
  /\ Head(l) \in {"enable", "undo"} => Counted(l)
  /\ Head(l) = "disable" => ~Counted(l)
  /\ Head(l) = "resolve" => Tail(l) = <<"stream">>
  /\ Head(l) = "stream" => Tail(l) = <<>>
  /\ Head(l) \in {"fallback", "disable", "clear"} =>
       ~Meets(Tail(l), {"start", "set", "count"})

\* What is put before the rest.
Puts(op, n) == Head(n) = op /\ n # <<>>
Leaves(n) == n # <<>> => Head(n) \notin {"enable", "undo", "disable"}

\* A task that sets or clears under the mutex, and what it runs there.
Guards(l) ==
  /\ Head(l) \in {"set", "count", "clear", "disable"} => InLock(l)
  /\ Renders(l) /\ (Meets(l, {"set"}) => Head(l) = "set") => InLock(l)
  /\ Counted(l) => InLock(l)

\* A list with one more thing to do before the others.
LEMMA Prepend ==
  ASSUME NEW S, NEW s \in Seq(S), NEW e
  PROVE  /\ DOMAIN (<<e>> \o s) = 1..(1 + Len(s))
         /\ Len(s) \in Nat
         /\ (<<e>> \o s)[1] = e
         /\ \A i \in 1..Len(s) : (<<e>> \o s)[1 + i] = s[i]
         /\ \E T : <<e>> \o s \in Seq(T)
<1> DEFINE both == {e} \cup S
<1>1. <<e>> \in Seq(both) /\ s \in Seq(both) /\ Len(<<e>>) = 1 /\ <<e>>[1] = e /\ Len(s) \in Nat
  OBVIOUS
<1> HIDE DEF both
<1>2. /\ <<e>> \o s \in Seq(both) /\ Len(<<e>> \o s) = 1 + Len(s)
      /\ \A i \in 1..(1 + Len(s)) : (<<e>> \o s)[i] = IF i <= 1 THEN e ELSE s[i - 1]
  BY <1>1, ConcatProperties
<1>3. \A i \in 1..Len(s) : 1 + i \in 1..(1 + Len(s)) /\ ~(1 + i <= 1) /\ (1 + i) - 1 = i
  BY <1>1
<1>4. 1 \in 1..(1 + Len(s))
  BY <1>1
<1> QED
  BY <1>1, <1>2, <1>3, <1>4

\* A sequence is that list if it has the same elements.
LEMMA PrependIs ==
  ASSUME NEW S, NEW s \in Seq(S), NEW e, NEW T, NEW t \in Seq(T),
         Len(t) = 1 + Len(s), t[1] = e,
         \A i \in 1..Len(s) : t[1 + i] = s[i]
  PROVE  <<e>> \o s = t
<1> DEFINE new == <<e>> \o s
<1>1. /\ DOMAIN new = 1..(1 + Len(s))
      /\ Len(s) \in Nat
      /\ new[1] = e
      /\ \A i \in 1..Len(s) : new[1 + i] = s[i]
      /\ \E U : new \in Seq(U)
  BY Prepend
<1> HIDE DEF new
<1>2. new = [i \in 1..(1 + Len(s)) |-> new[i]] /\ t = [i \in 1..(1 + Len(s)) |-> t[i]]
  BY <1>1
<1>3. \A i \in 1..(1 + Len(s)) : i = 1 \/ (i - 1 \in 1..Len(s) /\ i = 1 + (i - 1))
  BY <1>1
<1>4. \A i \in 1..(1 + Len(s)) : new[i] = t[i]
  BY <1>1, <1>3
<1> QED
  BY <1>2, <1>4 DEF new

\* Lists of each length that are written out.
LEMMA Prepend1 ==
  ASSUME NEW e, NEW a
  PROVE  <<e>> \o <<a>> = <<e, a>>
<1> SUFFICES ASSUME NEW s, s = <<a>>, NEW t, t = <<e, a>>
             PROVE  <<e>> \o s = t
  OBVIOUS
<1>1. s \in Seq({a}) /\ Len(s) = 1 /\ s[1] = a
  OBVIOUS
<1>2. t \in Seq({e, a}) /\ Len(t) = 2 /\ t[1] = e /\ t[2] = a
  OBVIOUS
<1>3. Len(t) = 1 + Len(s) /\ \A i \in 1..Len(s) : t[1 + i] = s[i]
  BY <1>1, <1>2
<1>4. PICK S : s \in Seq(S)
  BY <1>1
<1>5. PICK T : t \in Seq(T)
  BY <1>2
<1>6. t[1] = e
  BY <1>2
<1> QED
  BY ONLY <1>3, <1>4, <1>5, <1>6, PrependIs

LEMMA Prepend2 ==
  ASSUME NEW e, NEW a, NEW b
  PROVE  <<e>> \o <<a, b>> = <<e, a, b>>
<1> SUFFICES ASSUME NEW s, s = <<a, b>>, NEW t, t = <<e, a, b>>
             PROVE  <<e>> \o s = t
  OBVIOUS
<1>1. s \in Seq({a, b}) /\ Len(s) = 2 /\ s[1] = a /\ s[2] = b
  OBVIOUS
<1>2. t \in Seq({e, a, b}) /\ Len(t) = 3 /\ t[1] = e /\ t[2] = a /\ t[3] = b
  OBVIOUS
<1>3. Len(t) = 1 + Len(s) /\ \A i \in 1..Len(s) : t[1 + i] = s[i]
  BY <1>1, <1>2
<1>4. PICK S : s \in Seq(S)
  BY <1>1
<1>5. PICK T : t \in Seq(T)
  BY <1>2
<1>6. t[1] = e
  BY <1>2
<1> QED
  BY ONLY <1>3, <1>4, <1>5, <1>6, PrependIs

LEMMA Prepend4 ==
  ASSUME NEW e, NEW a, NEW b, NEW c, NEW d
  PROVE  <<e>> \o <<a, b, c, d>> = <<e, a, b, c, d>>
<1> SUFFICES ASSUME NEW s, s = <<a, b, c, d>>, NEW t, t = <<e, a, b, c, d>>
             PROVE  <<e>> \o s = t
  OBVIOUS
<1>1. s \in Seq({a, b, c, d}) /\ Len(s) = 4 /\ s[1] = a /\ s[2] = b /\ s[3] = c /\ s[4] = d
  OBVIOUS
<1>2. t \in Seq({e, a, b, c, d}) /\ Len(t) = 5 /\ t[1] = e /\ t[2] = a /\ t[3] = b /\ t[4] = c /\ t[5] = d
  OBVIOUS
<1>3. Len(t) = 1 + Len(s) /\ \A i \in 1..Len(s) : t[1 + i] = s[i]
  BY <1>1, <1>2
<1>4. PICK S : s \in Seq(S)
  BY <1>1
<1>5. PICK T : t \in Seq(T)
  BY <1>2
<1>6. t[1] = e
  BY <1>2
<1> QED
  BY ONLY <1>3, <1>4, <1>5, <1>6, PrependIs

LEMMA Prepend5 ==
  ASSUME NEW e, NEW a, NEW b, NEW c, NEW d, NEW f
  PROVE  <<e>> \o <<a, b, c, d, f>> = <<e, a, b, c, d, f>>
<1> SUFFICES ASSUME NEW s, s = <<a, b, c, d, f>>, NEW t, t = <<e, a, b, c, d, f>>
             PROVE  <<e>> \o s = t
  OBVIOUS
<1>1. s \in Seq({a, b, c, d, f}) /\ Len(s) = 5 /\ s[1] = a /\ s[2] = b /\ s[3] = c /\ s[4] = d /\ s[5] = f
  OBVIOUS
<1>2. t \in Seq({e, a, b, c, d, f}) /\ Len(t) = 6 /\ t[1] = e /\ t[2] = a /\ t[3] = b /\ t[4] = c /\ t[5] = d /\ t[6] = f
  OBVIOUS
<1>3. Len(t) = 1 + Len(s) /\ \A i \in 1..Len(s) : t[1 + i] = s[i]
  BY <1>1, <1>2
<1>4. PICK S : s \in Seq(S)
  BY <1>1
<1>5. PICK T : t \in Seq(T)
  BY <1>2
<1>6. t[1] = e
  BY <1>2
<1> QED
  BY ONLY <1>3, <1>4, <1>5, <1>6, PrependIs

\* For each list of a kind: what is left when its head is done, by cases.
LEMMA StaticList ==
  ASSUME NEW l \in StaticTodos, l \notin {<<>>, <<"start">>}
  PROVE  /\ Tail(l) \in StaticTodos /\ Moves(Head(l), l, Tail(l)) /\ Leaves(Tail(l))
         /\ Heads(l) /\ Guards(l)
         /\ Head(l) \notin {"resolve", "stream", "fallback"}
         /\ Head(l) = "render" => Counted(l)
<1> USE DEF Moves, Heads, Leaves, Guards, InLock, Counted, Clears, Renders, Meets, ToSet,
            StaticTodos, Labels, Messages
<1>1. CASE l = <<"unlock">>
  BY <1>1
<1>2. CASE l = <<"clear", "unlock">>
  BY <1>2
<1>3. CASE l = <<"disable", "clear", "unlock">>
  BY <1>3
<1>4. CASE l = <<"undo", "clear", "unlock">>
  BY <1>4
<1>5. CASE l = <<"uncount", "clear", "unlock">>
  BY <1>5
<1>6. CASE l = <<"render", "uncount", "clear", "unlock">>
  BY <1>6
<1>7. CASE l = <<"inject", "render", "uncount", "clear", "unlock">>
  BY <1>7
<1>8. CASE l = <<"enable", "inject", "render", "uncount", "clear", "unlock">>
  BY <1>8
<1>9. CASE l = <<"count", "inject", "render", "uncount", "clear", "unlock">>
  BY <1>9
<1>10. CASE l = <<"set", "count", "inject", "render", "uncount", "clear", "unlock">>
  BY <1>10
<1>11. CASE l = <<"lock", "set", "count", "inject", "render", "uncount", "clear", "unlock">>
  BY <1>11
<1> QED
  BY <1>1, <1>2, <1>3, <1>4, <1>5, <1>6, <1>7, <1>8, <1>9, <1>10, <1>11

LEMMA StreamedList ==
  ASSUME NEW l \in StreamedTodos, l \notin {<<>>, <<"start">>}
  PROVE  /\ Tail(l) \in StreamedTodos /\ Moves(Head(l), l, Tail(l)) /\ Leaves(Tail(l))
         /\ Heads(l) /\ (Head(l) = "render" => Counted(l))
<1> USE DEF Moves, Heads, Leaves, InLock, Counted, Clears, Renders, Meets, ToSet,
            StreamedTodos, Labels, Messages
<1>1. CASE l = <<"stream">>
  BY <1>1
<1>2. CASE l = <<"resolve", "stream">>
  BY <1>2
<1>3. CASE l = <<"render", "resolve", "stream">>
  BY <1>3
<1>4. CASE l = <<"inject", "render", "resolve", "stream">>
  BY <1>4
<1>5. CASE l = <<"enable", "inject", "render", "resolve", "stream">>
  BY <1>5
<1>6. CASE l = <<"count", "inject", "render", "resolve", "stream">>
  BY <1>6
<1>7. CASE l = <<"set", "count", "inject", "render", "resolve", "stream">>
  BY <1>7
<1>8. CASE l = <<"unlock", "set", "count", "inject", "render", "resolve", "stream">>
  BY <1>8
<1>9. CASE l = <<"lock", "unlock", "set", "count", "inject", "render", "resolve", "stream">>
  BY <1>9
<1>10. CASE l = <<"clear">>
  BY <1>10
<1>11. CASE l = <<"undo", "clear">>
  BY <1>11
<1>12. CASE l = <<"disable", "clear">>
  BY <1>12
<1>13. CASE l = <<"uncount", "clear">>
  BY <1>13
<1>14. CASE l = <<"unlock", "clear">>
  BY <1>14
<1>15. CASE l = <<"fallback", "unlock", "clear">>
  BY <1>15
<1>16. CASE l = <<"lock", "fallback", "unlock", "clear">>
  BY <1>16
<1>17. CASE l = <<"disable", "lock", "fallback", "unlock", "clear">>
  BY <1>17
<1>18. CASE l = <<"uncount", "lock", "fallback", "unlock", "clear">>
  BY <1>18
<1> QED
  BY <1>1, <1>2, <1>3, <1>4, <1>5, <1>6, <1>7, <1>8, <1>9, <1>10, <1>11, <1>12,
     <1>13, <1>14, <1>15, <1>16, <1>17, <1>18

LEMMA ActionList ==
  ASSUME NEW l \in ActionTodos, l \notin {<<>>, <<"start">>}
  PROVE  /\ Tail(l) \in ActionTodos /\ Moves(Head(l), l, Tail(l)) /\ Leaves(Tail(l))
         /\ Heads(l) /\ Guards(l) /\ ~Counted(l)
         /\ Head(l) \notin {"count", "uncount", "undo", "enable", "disable", "inject",
                         "resolve", "stream", "fallback"}
<1> USE DEF Moves, Heads, Leaves, Guards, InLock, Counted, Clears, Renders, Meets, ToSet,
            ActionTodos, Labels, Messages
<1>1. CASE l = <<"unlock">>
  BY <1>1
<1>2. CASE l = <<"clear", "unlock">>
  BY <1>2
<1>3. CASE l = <<"render", "clear", "unlock">>
  BY <1>3
<1>4. CASE l = <<"set", "render", "clear", "unlock">>
  BY <1>4
<1>5. CASE l = <<"lock", "set", "render", "clear", "unlock">>
  BY <1>5
<1> QED
  BY <1>1, <1>2, <1>3, <1>4, <1>5

LEMMA ApiList ==
  ASSUME NEW l \in ApiTodos, l \notin {<<>>, <<"start">>}
  PROVE  /\ Tail(l) \in ApiTodos /\ Moves(Head(l), l, Tail(l)) /\ Leaves(Tail(l))
         /\ Heads(l) /\ ~Counted(l)
         /\ Head(l) \notin {"count", "uncount", "undo", "enable", "disable", "inject",
                         "resolve", "stream", "fallback"}
<1> USE DEF Moves, Heads, Leaves, InLock, Counted, Clears, Renders, Meets, ToSet,
            ApiTodos, Labels, Messages
<1>1. CASE l = <<"clear">>
  BY <1>1
<1>2. CASE l = <<"render", "clear">>
  BY <1>2
<1>3. CASE l = <<"set", "render", "clear">>
  BY <1>3
<1> QED
  BY <1>1, <1>2, <1>3

\* What the count puts before the rest: to enable, or to disable.
LEMMA StaticPuts ==
  ASSUME NEW l \in StaticTodos, l \notin {<<>>, <<"start">>}
  PROVE  /\ Head(l) = "count" =>
              /\ <<"enable">> \o Tail(l) \in StaticTodos
              /\ Moves("count", l, <<"enable">> \o Tail(l))
              /\ Puts("enable", <<"enable">> \o Tail(l))
         /\ Head(l) = "uncount" =>
              /\ <<"disable">> \o Tail(l) \in StaticTodos
              /\ Moves("uncount", l, <<"disable">> \o Tail(l))
              /\ Puts("disable", <<"disable">> \o Tail(l))
<1> DEFINE n == <<"enable", "inject", "render", "uncount", "clear", "unlock">>
           m == <<"disable", "clear", "unlock">>
<1>1. CASE Head(l) = "count"
  <2>1. l = <<"count", "inject", "render", "uncount", "clear", "unlock">>
    BY <1>1 DEF StaticTodos
  <2>2. <<"enable">> \o Tail(l) = n
    <3>1. Tail(l) = <<"inject", "render", "uncount", "clear", "unlock">>
      BY <2>1
    <3>2. <<"enable">> \o <<"inject", "render", "uncount", "clear", "unlock">> = n
      BY Prepend5, Zenon
    <3> QED
      BY <3>1, <3>2, Zenon
  <2>3. n \in StaticTodos /\ Moves("count", l, n) /\ Puts("enable", n)
    BY <2>1 DEF Moves, Puts, InLock, Counted, Clears, Renders, Meets, ToSet,
         StaticTodos
  <2> HIDE DEF n
  <2> QED
    BY <1>1, <2>2, <2>3
<1>2. CASE Head(l) = "uncount"
  <2>1. l = <<"uncount", "clear", "unlock">>
    BY <1>2 DEF StaticTodos
  <2>2. <<"disable">> \o Tail(l) = m
    <3>1. Tail(l) = <<"clear", "unlock">>
      BY <2>1
    <3>2. <<"disable">> \o <<"clear", "unlock">> = m
      BY Prepend2, Zenon
    <3> QED
      BY <3>1, <3>2, Zenon
  <2>3. m \in StaticTodos /\ Moves("uncount", l, m) /\ Puts("disable", m)
    BY <2>1 DEF Moves, Puts, InLock, Counted, Clears, Renders, Meets, ToSet,
         StaticTodos
  <2> HIDE DEF m
  <2> QED
    BY <1>2, <2>2, <2>3
<1> QED
  BY <1>1, <1>2

\* The same for a streamed render.
LEMMA StreamedPuts ==
  ASSUME NEW l \in StreamedTodos, l \notin {<<>>, <<"start">>}
  PROVE  /\ Head(l) = "count" =>
              /\ <<"enable">> \o Tail(l) \in StreamedTodos
              /\ Moves("count", l, <<"enable">> \o Tail(l))
              /\ Puts("enable", <<"enable">> \o Tail(l))
         /\ Head(l) = "uncount" =>
              /\ <<"disable">> \o Tail(l) \in StreamedTodos
              /\ Moves("uncount", l, <<"disable">> \o Tail(l))
              /\ Puts("disable", <<"disable">> \o Tail(l))
<1> DEFINE n == <<"enable", "inject", "render", "resolve", "stream">>
           m == <<"disable", "clear">>
           k == <<"disable", "lock", "fallback", "unlock", "clear">>
<1>1. CASE Head(l) = "count"
  <2>1. l = <<"count", "inject", "render", "resolve", "stream">>
    BY <1>1 DEF StreamedTodos
  <2>2. <<"enable">> \o Tail(l) = n
    <3>1. Tail(l) = <<"inject", "render", "resolve", "stream">>
      BY <2>1
    <3>2. <<"enable">> \o <<"inject", "render", "resolve", "stream">> = n
      BY Prepend4, Zenon
    <3> QED
      BY <3>1, <3>2, Zenon
  <2>3. n \in StreamedTodos /\ Moves("count", l, n) /\ Puts("enable", n)
    BY <2>1 DEF Moves, Puts, InLock, Counted, Clears, Renders, Meets, ToSet,
         StreamedTodos
  <2> HIDE DEF n
  <2> QED
    BY <1>1, <2>2, <2>3
<1>2. CASE l = <<"uncount", "clear">>
  <2>1. <<"disable">> \o Tail(l) = m
    <3>1. Tail(l) = <<"clear">>
      BY <1>2
    <3>2. <<"disable">> \o <<"clear">> = m
      BY Prepend1, Zenon
    <3> QED
      BY <3>1, <3>2, Zenon
  <2>2. m \in StreamedTodos /\ Moves("uncount", l, m) /\ Puts("disable", m)
    BY <1>2 DEF Moves, Puts, InLock, Counted, Clears, Renders, Meets, ToSet,
         StreamedTodos
  <2>3. Head(l) # "count"
    BY <1>2
  <2> HIDE DEF m
  <2> QED
    BY <2>1, <2>2, <2>3
<1>3. CASE l = <<"uncount", "lock", "fallback", "unlock", "clear">>
  <2>1. <<"disable">> \o Tail(l) = k
    <3>1. Tail(l) = <<"lock", "fallback", "unlock", "clear">>
      BY <1>3
    <3>2. <<"disable">> \o <<"lock", "fallback", "unlock", "clear">> = k
      BY Prepend4, Zenon
    <3> QED
      BY <3>1, <3>2, Zenon
  <2>2. k \in StreamedTodos /\ Moves("uncount", l, k) /\ Puts("disable", k)
    BY <1>3 DEF Moves, Puts, InLock, Counted, Clears, Renders, Meets, ToSet,
         StreamedTodos
  <2>3. Head(l) # "count"
    BY <1>3
  <2> HIDE DEF k
  <2> QED
    BY <2>1, <2>2, <2>3
<1>4. Head(l) = "uncount" =>
        l \in {<<"uncount", "clear">>, <<"uncount", "lock", "fallback", "unlock", "clear">>}
  BY DEF StreamedTodos
<1> QED
  BY <1>1, <1>2, <1>3, <1>4

\* What an error leaves to do.
Fails(op, n) ==
  /\ n # <<>> => Head(n) \notin {"enable", "disable"} /\ (Head(n) = "undo" => op = "enable")
  /\ ~Meets(n, {"start", "set", "count"})
  /\ op = "set" => ~Renders(n)

\* A request is of one kind.
LEMMA KindsApart ==
  /\ \A r \in Static : r \in Request /\ r \notin Streamed \cup Action \cup Api
  /\ \A r \in Streamed : r \in Request /\ r \notin Static \cup Action \cup Api
  /\ \A r \in Action : r \in Request /\ r \notin Static \cup Streamed \cup Api
  /\ \A r \in Api : r \in Request /\ r \notin Static \cup Streamed \cup Action
  BY ContextAssumption DEF Request

\* What a task does at its end, after an error.
LEMMA Closes ==
  ASSUME NEW r \in Request
  PROVE  /\ r \in Static \cup Action =>
              Unlock(r) = <<"unlock">> /\ Close(r) = <<"clear", "unlock">>
         /\ r \in Streamed \cup Api => Unlock(r) = <<>> /\ Close(r) = <<"clear">>
<1>1. CASE r \in Static \cup Action
  <2>1. Unlock(r) = <<"unlock">> /\ r \notin Streamed \cup Api
    BY <1>1, KindsApart DEF Unlock, Locks
  <2>2. <<"clear">> \o <<"unlock">> = <<"clear", "unlock">>
    BY Prepend1, Zenon
  <2> QED
    BY <2>1, <2>2 DEF Close
<1>2. CASE r \in Streamed \cup Api
  <2>1. Unlock(r) = <<>> /\ r \notin Static \cup Action
    BY <1>2, KindsApart DEF Unlock, Locks
  <2>2. <<"clear">> \o <<>> = <<"clear">>
    <3>1. <<>> \in Seq(Labels) /\ Len(<<>>) = 0
      OBVIOUS
    <3> QED
      BY <3>1, Prepend
  <2> QED
    BY <2>1, <2>2 DEF Close
<1> QED
  BY <1>1, <1>2 DEF Request

\* What each kind of task goes on to after an error, by cases.
LEMMA StaticError ==
  ASSUME NEW r \in Static, todo[r] \in StaticTodos, todo[r] \notin {<<>>, <<"start">>},
         Head(todo[r]) \in Messages
  PROVE  LET op == Head(todo[r])
             n == AfterError(r, op)
         IN n \in StaticTodos /\ Moves(op, todo[r], n) /\ Fails(op, n)
<1> DEFINE l == todo[r]
           op == Head(l)
<1>a. r \in Request /\ \A K \in {Static, Streamed, Action, Api} : r \in K => K = Static
  BY ContextAssumption DEF Request
<1>1. CASE op = "set"
  <2>1. AfterError(r, "set") = <<"unlock">>
    BY <1>a, Closes, KindsApart, Prepend1, Prepend2 DEF AfterError
  <2>2. l = <<"set", "count", "inject", "render", "uncount", "clear", "unlock">>
    BY <1>1 DEF StaticTodos
  <2>3. <<"unlock">> \in StaticTodos
    BY DEF StaticTodos
  <2>4. Moves("set", l, <<"unlock">>) /\ Fails("set", <<"unlock">>)
    BY <2>2 DEF Moves, Fails, InLock, Counted, Clears, Renders, Meets, ToSet
  <2> QED
    BY <1>1, <2>1, <2>3, <2>4, Zenon
<1>2. CASE op = "enable"
  <2>1. AfterError(r, "enable") = <<"undo", "clear", "unlock">>
    BY <1>a, Closes, KindsApart, Prepend1, Prepend2 DEF AfterError
  <2>2. l = <<"enable", "inject", "render", "uncount", "clear", "unlock">>
    BY <1>2 DEF StaticTodos
  <2>3. <<"undo", "clear", "unlock">> \in StaticTodos
    BY DEF StaticTodos
  <2>4. Moves("enable", l, <<"undo", "clear", "unlock">>) /\ Fails("enable", <<"undo", "clear", "unlock">>)
    BY <2>2 DEF Moves, Fails, InLock, Counted, Clears, Renders, Meets, ToSet
  <2> QED
    BY <1>2, <2>1, <2>3, <2>4, Zenon
<1>3. CASE op = "inject"
  <2>1. AfterError(r, "inject") = <<"uncount", "clear", "unlock">>
    BY <1>a, Closes, KindsApart, Prepend1, Prepend2 DEF AfterError
  <2>2. l = <<"inject", "render", "uncount", "clear", "unlock">>
    BY <1>3 DEF StaticTodos
  <2>3. <<"uncount", "clear", "unlock">> \in StaticTodos
    BY DEF StaticTodos
  <2>4. Moves("inject", l, <<"uncount", "clear", "unlock">>) /\ Fails("inject", <<"uncount", "clear", "unlock">>)
    BY <2>2 DEF Moves, Fails, InLock, Counted, Clears, Renders, Meets, ToSet
  <2> QED
    BY <1>3, <2>1, <2>3, <2>4, Zenon
<1>4. CASE op = "render"
  <2>1. AfterError(r, "render") = <<"uncount", "clear", "unlock">>
    BY <1>a, Closes, KindsApart, Prepend1, Prepend2 DEF AfterError
  <2>2. l = <<"render", "uncount", "clear", "unlock">>
    BY <1>4 DEF StaticTodos
  <2>3. <<"uncount", "clear", "unlock">> \in StaticTodos
    BY DEF StaticTodos
  <2>4. Moves("render", l, <<"uncount", "clear", "unlock">>) /\ Fails("render", <<"uncount", "clear", "unlock">>)
    BY <2>2 DEF Moves, Fails, InLock, Counted, Clears, Renders, Meets, ToSet
  <2> QED
    BY <1>4, <2>1, <2>3, <2>4, Zenon
<1>5. CASE op \notin {"set", "enable", "inject", "render"}
  <2>1. AfterError(r, op) = Tail(l)
    BY <1>5, <1>a, KindsApart, StaticList DEF AfterError
  <2>2. Tail(l) \in StaticTodos /\ Moves(op, l, Tail(l)) /\ Leaves(Tail(l))
    BY StaticList
  <2>3. Fails(op, Tail(l))
    BY <1>5, <2>2, StaticList DEF Leaves, Fails, Heads, Messages
  <2> QED
    BY <2>1, <2>2, <2>3, Zenon
<1> QED
  BY <1>1, <1>2, <1>3, <1>4, <1>5

LEMMA StreamedError ==
  ASSUME NEW r \in Streamed, todo[r] \in StreamedTodos, todo[r] \notin {<<>>, <<"start">>},
         Head(todo[r]) \in Messages
  PROVE  LET op == Head(todo[r])
             n == AfterError(r, op)
         IN n \in StreamedTodos /\ Moves(op, todo[r], n) /\ Fails(op, n)
<1> DEFINE l == todo[r]
           op == Head(l)
<1>a. r \in Request /\ \A K \in {Static, Streamed, Action, Api} : r \in K => K = Streamed
  BY ContextAssumption DEF Request
<1>1. CASE op = "set"
  <2>1. AfterError(r, "set") = <<"clear">>
    BY <1>a, Closes, KindsApart, Prepend1, Prepend2 DEF AfterError
  <2>2. l = <<"set", "count", "inject", "render", "resolve", "stream">>
    BY <1>1 DEF StreamedTodos
  <2>3. <<"clear">> \in StreamedTodos
    BY DEF StreamedTodos
  <2>4. Moves("set", l, <<"clear">>) /\ Fails("set", <<"clear">>)
    BY <2>2 DEF Moves, Fails, InLock, Counted, Clears, Renders, Meets, ToSet
  <2> QED
    BY <1>1, <2>1, <2>3, <2>4, Zenon
<1>2. CASE op = "enable"
  <2>1. AfterError(r, "enable") = <<"undo", "clear">>
    BY <1>a, Closes, KindsApart, Prepend1, Prepend2 DEF AfterError
  <2>2. l = <<"enable", "inject", "render", "resolve", "stream">>
    BY <1>2 DEF StreamedTodos
  <2>3. <<"undo", "clear">> \in StreamedTodos
    BY DEF StreamedTodos
  <2>4. Moves("enable", l, <<"undo", "clear">>) /\ Fails("enable", <<"undo", "clear">>)
    BY <2>2 DEF Moves, Fails, InLock, Counted, Clears, Renders, Meets, ToSet
  <2> QED
    BY <1>2, <2>1, <2>3, <2>4, Zenon
<1>3. CASE op = "inject"
  <2>1. AfterError(r, "inject") = <<"uncount", "clear">>
    BY <1>a, Closes, KindsApart, Prepend1, Prepend2 DEF AfterError
  <2>2. l = <<"inject", "render", "resolve", "stream">>
    BY <1>3 DEF StreamedTodos
  <2>3. <<"uncount", "clear">> \in StreamedTodos
    BY DEF StreamedTodos
  <2>4. Moves("inject", l, <<"uncount", "clear">>) /\ Fails("inject", <<"uncount", "clear">>)
    BY <2>2 DEF Moves, Fails, InLock, Counted, Clears, Renders, Meets, ToSet
  <2> QED
    BY <1>3, <2>1, <2>3, <2>4, Zenon
<1>4. CASE op = "render"
  <2>1. AfterError(r, "render") = <<"uncount", "lock", "fallback", "unlock", "clear">>
    BY <1>a, Closes, KindsApart, Prepend1, Prepend2 DEF AfterError
  <2>2. l = <<"render", "resolve", "stream">>
    BY <1>4 DEF StreamedTodos
  <2>3. <<"uncount", "lock", "fallback", "unlock", "clear">> \in StreamedTodos
    BY DEF StreamedTodos
  <2>4. Moves("render", l, <<"uncount", "lock", "fallback", "unlock", "clear">>) /\ Fails("render", <<"uncount", "lock", "fallback", "unlock", "clear">>)
    BY <2>2 DEF Moves, Fails, InLock, Counted, Clears, Renders, Meets, ToSet
  <2> QED
    BY <1>4, <2>1, <2>3, <2>4, Zenon
<1>5. CASE op \notin {"set", "enable", "inject", "render"}
  <2>1. AfterError(r, op) = Tail(l)
    BY <1>5, <1>a, KindsApart, StreamedList DEF AfterError
  <2>2. Tail(l) \in StreamedTodos /\ Moves(op, l, Tail(l)) /\ Leaves(Tail(l))
    BY StreamedList
  <2>3. Fails(op, Tail(l))
    BY <1>5, <2>2, StreamedList DEF Leaves, Fails, Heads, Messages
  <2> QED
    BY <2>1, <2>2, <2>3, Zenon
<1> QED
  BY <1>1, <1>2, <1>3, <1>4, <1>5

LEMMA ActionError ==
  ASSUME NEW r \in Action, todo[r] \in ActionTodos, todo[r] \notin {<<>>, <<"start">>},
         Head(todo[r]) \in Messages
  PROVE  LET op == Head(todo[r])
             n == AfterError(r, op)
         IN n \in ActionTodos /\ Moves(op, todo[r], n) /\ Fails(op, n)
<1> DEFINE l == todo[r]
           op == Head(l)
<1>a. r \in Request /\ \A K \in {Static, Streamed, Action, Api} : r \in K => K = Action
  BY ContextAssumption DEF Request
<1>1. CASE op = "set"
  <2>1. AfterError(r, "set") = <<"unlock">>
    BY <1>a, Closes, KindsApart, Prepend1, Prepend2 DEF AfterError
  <2>2. l = <<"set", "render", "clear", "unlock">>
    BY <1>1 DEF ActionTodos
  <2>3. <<"unlock">> \in ActionTodos
    BY DEF ActionTodos
  <2>4. Moves("set", l, <<"unlock">>) /\ Fails("set", <<"unlock">>)
    BY <2>2 DEF Moves, Fails, InLock, Counted, Clears, Renders, Meets, ToSet
  <2> QED
    BY <1>1, <2>1, <2>3, <2>4, Zenon
<1>2. CASE op = "render"
  <2>1. AfterError(r, "render") = <<"clear", "unlock">>
    BY <1>a, Closes, KindsApart, Prepend1, Prepend2 DEF AfterError
  <2>2. l = <<"render", "clear", "unlock">>
    BY <1>2 DEF ActionTodos
  <2>3. <<"clear", "unlock">> \in ActionTodos
    BY DEF ActionTodos
  <2>4. Moves("render", l, <<"clear", "unlock">>) /\ Fails("render", <<"clear", "unlock">>)
    BY <2>2 DEF Moves, Fails, InLock, Counted, Clears, Renders, Meets, ToSet
  <2> QED
    BY <1>2, <2>1, <2>3, <2>4, Zenon
<1>3. CASE op \notin {"set", "render"}
  <2>1. AfterError(r, op) = Tail(l)
    BY <1>3, <1>a, KindsApart, ActionList DEF AfterError
  <2>2. Tail(l) \in ActionTodos /\ Moves(op, l, Tail(l)) /\ Leaves(Tail(l))
    BY ActionList
  <2>3. Fails(op, Tail(l))
    BY <1>3, <2>2, ActionList DEF Leaves, Fails, Heads, Messages
  <2> QED
    BY <2>1, <2>2, <2>3, Zenon
<1> QED
  BY <1>1, <1>2, <1>3

LEMMA ApiError ==
  ASSUME NEW r \in Api, todo[r] \in ApiTodos, todo[r] \notin {<<>>, <<"start">>},
         Head(todo[r]) \in Messages
  PROVE  LET op == Head(todo[r])
             n == AfterError(r, op)
         IN n \in ApiTodos /\ Moves(op, todo[r], n) /\ Fails(op, n)
<1> DEFINE l == todo[r]
           op == Head(l)
<1>a. r \in Request /\ \A K \in {Static, Streamed, Action, Api} : r \in K => K = Api
  BY ContextAssumption DEF Request
<1>1. CASE op = "set"
  <2>1. AfterError(r, "set") = <<>>
    BY <1>a, Closes, KindsApart, Prepend1, Prepend2 DEF AfterError
  <2>2. l = <<"set", "render", "clear">>
    BY <1>1 DEF ApiTodos
  <2>3. <<>> \in ApiTodos
    BY DEF ApiTodos
  <2>4. Moves("set", l, <<>>) /\ Fails("set", <<>>)
    BY <2>2 DEF Moves, Fails, InLock, Counted, Clears, Renders, Meets, ToSet
  <2> QED
    BY <1>1, <2>1, <2>3, <2>4, Zenon
<1>2. CASE op = "render"
  <2>1. AfterError(r, "render") = <<"clear">>
    BY <1>a, Closes, KindsApart, Prepend1, Prepend2 DEF AfterError
  <2>2. l = <<"render", "clear">>
    BY <1>2 DEF ApiTodos
  <2>3. <<"clear">> \in ApiTodos
    BY DEF ApiTodos
  <2>4. Moves("render", l, <<"clear">>) /\ Fails("render", <<"clear">>)
    BY <2>2 DEF Moves, Fails, InLock, Counted, Clears, Renders, Meets, ToSet
  <2> QED
    BY <1>2, <2>1, <2>3, <2>4, Zenon
<1>3. CASE op \notin {"set", "render"}
  <2>1. AfterError(r, op) = Tail(l)
    BY <1>3, <1>a, KindsApart, ApiList DEF AfterError
  <2>2. Tail(l) \in ApiTodos /\ Moves(op, l, Tail(l)) /\ Leaves(Tail(l))
    BY ApiList
  <2>3. Fails(op, Tail(l))
    BY <1>3, <2>2, ApiList DEF Leaves, Fails, Heads, Messages
  <2> QED
    BY <2>1, <2>2, <2>3, Zenon
<1> QED
  BY <1>1, <1>2, <1>3

-----------------------------------------------------------------------------
(* The lists of any task.                                                  *)

\* The lists that a task can have, by its kind.
LEMMA TodosKind ==
  ASSUME NEW r \in Request
  PROVE  /\ r \in Static => TodosOf(r) = StaticTodos
         /\ r \in Streamed => TodosOf(r) = StreamedTodos
         /\ r \in Action => TodosOf(r) = ActionTodos
         /\ r \in Api => TodosOf(r) = ApiTodos
  BY KindsApart DEF TodosOf

\* What a task has to do once its head is done, and what the head says.
LEMMA ListOf ==
  ASSUME TodosInv, NEW r \in Request, todo[r] \notin {<<>>, <<"start">>}
  PROVE  LET l == todo[r]
             op == Head(l)
         IN /\ Tail(l) \in TodosOf(r) /\ Moves(op, l, Tail(l)) /\ Leaves(Tail(l))
            /\ Heads(l)
            /\ Locks(r) => Guards(l)
            /\ r \in Render /\ op = "render" => Counted(l)
            /\ r \notin Render => /\ ~Counted(l)
                                  /\ op \notin {"count", "uncount", "undo", "enable", "disable", "inject",
                                                 "fallback"}
            /\ r \notin Streamed => op \notin {"resolve", "stream"}
<1>1. todo[r] \in TodosOf(r)
  BY DEF TodosInv
<1>2. CASE r \in Static
  <2>1. r \in Render /\ r \notin Streamed
    BY <1>2, KindsApart DEF Render
  <2>2. todo[r] \in StaticTodos
    BY <1>1, <1>2, TodosKind
  <2>3. Head(todo[r]) \notin {"resolve", "stream"}
    BY <2>2, StaticList
  <2> QED
    BY <1>2, <2>1, <2>2, <2>3, TodosKind, StaticList
<1>3. CASE r \in Streamed
  <2>1. r \in Render /\ ~Locks(r)
    BY <1>3, KindsApart DEF Render, Locks
  <2>2. todo[r] \in StreamedTodos
    BY <1>1, <1>3, TodosKind
  <2> QED
    BY <1>3, <2>1, <2>2, TodosKind, StreamedList
<1>4. CASE r \in Action
  <2>1. r \notin Static \cup Streamed
    BY <1>4, KindsApart
  <2>2. todo[r] \in ActionTodos
    BY <1>1, <1>4, TodosKind
  <2>3. Head(todo[r]) \notin {"count", "uncount", "undo", "enable", "disable", "inject", "resolve",
                             "stream", "fallback"}
    BY <2>2, ActionList
  <2>4. /\ Head(todo[r]) \notin {"count", "uncount", "undo", "enable", "disable", "inject", "fallback"}
        /\ Head(todo[r]) \notin {"resolve", "stream"}
    BY <2>3
  <2> QED
    BY <1>4, <2>1, <2>2, <2>4, TodosKind, ActionList, Zenon DEF Locks, Render
<1>5. CASE r \in Api
  <2>1. r \notin Static \cup Streamed \cup Action
    BY <1>5, KindsApart
  <2>2. todo[r] \in ApiTodos
    BY <1>1, <1>5, TodosKind
  <2>3. Head(todo[r]) \notin {"count", "uncount", "undo", "enable", "disable", "inject", "resolve",
                             "stream", "fallback"}
    BY <2>2, ApiList
  <2>4. /\ Head(todo[r]) \notin {"count", "uncount", "undo", "enable", "disable", "inject", "fallback"}
        /\ Head(todo[r]) \notin {"resolve", "stream"}
    BY <2>3
  <2> QED
    BY <1>5, <2>1, <2>2, <2>4, TodosKind, ApiList, Zenon DEF Locks, Render
<1> QED
  BY <1>2, <1>3, <1>4, <1>5 DEF Request

\* What the count puts before the rest.
LEMMA PutsOf ==
  ASSUME TodosInv, NEW r \in Request, todo[r] \notin {<<>>, <<"start">>}
  PROVE  LET l == todo[r] IN
         /\ Head(l) = "count" =>
              /\ <<"enable">> \o Tail(l) \in TodosOf(r)
              /\ Moves("count", l, <<"enable">> \o Tail(l))
              /\ Puts("enable", <<"enable">> \o Tail(l))
         /\ Head(l) = "uncount" =>
              /\ <<"disable">> \o Tail(l) \in TodosOf(r)
              /\ Moves("uncount", l, <<"disable">> \o Tail(l))
              /\ Puts("disable", <<"disable">> \o Tail(l))
<1>1. todo[r] \in TodosOf(r)
  BY DEF TodosInv
<1>2. CASE r \in Static
  <2>1. todo[r] \in StaticTodos
    BY <1>1, <1>2, TodosKind
  <2> QED
    BY <1>2, <2>1, TodosKind, StaticPuts
<1>3. CASE r \in Streamed
  <2>1. todo[r] \in StreamedTodos
    BY <1>1, <1>3, TodosKind
  <2> QED
    BY <1>3, <2>1, TodosKind, StreamedPuts
<1>4. CASE r \notin Render
  BY <1>4, ListOf
<1> QED
  BY <1>2, <1>3, <1>4 DEF Render

\* What a task goes on to after an error.
LEMMA ErrorOf ==
  ASSUME TodosInv, NEW r \in Request, todo[r] \notin {<<>>, <<"start">>},
         Head(todo[r]) \in Messages
  PROVE  LET op == Head(todo[r])
             n == AfterError(r, op)
         IN n \in TodosOf(r) /\ Moves(op, todo[r], n) /\ Fails(op, n)
<1>1. todo[r] \in TodosOf(r)
  BY DEF TodosInv
<1>2. CASE r \in Static
  BY <1>1, <1>2, TodosKind, StaticError, Zenon
<1>3. CASE r \in Streamed
  BY <1>1, <1>3, TodosKind, StreamedError, Zenon
<1>4. CASE r \in Action
  BY <1>1, <1>4, TodosKind, ActionError, Zenon
<1>5. CASE r \in Api
  BY <1>1, <1>5, TodosKind, ApiError, Zenon
<1> QED
  BY <1>2, <1>3, <1>4, <1>5 DEF Request

\* A task that is over, or has yet to start, has done nothing.
Rests(l) == ~InLock(l) /\ ~Counted(l) /\ ~Clears(l) /\ ~Renders(l)

\* The lists of tasks that are over, have yet to start or hold a stream.
LEMMA RestsOf ==
  /\ Rests(<<>>) /\ ~Meets(<<>>, {"start", "set", "count"}) /\ ~Meets(<<>>, {"set"})
  /\ Rests(<<"start">>) /\ Meets(<<"start">>, {"start", "set", "count"})
  /\ <<"start">> # <<>> /\ Head(<<"start">>) = "start"
  /\ <<"stream">> \notin {<<>>, <<"start">>} /\ Head(<<"stream">>) = "stream"
  /\ ~Meets(<<"stream">>, {"set"}) /\ ~Renders(<<"stream">>)
<1> USE DEF Rests, InLock, Counted, Clears, Renders, Meets, ToSet
<1>1. Rests(<<>>) /\ ~Meets(<<>>, {"start", "set", "count"}) /\ ~Meets(<<>>, {"set"})
  OBVIOUS
<1>2. Rests(<<"start">>) /\ Meets(<<"start">>, {"start", "set", "count"})
  OBVIOUS
<1>3. <<"start">> # <<>> /\ Head(<<"start">>) = "start"
  OBVIOUS
<1>4. <<"stream">> \notin {<<>>, <<"start">>} /\ Head(<<"stream">>) = "stream"
  OBVIOUS
<1>5. ~Meets(<<"stream">>, {"set"}) /\ ~Renders(<<"stream">>)
  OBVIOUS
<1> QED
  BY <1>1, <1>2, <1>3, <1>4, <1>5, Zenon

\* The list of a task that starts.
LEMMA PlanOf ==
  ASSUME NEW r \in Request
  PROVE  /\ Plan(r) \in TodosOf(r) /\ Plan(r) \notin {<<>>, <<"start">>}
         /\ Head(Plan(r)) \in {"lock", "set"}
         /\ ~InLock(Plan(r)) /\ ~Counted(Plan(r)) /\ Meets(Plan(r), {"set"})
<1>1. CASE r \in Static
  <2> DEFINE l == <<"lock", "set", "count", "inject", "render", "uncount", "clear", "unlock">>
  <2>1. Plan(r) = l
    BY <1>1, KindsApart DEF Plan
  <2>2. /\ l \in StaticTodos /\ l \notin {<<>>, <<"start">>} /\ Head(l) \in {"lock", "set"}
        /\ ~InLock(l) /\ ~Counted(l) /\ Meets(l, {"set"})
    BY DEF StaticTodos, InLock, Counted, Meets, ToSet
  <2> HIDE DEF l
  <2> QED
    BY <1>1, <2>1, <2>2, TodosKind
<1>2. CASE r \in Streamed
  <2> DEFINE l == <<"lock", "unlock", "set", "count", "inject", "render", "resolve", "stream">>
  <2>1. Plan(r) = l
    BY <1>2, KindsApart DEF Plan
  <2>2. /\ l \in StreamedTodos /\ l \notin {<<>>, <<"start">>} /\ Head(l) \in {"lock", "set"}
        /\ ~InLock(l) /\ ~Counted(l) /\ Meets(l, {"set"})
    BY DEF StreamedTodos, InLock, Counted, Meets, ToSet
  <2> HIDE DEF l
  <2> QED
    BY <1>2, <2>1, <2>2, TodosKind
<1>3. CASE r \in Action
  <2> DEFINE l == <<"lock", "set", "render", "clear", "unlock">>
  <2>1. Plan(r) = l
    BY <1>3, KindsApart DEF Plan
  <2>2. /\ l \in ActionTodos /\ l \notin {<<>>, <<"start">>} /\ Head(l) \in {"lock", "set"}
        /\ ~InLock(l) /\ ~Counted(l) /\ Meets(l, {"set"})
    BY DEF ActionTodos, InLock, Counted, Meets, ToSet
  <2> HIDE DEF l
  <2> QED
    BY <1>3, <2>1, <2>2, TodosKind
<1>4. CASE r \in Api
  <2> DEFINE l == <<"set", "render", "clear">>
  <2>1. Plan(r) = l
    BY <1>4, KindsApart DEF Plan
  <2>2. /\ l \in ApiTodos /\ l \notin {<<>>, <<"start">>} /\ Head(l) \in {"lock", "set"}
        /\ ~InLock(l) /\ ~Counted(l) /\ Meets(l, {"set"})
    BY DEF ApiTodos, InLock, Counted, Meets, ToSet
  <2> HIDE DEF l
  <2> QED
    BY <1>4, <2>1, <2>2, TodosKind
<1> QED
  BY <1>1, <1>2, <1>3, <1>4 DEF Request

\* The lists are sequences, of at least one thing if they are not empty.
LEMMA TodosAreLists ==
  ASSUME NEW r \in Request
  PROVE  TodosOf(r) \subseteq Seq(Labels) /\ <<>> \in TodosOf(r) /\ <<"start">> \in TodosOf(r)
<1> USE DEF Labels, Messages
<1>1. StaticTodos \subseteq Seq(Labels) /\ <<>> \in StaticTodos /\ <<"start">> \in StaticTodos
  BY DEF StaticTodos
<1>2. StreamedTodos \subseteq Seq(Labels) /\ <<>> \in StreamedTodos /\ <<"start">> \in StreamedTodos
  BY DEF StreamedTodos
<1>3. ActionTodos \subseteq Seq(Labels) /\ <<>> \in ActionTodos /\ <<"start">> \in ActionTodos
  BY DEF ActionTodos
<1>4. ApiTodos \subseteq Seq(Labels) /\ <<>> \in ApiTodos /\ <<"start">> \in ApiTodos
  BY DEF ApiTodos
<1> HIDE DEF Labels, Messages
<1> QED
  BY <1>1, <1>2, <1>3, <1>4, TodosKind DEF Request

-----------------------------------------------------------------------------
(* What a step does to the list of its task.                               *)

\* The task r is done with op, and n is left.
Works(r, op, n) ==
  /\ todo[r] # <<>> /\ todo[r] # <<"start">> /\ Head(todo[r]) = op
  /\ n \in TodosOf(r) /\ Moves(op, todo[r], n)
  /\ todo' = [todo EXCEPT ![r] = n]

\* The other lists stay.
LEMMA WorksIs ==
  ASSUME TypeOK, NEW r \in Request, NEW op, NEW n, Works(r, op, n)
  PROVE  todo'[r] = n /\ \A q \in Request : q # r => todo'[q] = todo[q]
  BY DEF Works, TypeOK

\* Who is at anything but the start has begun.
LEMMA AtIs ==
  ASSUME NEW r \in Request, NEW op, At(r, op), op # "start"
  PROVE  todo[r] # <<>> /\ todo[r] # <<"start">> /\ Head(todo[r]) = op
  BY RestsOf DEF At

\* Who awaits an answer has begun.
LEMMA SentIs ==
  ASSUME TypeOK, NEW r \in sent
  PROVE  /\ r \in Request /\ todo[r] # <<>> /\ todo[r] # <<"start">>
         /\ Head(todo[r]) \in Messages
  BY RestsOf DEF TypeOK, Messages

\* A task that is done with its head.
LEMMA TailWorks ==
  ASSUME TypeOK, TodosInv, NEW r \in Request, NEW op, At(r, op), op # "start",
         todo' = [todo EXCEPT ![r] = Tail(todo[r])]
  PROVE  Works(r, op, Tail(todo[r])) /\ Leaves(Tail(todo[r]))
  BY AtIs, ListOf DEF Works

\* The steps of a task that only go on.
LEMMA TaskWorks ==
  ASSUME TypeOK, TodosInv, NEW r \in Request
  PROVE  /\ Lock(r) => Works(r, "lock", Tail(todo[r])) /\ Leaves(Tail(todo[r]))
         /\ Release(r) => Works(r, "unlock", Tail(todo[r])) /\ Leaves(Tail(todo[r]))
         /\ Undo(r) => Works(r, "undo", Tail(todo[r])) /\ Leaves(Tail(todo[r]))
         /\ Resolve(r) => r \in Streamed /\ Works(r, "resolve", <<"stream">>)
         /\ EndStream(r) => r \in Streamed /\ Works(r, "stream", <<>>)
<1>1. Lock(r) => Works(r, "lock", Tail(todo[r])) /\ Leaves(Tail(todo[r]))
  BY TailWorks DEF Lock, GoOn
<1>2. Release(r) => Works(r, "unlock", Tail(todo[r])) /\ Leaves(Tail(todo[r]))
  BY TailWorks DEF Release, GoOn
<1>3. Undo(r) => Works(r, "undo", Tail(todo[r])) /\ Leaves(Tail(todo[r]))
  BY TailWorks DEF Undo, GoOn
<1>4. ASSUME Resolve(r)
      PROVE  r \in Streamed /\ Works(r, "resolve", <<"stream">>)
  <2>1. At(r, "resolve") /\ todo' = [todo EXCEPT ![r] = Tail(todo[r])]
    BY <1>4 DEF Resolve, GoOn
  <2>2. Works(r, "resolve", Tail(todo[r]))
    BY <2>1, TailWorks
  <2>3. r \in Streamed /\ Tail(todo[r]) = <<"stream">>
    BY <2>1, AtIs, ListOf DEF Heads
  <2> QED
    BY <2>2, <2>3
<1>5. ASSUME EndStream(r)
      PROVE  r \in Streamed /\ Works(r, "stream", <<>>)
  <2>1. At(r, "stream") /\ todo' = [todo EXCEPT ![r] = Tail(todo[r])]
    BY <1>5 DEF EndStream, GoOn
  <2>2. Works(r, "stream", Tail(todo[r]))
    BY <2>1, TailWorks
  <2>3. r \in Streamed /\ Tail(todo[r]) = <<>>
    BY <2>1, AtIs, ListOf DEF Heads
  <2> QED
    BY <2>2, <2>3
<1> QED
  BY <1>1, <1>2, <1>3, <1>4, <1>5

\* The rest of a list is one, also when nothing is put before it.
LEMMA TailIsList ==
  ASSUME TodosInv, NEW r \in Request, todo[r] # <<>>, todo[r] # <<"start">>
  PROVE  <<>> \o Tail(todo[r]) = Tail(todo[r])
<1>1. Tail(todo[r]) \in Seq(Labels)
  BY ListOf, TodosAreLists
<1> QED
  BY <1>1, ConcatEmptySeq

\* The first to count goes on to enable streaming.
LEMMA CountWorks ==
  ASSUME TypeOK, TodosInv, NEW r \in Request, Count(r)
  PROVE  \E n : /\ Works(r, "count", n)
                /\ IF count = 0 THEN Puts("enable", n) ELSE Leaves(n)
<1>1. /\ At(r, "count")
      /\ todo' = [todo EXCEPT ![r] = (IF count = 0 THEN <<"enable">> ELSE <<>>) \o Tail(todo[r])]
  BY DEF Count
<1>2. todo[r] # <<>> /\ todo[r] # <<"start">> /\ Head(todo[r]) = "count"
  BY <1>1, AtIs
<1>3. CASE count = 0
  BY <1>1, <1>2, <1>3, PutsOf DEF Works
<1>4. CASE count # 0
  <2>1. todo' = [todo EXCEPT ![r] = Tail(todo[r])]
    BY <1>1, <1>2, <1>4, TailIsList
  <2> QED
    BY <1>1, <1>4, <2>1, TailWorks
<1> QED
  BY <1>3, <1>4

\* The last to count goes on to disable it.
LEMMA UncountWorks ==
  ASSUME TypeOK, TodosInv, NEW r \in Request, Uncount(r)
  PROVE  \E n : /\ Works(r, "uncount", n)
                /\ IF count = 1 THEN Puts("disable", n) ELSE Leaves(n)
<1>1. /\ At(r, "uncount")
      /\ todo' = [todo EXCEPT ![r] = (IF count = 1 THEN <<"disable">> ELSE <<>>) \o Tail(todo[r])]
  BY DEF Uncount
<1>2. todo[r] # <<>> /\ todo[r] # <<"start">> /\ Head(todo[r]) = "uncount"
  BY <1>1, AtIs
<1>3. CASE count = 1
  BY <1>1, <1>2, <1>3, PutsOf DEF Works
<1>4. CASE count # 1
  <2>1. todo' = [todo EXCEPT ![r] = Tail(todo[r])]
    BY <1>1, <1>2, <1>4, TailIsList
  <2> QED
    BY <1>1, <1>4, <2>1, TailWorks
<1> QED
  BY <1>3, <1>4

\* A task goes on without the answer.
LEMMA TimeOutWorks ==
  ASSUME TypeOK, TodosInv, NEW r \in Request, TimeOut(r)
  PROVE  \E n : /\ Works(r, Head(todo[r]), n) /\ Fails(Head(todo[r]), n)
                /\ Head(todo[r]) \in Messages
<1>1. todo[r] # <<>> /\ todo[r] # <<"start">> /\ Head(todo[r]) \in Messages
  BY RestsOf DEF TimeOut, Messages
<1>2. todo' = [todo EXCEPT ![r] = AfterError(r, Head(todo[r]))]
  BY DEF TimeOut
<1> QED
  BY <1>1, <1>2, ErrorOf DEF Works

\* The thread takes a message, and its task goes on if it awaits the answer.
LEMMA AnswerWorks ==
  ASSUME TypeOK, TodosInv, ThreadStep
  PROVE  \E m \in [op : Messages, of : Request] :
           /\ queue # <<>> /\ m = Head(queue) /\ queue' = Tail(queue)
           /\ UNCHANGED <<lock, count, spawned, lost, streams>>
           /\ \/ UNCHANGED <<sent, todo>> /\ ~(m.of \in sent /\ Head(todo[m.of]) = m.op)
              \/ /\ m.of \in sent /\ sent' = sent \ {m.of}
                 /\ \E n : /\ Works(m.of, m.op, n)
                           /\ \/ Run /\ Leaves(n)
                              \/ ~Run /\ Fails(m.op, n)
           /\ \/ Run
              \/ ~Run /\ RunFails /\ Runs(m)
              \/ ~Run /\ Restart /\ m.op \notin {"set", "clear", "clearIf"}
<1>1. queue # <<>>
  BY DEF ThreadStep, Run, RunFails, Restart
<1> DEFINE m == Head(queue)
<1>2. m \in [op : Messages, of : Request]
  <2>1. queue \in Seq([op : Messages, of : Request])
    BY DEF TypeOK
  <2> QED
    BY <1>1, <2>1, HeadTailProperties, Zenon
<1> DEFINE awaited == m.of \in sent /\ Head(todo[m.of]) = m.op
<1>3. awaited => /\ m.of \in Request /\ m.op \in Messages
                 /\ todo[m.of] # <<>> /\ todo[m.of] # <<"start">>
                 /\ Head(todo[m.of]) = m.op
  BY <1>2, SentIs
<1>4. awaited => /\ Tail(todo[m.of]) \in TodosOf(m.of)
                 /\ Moves(m.op, todo[m.of], Tail(todo[m.of])) /\ Leaves(Tail(todo[m.of]))
  BY <1>3, ListOf
<1>5. awaited => /\ AfterError(m.of, m.op) \in TodosOf(m.of)
                 /\ Moves(m.op, todo[m.of], AfterError(m.of, m.op))
                 /\ Fails(m.op, AfterError(m.of, m.op))
  BY <1>3, ErrorOf
<1>6. CASE Run
  <2>1. Answer(m, Tail(todo[m.of]))
    BY <1>6 DEF Run
  <2>2. /\ queue' = Tail(queue) /\ UNCHANGED <<lock, count, spawned, lost, streams>>
        /\ awaited => sent' = sent \ {m.of} /\ todo' = [todo EXCEPT ![m.of] = Tail(todo[m.of])]
        /\ ~awaited => UNCHANGED <<sent, todo>>
    BY <2>1 DEF Answer
  <2>3. awaited => Works(m.of, m.op, Tail(todo[m.of])) /\ Leaves(Tail(todo[m.of]))
    BY <1>3, <1>4, <2>2 DEF Works
  <2> HIDE DEF m
  <2> QED
    BY <1>1, <1>2, <1>6, <2>2, <2>3 DEF m
<1>7. CASE ~Run /\ (RunFails \/ Restart)
  <2>1. Answer(m, AfterError(m.of, m.op))
    BY <1>7 DEF RunFails, Restart
  <2>2. /\ queue' = Tail(queue) /\ UNCHANGED <<lock, count, spawned, lost, streams>>
        /\ awaited => sent' = sent \ {m.of} /\ todo' = [todo EXCEPT ![m.of] = AfterError(m.of, m.op)]
        /\ ~awaited => UNCHANGED <<sent, todo>>
    BY <2>1 DEF Answer
  <2>3. awaited => /\ Works(m.of, m.op, AfterError(m.of, m.op))
                   /\ Fails(m.op, AfterError(m.of, m.op))
    BY <1>3, <1>5, <2>2 DEF Works
  <2>4. \/ RunFails /\ Runs(m)
        \/ Restart /\ m.op \notin {"set", "clear", "clearIf"}
    BY <1>7 DEF RunFails, Restart
  <2> HIDE DEF m
  <2> QED
    BY <1>1, <1>2, <1>7, <2>2, <2>3, <2>4 DEF m
<1> QED
  BY <1>6, <1>7 DEF ThreadStep

\* What a step does for the task r, whose list becomes n.
Goes(r, op, n) ==
  /\ Works(r, op, n)
  /\ IF op = "lock" THEN lock = None /\ lock' = r
     ELSE lock' = IF op = "unlock" THEN None ELSE lock
  /\ count' = CASE op = "count" -> count + 1
                [] op \in {"uncount", "undo", "stream"} -> count - 1
                [] OTHER -> count
  /\ lost' = lost \/ (lost' = lost \cup {r} /\ Fails(op, n) /\ op \in Messages)
  /\ sent' \subseteq sent \ {r}

\* Every step is of one of four kinds.
Kinds ==
  \/ /\ UNCHANGED <<todo, lock, count>>
     /\ lost' = lost \/ \E m \in spawned : lost' = lost \cup {m.of}
     /\ sent' \subseteq sent \/ \E r \in Request : Send(r)
  \/ \E r \in Request : Start(r)
  \/ \E r \in Request : Drop(r)
  \/ \E r \in Request : \E op, n : Goes(r, op, n)

\* Who awaits an answer does nothing by itself.
LEMMA NotSent ==
  ASSUME TypeOK, NEW r \in Request, NEW op, NEW n, Works(r, op, n), op \notin Messages
  PROVE  r \notin sent
  BY SentIs DEF Works

\* A step of a task is of one of the kinds.
LEMMA TaskKinds ==
  ASSUME TypeOK, TodosInv, NEW r \in Request, TaskStep(r)
  PROVE  Kinds
<1>0. /\ {"lock", "unlock", "count", "uncount", "undo", "resolve"} \cap Messages = {}
      /\ \A op, n : Works(r, op, n) /\ op \notin Messages => r \notin sent
  BY NotSent DEF Messages
<1>1. CASE Lock(r)
  <2>1. Works(r, "lock", Tail(todo[r]))
    BY <1>1, TaskWorks
  <2>2. lock = None /\ lock' = r /\ UNCHANGED <<lost, count, sent>>
    BY <1>1 DEF Lock
  <2>3. Goes(r, "lock", Tail(todo[r]))
    BY <1>0, <2>1, <2>2 DEF Goes
  <2> QED
    BY <2>3 DEF Kinds
<1>2. CASE Release(r)
  <2>1. Works(r, "unlock", Tail(todo[r]))
    BY <1>2, TaskWorks
  <2>2. lock' = None /\ UNCHANGED <<lost, count, sent>>
    BY <1>2 DEF Release
  <2>3. Goes(r, "unlock", Tail(todo[r]))
    BY <1>0, <2>1, <2>2 DEF Goes
  <2> QED
    BY <2>3 DEF Kinds
<1>3. CASE Count(r)
  <2>1. PICK n : Works(r, "count", n)
    BY <1>3, CountWorks
  <2>2. UNCHANGED <<lock, lost, sent>> /\ count' = count + 1
    BY <1>3 DEF Count
  <2>3. Goes(r, "count", n)
    BY <1>0, <2>1, <2>2 DEF Goes
  <2> QED
    BY <2>3 DEF Kinds
<1>4. CASE Uncount(r)
  <2>1. PICK n : Works(r, "uncount", n)
    BY <1>4, UncountWorks
  <2>2. UNCHANGED <<lock, lost, sent>> /\ count' = count - 1
    BY <1>4 DEF Uncount
  <2>3. Goes(r, "uncount", n)
    BY <1>0, <2>1, <2>2 DEF Goes
  <2> QED
    BY <2>3 DEF Kinds
<1>5. CASE Undo(r)
  <2>1. Works(r, "undo", Tail(todo[r]))
    BY <1>5, TaskWorks
  <2>2. UNCHANGED <<lock, lost, sent>> /\ count' = count - 1
    BY <1>5 DEF Undo
  <2>3. Goes(r, "undo", Tail(todo[r]))
    BY <1>0, <2>1, <2>2 DEF Goes
  <2> QED
    BY <2>3 DEF Kinds
<1>6. CASE Send(r)
  BY <1>6 DEF Send, Kinds
<1>7. CASE Resolve(r)
  <2>1. Works(r, "resolve", <<"stream">>)
    BY <1>7, TaskWorks
  <2>2. UNCHANGED <<lock, lost, count, sent>>
    BY <1>7 DEF Resolve
  <2>3. Goes(r, "resolve", <<"stream">>)
    BY <1>0, <2>1, <2>2 DEF Goes
  <2> QED
    BY <2>3 DEF Kinds
<1> QED
  BY <1>1, <1>2, <1>3, <1>4, <1>5, <1>6, <1>7 DEF TaskStep

\* So is what its client, its stream or the clock does.
LEMMA ClientKinds ==
  ASSUME TypeOK, TodosInv, NEW r \in Request, ClientStep(r)
  PROVE  Kinds
<1>1. CASE Start(r)
  BY <1>1 DEF Kinds
<1>2. CASE Chunk(r) \/ Resolved(r)
  BY <1>2 DEF Chunk, Resolved, Kinds
<1>3. CASE EndStream(r)
  <2>1. Works(r, "stream", <<>>)
    BY <1>3, TaskWorks
  <2>2. UNCHANGED <<lock, lost, sent>> /\ count' = count - 1
    BY <1>3 DEF EndStream
  <2>3. r \notin sent
    BY <2>1, NotSent DEF Messages
  <2>4. Goes(r, "stream", <<>>)
    BY <2>1, <2>2, <2>3 DEF Goes
  <2> QED
    BY <2>4 DEF Kinds
<1>4. CASE Drop(r)
  BY <1>4 DEF Kinds
<1>5. CASE TimeOut(r)
  <2> DEFINE op == Head(todo[r])
  <2>1. PICK n : Works(r, op, n) /\ Fails(op, n) /\ op \in Messages
    BY <1>5, TimeOutWorks
  <2>2. UNCHANGED <<lock, count>> /\ lost' = lost \cup {r} /\ sent' = sent \ {r}
    BY <1>5 DEF TimeOut
  <2>3. op \notin {"lock", "unlock", "count", "uncount", "undo", "stream"}
    BY <2>1 DEF Messages
  <2> HIDE DEF op
  <2>4. Goes(r, op, n)
    BY <2>1, <2>2, <2>3 DEF Goes
  <2> QED
    BY <2>4 DEF Kinds
<1> QED
  BY <1>1, <1>2, <1>3, <1>4, <1>5 DEF ClientStep

\* So is every step, and who is lost stays lost.
LEMMA StepKinds ==
  ASSUME TypeOK, TodosInv, Next
  PROVE  Kinds /\ lost \subseteq lost'
<1>1. ASSUME NEW r \in Request, TaskStep(r) \/ ClientStep(r)
      PROVE  Kinds
  BY <1>1, TaskKinds, ClientKinds
<1>2. ASSUME SendSpawned \/ SpawnedTimesOut
      PROVE  Kinds
  BY <1>2 DEF SendSpawned, SpawnedTimesOut, Kinds
<1>3. ASSUME ThreadStep
      PROVE  Kinds
  <2>1. PICK m \in [op : Messages, of : Request] :
           /\ UNCHANGED <<lock, count, lost>>
           /\ \/ UNCHANGED <<sent, todo>>
              \/ sent' = sent \ {m.of} /\ \E n : Works(m.of, m.op, n)
    BY <1>3, AnswerWorks
  <2>2. CASE UNCHANGED <<sent, todo>>
    BY <2>1, <2>2 DEF Kinds
  <2>3. CASE sent' = sent \ {m.of} /\ \E n : Works(m.of, m.op, n)
    <3>1. PICK n : Works(m.of, m.op, n)
      BY <2>3
    <3>2. m.of \in Request /\ m.op \in Messages
      OBVIOUS
    <3>3. m.op \notin {"lock", "unlock", "count", "uncount", "undo", "stream"}
      BY <3>2 DEF Messages
    <3>4. Goes(m.of, m.op, n)
      BY <2>1, <2>3, <3>1, <3>3 DEF Goes
    <3> QED
      BY <3>2, <3>4 DEF Kinds
  <2> QED
    BY <2>1, <2>2, <2>3
<1>4. Kinds
  BY <1>1, <1>2, <1>3 DEF Next
<1>5. Kinds => lost \subseteq lost'
  BY DEF Kinds, Start, Drop, Goes
<1> QED
  BY <1>4, <1>5

\* A start, and what stays.
LEMMA StartIs ==
  ASSUME TypeOK, TodosInv, NEW r \in Request, Start(r)
  PROVE  /\ todo[r] = <<"start">> /\ todo'[r] = Plan(r)
         /\ \A q \in Request : q # r => todo'[q] = todo[q]
         /\ UNCHANGED <<lock, count, lost>>
<1>1. /\ todo[r] # <<>> /\ Head(todo[r]) = "start"
      /\ todo' = [todo EXCEPT ![r] = Plan(r)] /\ UNCHANGED <<lock, count, lost>>
  BY DEF Start, At
<1>2. todo[r] = <<"start">>
  BY <1>1, ListOf DEF Heads
<1> QED
  BY <1>1, <1>2 DEF TypeOK

\* A drop, and what stays: the mutex is not.
LEMMA DropIs ==
  ASSUME TypeOK, NEW r \in Request, Drop(r)
  PROVE  /\ todo[r] # <<>> /\ todo[r] # <<"start">> /\ todo'[r] = <<>>
         /\ \A q \in Request : q # r => todo'[q] = todo[q]
         /\ lock' = (IF lock = r THEN None ELSE lock) /\ UNCHANGED count
         /\ lost' = lost \cup {r}
  BY DEF Drop, TypeOK

\* The lists stay the lists that the kinds of tasks can have.
LEMMA TodosStep ==
  ASSUME TypeOK, TodosInv, Next
  PROVE  TodosInv'
<1>1. CASE UNCHANGED todo
  BY <1>1 DEF TodosInv
<1>2. CASE \E r \in Request : Start(r)
  BY <1>2, StartIs, PlanOf DEF TodosInv
<1>3. CASE \E r \in Request : Drop(r)
  BY <1>3, DropIs, TodosAreLists DEF TodosInv
<1>4. CASE \E r \in Request : \E op, n : Goes(r, op, n)
  <2>0. PICK r \in Request : \E op, n : Goes(r, op, n)
    BY <1>4
  <2>1. PICK op, n : Goes(r, op, n)
    BY <2>0
  <2>2. /\ n \in TodosOf(r) /\ todo'[r] = n
        /\ \A q \in Request : q # r => todo'[q] = todo[q]
    BY <2>1, WorksIs DEF Goes, Works
  <2> QED
    BY <2>2 DEF TodosInv
<1> QED
  BY <1>1, <1>2, <1>3, <1>4, StepKinds DEF Kinds

-----------------------------------------------------------------------------
(* The mutex, what the lost tasks do not begin, and the count.             *)

\* Who has to unlock and not to lock holds the mutex, and nobody else.
LEMMA LockStep ==
  ASSUME TypeOK, TodosInv, LockInv, Next
  PROVE  LockInv'
<1> SUFFICES ASSUME NEW q \in Request
             PROVE  InLock(todo'[q]) <=> lock' = q
  BY DEF LockInv
<1>0. (InLock(todo[q]) <=> lock = q) /\ None # q
  BY ContextAssumption DEF LockInv
<1>1. CASE UNCHANGED <<todo, lock>>
  BY <1>0, <1>1
<1>2. CASE \E r \in Request : Start(r)
  BY <1>0, <1>2, StartIs, PlanOf, RestsOf DEF Rests
<1>3. CASE \E r \in Request : Drop(r)
  <2>1. PICK r \in Request : Drop(r)
    BY <1>3
  <2> QED
    BY <1>0, <2>1, DropIs, RestsOf DEF Rests
<1>4. CASE \E r \in Request : \E op, n : Goes(r, op, n)
  <2>0. PICK r \in Request : \E op, n : Goes(r, op, n)
    BY <1>4
  <2>1. PICK op, n : Goes(r, op, n)
    BY <2>0
  <2>2. /\ todo'[r] = n /\ (q # r => todo'[q] = todo[q]) /\ Moves(op, todo[r], n)
        /\ IF op = "lock" THEN lock = None /\ lock' = r
           ELSE lock' = IF op = "unlock" THEN None ELSE lock
    BY <2>1, WorksIs DEF Goes, Works
  <2>3. InLock(todo[r]) <=> lock = r
    BY DEF LockInv
  <2> QED
    BY <1>0, <2>2, <2>3 DEF Moves
<1> QED
  BY <1>1, <1>2, <1>3, <1>4, StepKinds DEF Kinds

\* Who is lost goes on with an error path, or with nothing.
LEMMA LostStep ==
  ASSUME TypeOK, TodosInv, MessageInv, LostInv, Next
  PROVE  LostInv'
<1> DEFINE begins == {"start", "set", "count"}
<1> SUFFICES ASSUME NEW q \in lost'
             PROVE  ~Meets(todo'[q], begins)
  BY DEF LostInv
<1>0. lost \subseteq Request /\ (q \in lost => ~Meets(todo[q], begins))
  BY DEF LostInv, TypeOK
<1>r. /\ ~Meets(<<>>, begins) /\ Meets(<<"start">>, begins)
  BY RestsOf
<1> HIDE DEF begins
<1>1. CASE /\ UNCHANGED todo
           /\ lost' = lost \/ \E m \in spawned : lost' = lost \cup {m.of}
  BY <1>0, <1>1, <1>r DEF MessageInv
<1>2. CASE \E r \in Request : Start(r)
  BY <1>0, <1>2, <1>r, StartIs
<1>3. CASE \E r \in Request : Drop(r)
  <2>1. PICK r \in Request : Drop(r)
    BY <1>3
  <2> QED
    BY <1>0, <1>r, <2>1, DropIs
<1>4. CASE \E r \in Request : \E op, n : Goes(r, op, n)
  <2>0. PICK r \in Request : \E op, n : Goes(r, op, n)
    BY <1>4
  <2>1. PICK op, n : Goes(r, op, n)
    BY <2>0
  <2>2. /\ todo'[r] = n /\ \A p \in Request : p # r => todo'[p] = todo[p]
        /\ Moves(op, todo[r], n)
        /\ lost' = lost \/ (lost' = lost \cup {r} /\ Fails(op, n))
    BY <2>1, WorksIs DEF Goes, Works
  <2>3. Meets(n, begins) => Meets(todo[r], begins)
    BY <2>2 DEF Moves, begins
  <2>4. Fails(op, n) => ~Meets(n, begins)
    BY DEF Fails, begins
  <2> QED
    BY <1>0, <2>2, <2>3, <2>4
<1> QED
  BY <1>1, <1>2, <1>3, <1>4, StepKinds DEF Kinds

\* There are finitely many requests.
LEMMA FiniteRequests ==
  ASSUME NEW S, S \subseteq Request
  PROVE  IsFiniteSet(S) /\ Cardinality(S) \in Nat /\ Cardinality(S) <= Cardinality(Request)
  BY ContextAssumption, FS_Subset, FS_CardinalityType

\* The count is that of the tasks that have to give their reference back, and
\* of lost ones.
LEMMA CountStep ==
  ASSUME TypeOK, TodosInv, LostInv, CountInv, Next
  PROVE  CountInv'
<1>a. /\ Counting \subseteq Request /\ lost \subseteq Request
      /\ Counting' \subseteq Request
      /\ \A q \in Request : (q \in Counting <=> Counted(todo[q]))
                            /\ (q \in Counting' <=> Counted(todo'[q]))
  BY DEF Counting, TypeOK
<1>b. /\ Cardinality(Counting) <= count /\ count <= Cardinality(Counting \cup lost)
      /\ count \in Nat
  <2>1. count \in 0 .. Cardinality(Request) /\ Cardinality(Request) \in Nat
    BY FiniteRequests DEF TypeOK
  <2> QED
    BY <2>1 DEF CountInv
<1>c. SUFFICES Cardinality(Counting') <= count' /\ count' <= Cardinality(Counting' \cup lost')
  BY DEF CountInv
<1>d. ASSUME Counting' \subseteq Counting, Counting \cup lost \subseteq Counting' \cup lost',
             lost' \subseteq Request, count' = count
      PROVE  Cardinality(Counting') <= count' /\ count' <= Cardinality(Counting' \cup lost')
  <2>1. /\ Cardinality(Counting') <= Cardinality(Counting)
        /\ Cardinality(Counting) \in Nat /\ Cardinality(Counting') \in Nat
    BY <1>a, <1>d, FiniteRequests, FS_Subset
  <2>2. Counting' \cup lost' \subseteq Request
    BY <1>a, <1>d
  <2>3. /\ Cardinality(Counting \cup lost) <= Cardinality(Counting' \cup lost')
        /\ Cardinality(Counting \cup lost) \in Nat /\ Cardinality(Counting' \cup lost') \in Nat
    BY <1>a, <1>d, <2>2, FiniteRequests, FS_Subset
  <2> QED
    BY <1>b, <1>d, <2>1, <2>3
<1>e. \A m \in spawned : m.of \in Request
  BY DEF TypeOK
<1>1. CASE /\ UNCHANGED <<todo, count>>
           /\ lost' = lost \/ \E m \in spawned : lost' = lost \cup {m.of}
  <2>1. Counting' = Counting /\ lost \subseteq lost' /\ lost' \subseteq Request
    BY <1>1, <1>a, <1>e
  <2> QED
    BY <1>1, <1>d, <2>1
<1>2. CASE \E r \in Request : Start(r)
  <2>1. PICK r \in Request : Start(r)
    BY <1>2
  <2>2. Counting' = Counting
    BY <1>a, <2>1, StartIs, PlanOf, RestsOf DEF Rests
  <2> QED
    BY <1>a, <1>d, <2>1, <2>2, StartIs
<1>3. CASE \E r \in Request : Drop(r)
  <2>1. PICK r \in Request : Drop(r)
    BY <1>3
  <2>2. Counting' = Counting \ {r}
    BY <1>a, <2>1, DropIs, RestsOf DEF Rests
  <2> QED
    BY <1>a, <1>d, <2>1, <2>2, DropIs
<1>4. CASE \E r \in Request : \E op, n : Goes(r, op, n)
  <2>0. PICK r \in Request : \E op, n : Goes(r, op, n)
    BY <1>4
  <2>1. PICK op, n : Goes(r, op, n)
    BY <2>0
  <2>2. /\ todo'[r] = n /\ \A p \in Request : p # r => todo'[p] = todo[p]
        /\ Moves(op, todo[r], n) /\ Head(todo[r]) = op /\ todo[r] \notin {<<>>, <<"start">>}
        /\ lost' = lost \/ (lost' = lost \cup {r} /\ op \in Messages)
        /\ count' = CASE op = "count" -> count + 1
                      [] op \in {"uncount", "undo", "stream"} -> count - 1
                      [] OTHER -> count
    BY <2>1, WorksIs DEF Goes, Works
  <2>3. CASE op = "count"
    <3>1. r \notin Counting /\ Counting' = Counting \cup {r} /\ count' = count + 1
      BY <1>a, <2>2, <2>3 DEF Moves
    <3>2. lost' = lost
      BY <2>2, <2>3 DEF Messages
    <3>3. Meets(todo[r], {"count"})
      BY <2>2, <2>3, ListOf DEF Heads
    <3>4. Meets(todo[r], {"start", "set", "count"})
      BY <3>3 DEF Meets
    <3>5. r \notin Counting \cup lost
      BY <3>1, <3>4 DEF LostInv
    <3>6. Cardinality(Counting \cup {r}) = Cardinality(Counting) + 1
      BY <1>a, <3>1, FiniteRequests, FS_AddElement
    <3>7. Counting' \cup lost' = (Counting \cup lost) \cup {r}
      BY <3>1, <3>2
    <3>8. Cardinality((Counting \cup lost) \cup {r}) = Cardinality(Counting \cup lost) + 1
      <4>1. IsFiniteSet(Counting \cup lost)
        BY <1>a, FiniteRequests
      <4> QED
        BY <3>5, <4>1, FS_AddElement
    <3>9. Cardinality(Counting) \in Nat /\ Cardinality(Counting \cup lost) \in Nat
      BY <1>a, FiniteRequests
    <3> QED
      BY <1>b, <3>1, <3>6, <3>7, <3>8, <3>9
  <2>4. CASE op \in {"uncount", "undo", "stream"}
    <3>1. r \in Counting /\ Counting' = Counting \ {r} /\ count' = count - 1
      BY <1>a, <2>2, <2>4 DEF Moves
    <3>2. lost' = lost
      BY <2>2, <2>4 DEF Messages
    <3>3. Cardinality(Counting \ {r}) = Cardinality(Counting) - 1
      BY <1>a, <3>1, FiniteRequests, FS_RemoveElement
    <3>4. Cardinality((Counting \cup lost) \ {r}) = Cardinality(Counting \cup lost) - 1
      <4>1. IsFiniteSet(Counting \cup lost) /\ r \in Counting \cup lost
        BY <1>a, <3>1, FiniteRequests
      <4> QED
        BY <4>1, FS_RemoveElement
    <3>5. Cardinality((Counting \cup lost) \ {r}) <= Cardinality(Counting' \cup lost')
      <4>1. (Counting \cup lost) \ {r} \subseteq Counting' \cup lost' /\ Counting' \cup lost' \subseteq Request
        BY <1>a, <3>1, <3>2
      <4> QED
        BY <4>1, FiniteRequests, FS_Subset
    <3>6. /\ Cardinality(Counting) \in Nat /\ Cardinality(Counting \cup lost) \in Nat
          /\ Cardinality(Counting' \cup lost') \in Nat
      <4>1. Counting \cup lost \subseteq Request /\ Counting' \cup lost' \subseteq Request
        BY <1>a, <3>2
      <4> QED
        BY <1>a, <4>1, FiniteRequests
    <3> QED
      BY <1>b, <3>1, <3>3, <3>4, <3>5, <3>6
  <2>5. CASE op \notin {"count", "uncount", "undo", "stream"}
    <3>1. Counting' = Counting /\ count' = count
      BY <1>a, <2>2, <2>5 DEF Moves
    <3>2. lost \subseteq lost' /\ lost' \subseteq Request
      BY <1>a, <2>2
    <3> QED
      BY <1>d, <3>1, <3>2
  <2> QED
    BY <2>3, <2>4, <2>5
<1> QED
  BY <1>1, <1>2, <1>3, <1>4, StepKinds DEF Kinds

-----------------------------------------------------------------------------
(* The channel: who awaits what is in it.                                  *)

\* The channel is a sequence of messages.
LEMMA QueueIs ==
  ASSUME TypeOK
  PROVE  /\ queue \in Seq([op : Messages, of : Request]) /\ Len(queue) \in Nat
         /\ DOMAIN queue = 1..Len(queue)
         /\ \A i \in 1..Len(queue) : queue[i].op \in Messages /\ queue[i].of \in Request
         /\ \A x : x \in ToSet(queue) <=> \E i \in 1..Len(queue) : queue[i] = x
<1>1. queue \in Seq([op : Messages, of : Request])
  BY DEF TypeOK
<1>2. Len(queue) \in Nat /\ DOMAIN queue = 1..Len(queue)
  BY <1>1
<1>3. \A i \in 1..Len(queue) : queue[i] \in [op : Messages, of : Request]
  BY <1>1, ElementOfSeq
<1> QED
  BY <1>1, <1>2, <1>3 DEF ToSet

\* ... to which one is appended
LEMMA QueueAppend ==
  ASSUME TypeOK, NEW x \in [op : Messages, of : Request], queue' = Append(queue, x)
  PROVE  /\ queue' \in Seq([op : Messages, of : Request])
         /\ Len(queue') = Len(queue) + 1 /\ queue'[Len(queue) + 1] = x
         /\ \A i \in 1..Len(queue) : queue'[i] = queue[i]
         /\ \A i \in 1..Len(queue') : i \in 1..Len(queue) \/ i = Len(queue) + 1
<1>1. queue \in Seq([op : Messages, of : Request]) /\ Len(queue) \in Nat
  BY QueueIs
<1>2. /\ queue' \in Seq([op : Messages, of : Request])
      /\ Len(queue') = Len(queue) + 1
      /\ \A i \in 1..Len(queue) : queue'[i] = queue[i]
      /\ queue'[Len(queue) + 1] = x
  BY <1>1, AppendProperties
<1> QED
  BY <1>1, <1>2

\* ... or the first of which is taken.
LEMMA QueueTail ==
  ASSUME TypeOK, queue # <<>>, queue' = Tail(queue)
  PROVE  /\ queue' \in Seq([op : Messages, of : Request])
         /\ Len(queue') \in Nat /\ Len(queue) = Len(queue') + 1 /\ Head(queue) = queue[1]
         /\ \A i \in 1..Len(queue') : i + 1 \in 1..Len(queue) /\ queue'[i] = queue[i + 1]
         /\ \A i \in 1..Len(queue) : i = 1 \/ i - 1 \in 1..Len(queue')
<1>1. queue \in Seq([op : Messages, of : Request]) /\ Len(queue) \in Nat
  BY QueueIs
<1>2. /\ queue' \in Seq([op : Messages, of : Request])
      /\ Len(queue') = Len(queue) - 1
      /\ \A i \in 1..Len(queue') : queue'[i] = queue[i + 1]
  BY <1>1, HeadTailProperties
<1>3. Len(queue) # 0 /\ Head(queue) = queue[1]
  BY <1>1, EmptySeq
<1> QED
  BY <1>1, <1>2, <1>3

\* What of r is in the channel, or waits to be put there.
LEMMA QueuedAre ==
  ASSUME TypeOK, TodosInv, MessageInv
  PROVE  /\ \A m \in spawned : /\ m.of \in Streamed /\ todo[m.of] = <<>>
                               /\ m.op \in {"clearIf", "disable"} /\ m.of \in Request
                               /\ m.of \notin sent
         /\ \A i \in 1..Len(queue) :
              /\ queue[i].op = "chunk" => queue[i].of \in resolving
              /\ \/ queue[i].of \in lost \/ queue[i].op = "chunk"
                 \/ /\ queue[i].op \in {"clearIf", "disable"} /\ queue[i].of \in Streamed
                    /\ todo[queue[i].of] = <<>> /\ queue[i].of \notin sent
                 \/ queue[i].of \in sent /\ Head(todo[queue[i].of]) = queue[i].op
         /\ \A i, j \in 1..Len(queue) :
              queue[i].of = queue[j].of /\ queue[i].of \in sent /\ queue[i].of \notin lost
                => i = j
         /\ \A r \in resolving : /\ r \in Streamed /\ r \in Request /\ r \notin sent
                                 /\ todo[r] = <<>> \/ todo[r] = <<"stream">>
<1>1. "stream" \notin Messages
  BY DEF Messages
<1>2. \A r \in Request : todo[r] = <<>> \/ todo[r] = <<"stream">> => r \notin sent
  BY <1>1, SentIs, RestsOf
<1>3. /\ \A m \in spawned : m.op \in {"clearIf", "disable"} /\ m.of \in Request
      /\ resolving \subseteq Request
      /\ \A i \in 1..Len(queue) : queue[i].of \in Request
  BY QueueIs DEF TypeOK
<1> QED
  BY <1>2, <1>3 DEF MessageInv

\* A step of r that sends nothing, and after which no answer is awaited.
LEMMA MessageAside ==
  ASSUME TypeOK, TodosInv, MessageInv, NEW r \in Request,
         UNCHANGED <<queue, spawned, resolving>>,
         \A q \in Request : q # r => todo'[q] = todo[q],
         todo[r] # <<>>, todo[r] # <<"stream">>,
         r \notin sent', sent' \subseteq sent, sent \ {r} \subseteq sent',
         r \notin sent \/ r \in lost', lost \subseteq lost'
  PROVE  MessageInv'
<1>1. \A i \in 1..Len(queue) : queue[i].of \in Request
  BY QueueIs
<1>2. /\ \A m \in spawned : m.of # r
      /\ r \notin resolving
      /\ \A i \in 1..Len(queue) : queue[i].of = r => r \in lost'
  BY QueuedAre
<1>3. \A m \in spawned : m.of \in Streamed /\ todo'[m.of] = <<>>
  BY <1>2, QueuedAre
<1>4. \A i \in 1..Len(queue) :
        /\ queue[i].op = "chunk" => queue[i].of \in resolving
        /\ \/ queue[i].of \in lost' \/ queue[i].op = "chunk"
           \/ queue[i].op \in {"clearIf", "disable"} /\ queue[i].of \in Streamed
              /\ todo'[queue[i].of] = <<>>
           \/ queue[i].of \in sent' /\ Head(todo'[queue[i].of]) = queue[i].op
  BY <1>1, <1>2, QueuedAre
<1>5. \A i, j \in 1..Len(queue) :
        queue[i].of = queue[j].of /\ queue[i].of \in sent' /\ queue[i].of \notin lost' => i = j
  BY QueuedAre
<1>6. \A q \in resolving : q \in Streamed /\ (todo'[q] = <<>> \/ todo'[q] = <<"stream">>)
  BY <1>2, QueuedAre
<1> QED
  BY <1>3, <1>4, <1>5, <1>6 DEF MessageInv

\* A message that comes last in the channel.
LEMMA MessageAppend ==
  ASSUME TypeOK, TodosInv, MessageInv, NEW x \in [op : Messages, of : Request],
         queue' = Append(queue, x),
         UNCHANGED <<todo, lost, resolving>>, spawned' \subseteq spawned,
         sent \subseteq sent', sent' \subseteq sent \cup {x.of},
         x.op = "chunk" => x.of \in resolving,
         \/ (x.op = "chunk" \/ x \in spawned) /\ sent' = sent
         \/ x.of \in sent' /\ x.of \notin sent /\ Head(todo[x.of]) = x.op /\ todo[x.of] # <<>>
            /\ todo[x.of] # <<"stream">>
  PROVE  MessageInv'
<1>1. /\ Len(queue') = Len(queue) + 1 /\ queue'[Len(queue) + 1] = x /\ Len(queue) \in Nat
      /\ \A i \in 1..Len(queue) : queue'[i] = queue[i]
      /\ \A i \in 1..Len(queue') : i \in 1..Len(queue) \/ i = Len(queue) + 1
  BY QueueAppend, QueueIs
<1>2. \A m \in spawned' : m.of \in Streamed /\ todo[m.of] = <<>>
  BY QueuedAre
<1>3. \A i \in 1..Len(queue') :
        /\ queue'[i].op = "chunk" => queue'[i].of \in resolving
        /\ \/ queue'[i].of \in lost \/ queue'[i].op = "chunk"
           \/ queue'[i].op \in {"clearIf", "disable"} /\ queue'[i].of \in Streamed
              /\ todo[queue'[i].of] = <<>>
           \/ queue'[i].of \in sent' /\ Head(todo[queue'[i].of]) = queue'[i].op
  BY <1>1, QueuedAre
<1>4. x.of \in sent' /\ x.of \notin lost => \A i \in 1..Len(queue) : queue[i].of # x.of
  <2>1. CASE (x.op = "chunk" \/ x \in spawned) /\ sent' = sent
    <3>1. x.of \notin sent
      BY <2>1, QueuedAre
    <3> QED
      BY <2>1, <3>1
  <2>2. CASE x.of \notin sent /\ todo[x.of] # <<>> /\ todo[x.of] # <<"stream">>
    BY <2>2, QueuedAre
  <2> QED
    BY <2>1, <2>2
<1>5. \A i, j \in 1..Len(queue') :
        queue'[i].of = queue'[j].of /\ queue'[i].of \in sent' /\ queue'[i].of \notin lost => i = j
  BY <1>1, <1>4, QueuedAre
<1>6. \A q \in resolving : q \in Streamed /\ (todo[q] = <<>> \/ todo[q] = <<"stream">>)
  BY QueuedAre
<1> QED
  BY <1>2, <1>3, <1>5, <1>6 DEF MessageInv

\* The thread takes a message: nobody else awaits its answer.
LEMMA MessageAnswer ==
  ASSUME TypeOK, TodosInv, MessageInv, ThreadStep
  PROVE  MessageInv'
<1>1. PICK m \in [op : Messages, of : Request] :
        /\ queue # <<>> /\ m = Head(queue) /\ queue' = Tail(queue)
        /\ UNCHANGED <<spawned, lost, resolving>>
        /\ \/ UNCHANGED <<sent, todo>>
           \/ /\ m.of \in sent /\ sent' = sent \ {m.of}
              /\ \E n : Works(m.of, m.op, n)
  BY AnswerWorks DEF streams
<1>2. /\ \A i \in 1..Len(queue') : i + 1 \in 1..Len(queue) /\ queue'[i] = queue[i + 1]
      /\ m = queue[1] /\ Len(queue') \in Nat /\ Len(queue) = Len(queue') + 1
  BY <1>1, QueueTail
<1>3. CASE UNCHANGED <<sent, todo>>
  <2>1. \A i \in 1..Len(queue') :
          /\ queue'[i].op = "chunk" => queue'[i].of \in resolving
          /\ \/ queue'[i].of \in lost \/ queue'[i].op = "chunk"
             \/ queue'[i].op \in {"clearIf", "disable"} /\ queue'[i].of \in Streamed
                /\ todo[queue'[i].of] = <<>>
             \/ queue'[i].of \in sent /\ Head(todo[queue'[i].of]) = queue'[i].op
    BY <1>2, QueuedAre
  <2>2. \A i, j \in 1..Len(queue') :
          queue'[i].of = queue'[j].of /\ queue'[i].of \in sent \ lost => i = j
    <3>1. ASSUME NEW i \in 1..Len(queue'), NEW j \in 1..Len(queue'),
                 queue'[i].of = queue'[j].of, queue'[i].of \in sent \ lost
          PROVE  i = j
      <4>1. /\ i + 1 \in 1..Len(queue) /\ queue'[i] = queue[i + 1]
            /\ j + 1 \in 1..Len(queue) /\ queue'[j] = queue[j + 1]
        BY <1>2
      <4>2. i + 1 = j + 1
        BY <3>1, <4>1, QueuedAre
      <4> QED
        BY <4>2
    <3> QED
      BY <3>1
  <2> QED
    BY <1>1, <1>3, <2>1, <2>2 DEF MessageInv
<1>4. CASE m.of \in sent /\ sent' = sent \ {m.of} /\ \E n : Works(m.of, m.op, n)
  <2>1. m.of \in Request /\ \A q \in Request : q # m.of => todo'[q] = todo[q]
    BY <1>4, WorksIs
  <2>2. /\ \A x \in spawned : x.of # m.of /\ x.of \in Request
        /\ m.of \notin resolving
    BY <1>4, QueuedAre
  <2>3. \A i \in 1..Len(queue') : queue'[i].of = m.of => m.of \in lost
    <3>1. ASSUME NEW i \in 1..Len(queue'), queue'[i].of = m.of, m.of \notin lost
          PROVE  i + 1 = 1
      BY <1>2, <1>4, <3>1, QueuedAre
    <3> QED
      BY <3>1
  <2>4. \A i \in 1..Len(queue') :
          /\ queue'[i].op = "chunk" => queue'[i].of \in resolving
          /\ \/ queue'[i].of \in lost \/ queue'[i].op = "chunk"
             \/ queue'[i].op \in {"clearIf", "disable"} /\ queue'[i].of \in Streamed
                /\ todo'[queue'[i].of] = <<>>
             \/ queue'[i].of \in sent' /\ Head(todo'[queue'[i].of]) = queue'[i].op
    <3> SUFFICES ASSUME NEW i \in 1..Len(queue')
                 PROVE  /\ queue'[i].op = "chunk" => queue'[i].of \in resolving
                        /\ \/ queue'[i].of \in lost \/ queue'[i].op = "chunk"
                           \/ queue'[i].op \in {"clearIf", "disable"}
                              /\ queue'[i].of \in Streamed /\ todo'[queue'[i].of] = <<>>
                           \/ queue'[i].of \in sent'
                              /\ Head(todo'[queue'[i].of]) = queue'[i].op
      OBVIOUS
    <3>1. i + 1 \in 1..Len(queue) /\ queue'[i] = queue[i + 1]
      BY <1>2
    <3>2. queue'[i].of \in Request
      BY <3>1, QueueIs
    <3>3. queue'[i].op = "chunk" => queue'[i].of \in resolving
      BY <3>1, QueuedAre
    <3>4. CASE queue'[i].of = m.of
      BY <2>3, <3>3, <3>4
    <3>5. CASE queue'[i].of # m.of
      <4>1. todo'[queue'[i].of] = todo[queue'[i].of]
        BY <2>1, <3>2, <3>5
      <4> QED
        BY <1>4, <3>1, <3>3, <3>5, <4>1, QueuedAre
    <3> QED
      BY <3>4, <3>5
  <2>5. \A i, j \in 1..Len(queue') :
          queue'[i].of = queue'[j].of /\ queue'[i].of \in sent' \ lost => i = j
    <3>1. ASSUME NEW i \in 1..Len(queue'), NEW j \in 1..Len(queue'),
                 queue'[i].of = queue'[j].of, queue'[i].of \in sent' \ lost
          PROVE  i = j
      <4>1. /\ i + 1 \in 1..Len(queue) /\ queue'[i] = queue[i + 1]
            /\ j + 1 \in 1..Len(queue) /\ queue'[j] = queue[j + 1]
        BY <1>2
      <4>2. i + 1 = j + 1
        BY <1>4, <3>1, <4>1, QueuedAre
      <4> QED
        BY <4>2
    <3> QED
      BY <3>1
  <2>6. /\ \A x \in spawned : x.of \in Streamed /\ todo'[x.of] = <<>>
        /\ \A q \in resolving : q \in Streamed /\ (todo'[q] = <<>> \/ todo'[q] = <<"stream">>)
    BY <2>1, <2>2, QueuedAre
  <2> QED
    BY <1>1, <2>4, <2>5, <2>6 DEF MessageInv
<1> QED
  BY <1>1, <1>3, <1>4

\* A stream begins to resolve its promises.
LEMMA MessageResolve ==
  ASSUME TypeOK, TodosInv, MessageInv, NEW r \in Request, Resolve(r)
  PROVE  MessageInv'
<1>1. /\ UNCHANGED <<queue, spawned, sent, lost>> /\ resolving' = resolving \cup {r}
      /\ At(r, "resolve")
  BY DEF Resolve
<1>2. /\ r \in Streamed /\ todo'[r] = <<"stream">>
      /\ \A q \in Request : q # r => todo'[q] = todo[q]
      /\ todo[r] # <<>> /\ todo[r] # <<"stream">> /\ Head(todo[r]) = "resolve"
  <2>1. r \in Streamed /\ Works(r, "resolve", <<"stream">>)
    BY TaskWorks
  <2>2. todo[r] # <<>> /\ Head(todo[r]) = "resolve"
    BY <2>1 DEF Works
  <2> QED
    BY <2>1, <2>2, WorksIs, RestsOf
<1>3. r \notin sent
  <2>1. "resolve" \notin Messages
    BY DEF Messages
  <2> QED
    BY <1>2, <2>1, SentIs
<1>4. \A i \in 1..Len(queue) : queue[i].of \in Request /\ (queue[i].of = r => r \in lost)
  BY <1>2, <1>3, QueuedAre, QueueIs
<1>5. \A i \in 1..Len(queue) :
        /\ queue[i].op = "chunk" => queue[i].of \in resolving'
        /\ \/ queue[i].of \in lost \/ queue[i].op = "chunk"
           \/ queue[i].op \in {"clearIf", "disable"} /\ queue[i].of \in Streamed
              /\ todo'[queue[i].of] = <<>>
           \/ queue[i].of \in sent /\ Head(todo'[queue[i].of]) = queue[i].op
  BY <1>1, <1>2, <1>4, QueuedAre
<1>6. \A i, j \in 1..Len(queue) :
        queue[i].of = queue[j].of /\ queue[i].of \in sent \ lost => i = j
  BY QueuedAre
<1>7. /\ \A m \in spawned : m.of \in Streamed /\ todo'[m.of] = <<>>
      /\ \A q \in resolving' : q \in Streamed /\ (todo'[q] = <<>> \/ todo'[q] = <<"stream">>)
  BY <1>1, <1>2, QueuedAre
<1> QED
  BY <1>1, <1>5, <1>6, <1>7 DEF MessageInv

\* A stream ends, and leaves its cleanup.
LEMMA MessageEnd ==
  ASSUME TypeOK, TodosInv, MessageInv, NEW r \in Request, EndStream(r)
  PROVE  MessageInv'
<1>1. /\ UNCHANGED <<queue, sent, lost, resolving>>
      /\ spawned' \subseteq spawned \cup {Message("clearIf", r), Message("disable", r)}
  BY DEF EndStream
<1>2. /\ r \in Streamed /\ todo'[r] = <<>>
      /\ \A q \in Request : q # r => todo'[q] = todo[q]
      /\ todo[r] # <<>> /\ Head(todo[r]) = "stream"
  <2>1. r \in Streamed /\ Works(r, "stream", <<>>)
    BY TaskWorks
  <2>2. todo[r] # <<>> /\ Head(todo[r]) = "stream"
    BY <2>1 DEF Works
  <2> QED
    BY <2>1, <2>2, WorksIs
<1>3. r \notin sent
  <2>1. "stream" \notin Messages
    BY DEF Messages
  <2> QED
    BY <1>2, <2>1, SentIs
<1>4. \A i \in 1..Len(queue) :
         /\ queue[i].of \in Request
         /\ queue[i].of = r => r \in lost \/ queue[i].op = "chunk"
  BY <1>2, <1>3, QueuedAre, QueueIs
<1>5. \A i \in 1..Len(queue) :
        /\ queue[i].op = "chunk" => queue[i].of \in resolving
        /\ \/ queue[i].of \in lost \/ queue[i].op = "chunk"
           \/ queue[i].op \in {"clearIf", "disable"} /\ queue[i].of \in Streamed
              /\ todo'[queue[i].of] = <<>>
           \/ queue[i].of \in sent /\ Head(todo'[queue[i].of]) = queue[i].op
  BY <1>2, <1>4, QueuedAre
<1>6. \A i, j \in 1..Len(queue) :
        queue[i].of = queue[j].of /\ queue[i].of \in sent \ lost => i = j
  BY QueuedAre
<1>7. /\ \A m \in spawned' : m.of \in Streamed /\ todo'[m.of] = <<>>
      /\ \A q \in resolving : q \in Streamed /\ (todo'[q] = <<>> \/ todo'[q] = <<"stream">>)
  BY <1>1, <1>2, QueuedAre DEF Message
<1> QED
  BY <1>1, <1>5, <1>6, <1>7 DEF MessageInv

\* Every step keeps what is said of the channel.
LEMMA MessageStep ==
  ASSUME TypeOK, TodosInv, MessageInv, Next
  PROVE  MessageInv'
<1>1. ASSUME NEW r \in Request, NEW op, NEW n, Works(r, op, n), op \notin Messages, op # "stream",
             UNCHANGED <<queue, spawned, resolving, sent, lost>>
      PROVE  MessageInv'
  <2>1. /\ todo[r] # <<>> /\ Head(todo[r]) = op
        /\ \A q \in Request : q # r => todo'[q] = todo[q]
    BY <1>1, WorksIs DEF Works
  <2>2. r \notin sent /\ todo[r] # <<"stream">>
    BY <1>1, <2>1, SentIs, RestsOf
  <2> QED
    BY <1>1, <2>1, <2>2, MessageAside
<1>2. ASSUME NEW r \in Request, TaskStep(r)
      PROVE  MessageInv'
  <2>0. {"lock", "unlock", "count", "uncount", "undo"} \cap Messages = {}
    BY DEF Messages
  <2>1. CASE Lock(r)
    BY <1>1, <2>0, <2>1, TaskWorks DEF Lock, streams
  <2>2. CASE Release(r)
    BY <1>1, <2>0, <2>2, TaskWorks DEF Release, streams
  <2>3. CASE Count(r)
    BY <1>1, <2>0, <2>3, CountWorks DEF Count, streams
  <2>4. CASE Uncount(r)
    BY <1>1, <2>0, <2>4, UncountWorks DEF Uncount, streams
  <2>5. CASE Undo(r)
    BY <1>1, <2>0, <2>5, TaskWorks DEF Undo, streams
  <2>6. CASE Send(r)
    <3> DEFINE op == Head(todo[r])
               x == Message(op, r)
    <3>1. /\ todo[r] # <<>> /\ op \in Messages /\ r \notin sent /\ sent' = sent \cup {r}
          /\ queue' = Append(queue, x)
          /\ UNCHANGED <<todo, lost, resolving, spawned>>
      BY <2>6 DEF Send, streams
    <3>2. x \in [op : Messages, of : Request] /\ x.of = r /\ x.op = op
      BY <3>1 DEF Message
    <3>3. todo[r] # <<"stream">> /\ op # "chunk"
      <4>1. todo[r] # <<"stream">> /\ todo[r] # <<"start">>
        BY <3>1, RestsOf DEF Messages
      <4> QED
        BY <3>1, <4>1, ListOf DEF Heads
    <3> HIDE DEF x
    <3> QED
      BY <3>1, <3>2, <3>3, MessageAppend
  <2>7. CASE Resolve(r)
    BY <2>7, MessageResolve
  <2> QED
    BY <1>2, <2>1, <2>2, <2>3, <2>4, <2>5, <2>6, <2>7 DEF TaskStep
<1>3. ASSUME NEW r \in Request, ClientStep(r)
      PROVE  MessageInv'
  <2>1. CASE Start(r)
    <3>1. /\ todo[r] = <<"start">> /\ \A q \in Request : q # r => todo'[q] = todo[q]
          /\ UNCHANGED <<queue, spawned, resolving, sent, lost>>
      BY <2>1, StartIs DEF Start, streams
    <3>2. r \notin sent /\ todo[r] # <<>> /\ todo[r] # <<"stream">>
      BY <3>1, SentIs, RestsOf
    <3> QED
      BY <3>1, <3>2, MessageAside
  <2>2. CASE Chunk(r)
    <3> DEFINE x == Message("chunk", r)
    <3>1. /\ r \in resolving /\ queue' = Append(queue, x)
          /\ UNCHANGED <<todo, lost, resolving, spawned, sent>>
      BY <2>2 DEF Chunk, streams
    <3>2. x \in [op : Messages, of : Request] /\ x.of = r /\ x.op = "chunk"
      BY DEF Message, Messages
    <3> HIDE DEF x
    <3> QED
      BY <3>1, <3>2, MessageAppend
  <2>3. CASE Resolved(r)
    <3>1. /\ resolving' = resolving \ {r} /\ ~Contains(queue, Message("chunk", r))
          /\ UNCHANGED <<todo, lost, queue, spawned, sent>>
      BY <2>3 DEF Resolved
    <3>2. \A i \in 1..Len(queue) : queue[i].op = "chunk" => queue[i].of # r
      <4>1. ASSUME NEW i \in 1..Len(queue), queue[i].op = "chunk", queue[i].of = r
            PROVE  FALSE
        <5>1. queue[i] \in [op : Messages, of : Request]
          BY QueueIs, ElementOfSeq
        <5>2. queue[i] = Message("chunk", r)
          BY <4>1, <5>1 DEF Message
        <5> QED
          BY <3>1, <5>2 DEF Contains
      <4> QED
        BY <4>1
    <3> QED
      BY <3>1, <3>2 DEF MessageInv
  <2>4. CASE EndStream(r)
    BY <2>4, MessageEnd
  <2>5. CASE Drop(r)
    <3>1. /\ UNCHANGED <<queue, spawned, resolving>> /\ sent' = sent \ {r}
          /\ lost' = lost \cup {r} /\ ~At(r, "stream")
      BY <2>5 DEF Drop, streams
    <3>2. /\ todo[r] # <<>> /\ todo[r] # <<"stream">>
          /\ \A q \in Request : q # r => todo'[q] = todo[q]
      BY <2>5, <3>1, DropIs, RestsOf DEF At
    <3> QED
      BY <3>1, <3>2, MessageAside
  <2>6. CASE TimeOut(r)
    <3>1. /\ UNCHANGED <<queue, spawned, resolving>> /\ sent' = sent \ {r}
          /\ lost' = lost \cup {r}
      BY <2>6 DEF TimeOut, streams
    <3>2. /\ todo[r] # <<>> /\ todo[r] # <<"stream">>
          /\ \A q \in Request : q # r => todo'[q] = todo[q]
      <4>1. PICK n : Works(r, Head(todo[r]), n) /\ Head(todo[r]) \in Messages
        BY <2>6, TimeOutWorks
      <4>2. todo[r] # <<>>
        BY <4>1 DEF Works
      <4>3. todo[r] # <<"stream">>
        BY <4>1, RestsOf DEF Messages
      <4> QED
        BY <4>1, <4>2, <4>3, WorksIs
    <3> QED
      BY <3>1, <3>2, MessageAside
  <2> QED
    BY <1>3, <2>1, <2>2, <2>3, <2>4, <2>5, <2>6 DEF ClientStep
<1>4. ASSUME SendSpawned
      PROVE  MessageInv'
  <2>1. PICK m \in spawned : /\ spawned' = spawned \ {m} /\ queue' = Append(queue, m)
                             /\ UNCHANGED <<todo, lost, resolving, sent>>
    BY <1>4 DEF SendSpawned, streams
  <2>2. m \in [op : Messages, of : Request] /\ m.op # "chunk"
    BY DEF TypeOK, Messages
  <2> QED
    BY <2>1, <2>2, MessageAppend
<1>5. ASSUME SpawnedTimesOut
      PROVE  MessageInv'
  <2>1. spawned' \subseteq spawned /\ lost \subseteq lost'
        /\ UNCHANGED <<todo, queue, resolving, sent>>
    BY <1>5 DEF SpawnedTimesOut, streams
  <2> QED
    BY <2>1 DEF MessageInv
<1> QED
  BY <1>2, <1>3, <1>4, <1>5, MessageAnswer DEF Next

-----------------------------------------------------------------------------
(* Types.                                                                  *)

\* The types of what the tasks keep.
LEMMA TodoTypeStep ==
  ASSUME TypeOK, TodosInv, Next
  PROVE  /\ todo' \in [Request -> Seq(Labels)]
         /\ sent' \subseteq {r \in Request : todo'[r] # <<>> /\ Head(todo'[r]) \in Messages}
         /\ lock' \in Request \cup {None} /\ count' \in Int /\ lost' \subseteq Request
<1>1. /\ todo \in [Request -> Seq(Labels)] /\ lock \in Request \cup {None} /\ count \in Int
      /\ lost \subseteq Request
      /\ sent \subseteq {r \in Request : todo[r] # <<>> /\ Head(todo[r]) \in Messages}
      /\ \A m \in spawned : m.of \in Request
  <2>1. count \in 0..Cardinality(Request) /\ Cardinality(Request) \in Nat
    BY FiniteRequests DEF TypeOK
  <2> QED
    BY <2>1 DEF TypeOK
<1>2. CASE /\ UNCHANGED <<todo, lock, count>>
           /\ lost' = lost \/ \E m \in spawned : lost' = lost \cup {m.of}
           /\ sent' \subseteq sent \/ \E r \in Request : Send(r)
  BY <1>1, <1>2 DEF Send
<1>3. CASE \E r \in Request : Start(r)
  <2>1. PICK r \in Request : Start(r)
    BY <1>3
  <2>2. /\ todo' = [todo EXCEPT ![r] = Plan(r)] /\ sent' = sent
        /\ UNCHANGED <<lock, count, lost>>
    BY <2>1 DEF Start
  <2>3. Plan(r) \in Seq(Labels) /\ r \notin sent
    BY <2>1, StartIs, PlanOf, TodosAreLists, SentIs
  <2> QED
    BY <1>1, <2>2, <2>3
<1>4. CASE \E r \in Request : Drop(r)
  <2>1. PICK r \in Request : Drop(r)
    BY <1>4
  <2>2. todo' = [todo EXCEPT ![r] = <<>>] /\ sent' = sent \ {r}
    BY <2>1 DEF Drop
  <2>3. <<>> \in Seq(Labels)
    BY TodosAreLists
  <2> QED
    BY <1>1, <2>1, <2>2, <2>3, DropIs
<1>5. CASE \E r \in Request : \E op, n : Goes(r, op, n)
  <2>0. PICK r \in Request : \E op, n : Goes(r, op, n)
    BY <1>5
  <2>1. PICK op, n : Goes(r, op, n)
    BY <2>0
  <2>2. /\ todo' = [todo EXCEPT ![r] = n] /\ n \in TodosOf(r) /\ sent' \subseteq sent \ {r}
        /\ lock' \in {r, None, lock} /\ lost' \in {lost, lost \cup {r}}
        /\ count' \in {count + 1, count - 1, count}
    BY <2>1 DEF Goes, Works
  <2>3. n \in Seq(Labels)
    BY <2>2, TodosAreLists
  <2>4. count' \in Int /\ lock' \in Request \cup {None} /\ lost' \subseteq Request
    BY <1>1, <2>2
  <2>5. todo' \in [Request -> Seq(Labels)]
    BY <1>1, <2>2, <2>3
  <2>6. sent' \subseteq {q \in Request : todo'[q] # <<>> /\ Head(todo'[q]) \in Messages}
    BY <1>1, <2>2
  <2> QED
    BY <2>4, <2>5, <2>6
<1> QED
  BY <1>2, <1>3, <1>4, <1>5, StepKinds DEF Kinds

\* The count is within its bounds for being that of some requests.
LEMMA CountType ==
  CountInv /\ count \in Int /\ lost \subseteq Request => count \in 0..Cardinality(Request)
<1> SUFFICES ASSUME CountInv, count \in Int, lost \subseteq Request
             PROVE  count \in 0..Cardinality(Request)
  OBVIOUS
<1>1. Counting \subseteq Request /\ Counting \cup lost \subseteq Request
  BY DEF Counting
<1>2. /\ Cardinality(Counting) \in Nat /\ Cardinality(Request) \in Nat
      /\ Cardinality(Counting \cup lost) \in Nat
      /\ Cardinality(Counting \cup lost) <= Cardinality(Request)
  BY <1>1, FiniteRequests
<1> QED
  BY <1>2 DEF CountInv

\* The types of the channel and of what is to be sent.
LEMMA ChannelTypeStep ==
  ASSUME TypeOK, TodosInv, Next
  PROVE  /\ queue' \in Seq([op: Messages, of: Request])
         /\ spawned' \subseteq [op: {"clearIf", "disable"}, of: Request]
<1>1. /\ queue \in Seq([op: Messages, of: Request])
      /\ spawned \subseteq [op: {"clearIf", "disable"}, of: Request]
  BY DEF TypeOK
<1>2. ASSUME NEW r \in Request, TaskStep(r) \/ ClientStep(r), ~Send(r), ~Chunk(r), ~EndStream(r)
      PROVE  UNCHANGED <<queue, spawned>>
  BY <1>2 DEF TaskStep, ClientStep, Lock, Release, Count, Uncount, Undo, Resolve, Start,
     Resolved, Drop, TimeOut
<1>3. ASSUME NEW r \in Request, Send(r) \/ Chunk(r)
      PROVE  /\ queue' \in Seq([op: Messages, of: Request]) /\ spawned' = spawned
  <2>1. PICK op \in Messages : queue' = Append(queue, Message(op, r)) /\ spawned' = spawned
    BY <1>3 DEF Send, Chunk, Messages
  <2>2. Message(op, r) \in [op: Messages, of: Request]
    BY DEF Message
  <2> QED
    BY <2>1, <2>2, QueueAppend
<1>4. ASSUME NEW r \in Request, EndStream(r)
      PROVE  queue' = queue /\ spawned' \subseteq [op: {"clearIf", "disable"}, of: Request]
  BY <1>1, <1>4 DEF EndStream, Message
<1>5. ASSUME SendSpawned
      PROVE  /\ queue' \in Seq([op: Messages, of: Request]) /\ spawned' \subseteq spawned
  <2>1. PICK m \in spawned : queue' = Append(queue, m) /\ spawned' = spawned \ {m}
    BY <1>5 DEF SendSpawned
  <2>2. m \in [op: Messages, of: Request]
    BY <1>1 DEF Messages
  <2> QED
    BY <2>1, <2>2, QueueAppend
<1>6. ASSUME SpawnedTimesOut
      PROVE  queue' = queue /\ spawned' \subseteq spawned
  BY <1>6 DEF SpawnedTimesOut
<1>7. ASSUME ThreadStep
      PROVE  queue' \in Seq([op: Messages, of: Request]) /\ spawned' = spawned
  BY <1>7, AnswerWorks, QueueTail
<1> QED
  BY <1>1, <1>2, <1>3, <1>4, <1>5, <1>6, <1>7 DEF Next

\* The types of what the isolate keeps.
LEMMA StateTypeStep ==
  ASSUME TypeOK, TodosInv, Next
  PROVE  /\ slot' \in Request \cup {None}
         /\ enabled' \in BOOLEAN
         /\ restarts' \in 0 .. MaxFaults
<1>1. slot \in Request \cup {None} /\ enabled \in BOOLEAN /\ restarts \in 0 .. MaxFaults
  BY DEF TypeOK
<1>2. ASSUME ~ThreadStep
      PROVE  UNCHANGED <<slot, enabled, restarts>>
  BY <1>2 DEF Next, TaskStep, ClientStep, Lock, Release, Count, Uncount, Undo, Resolve, Start,
     Resolved, Drop, TimeOut, Send, Chunk, EndStream, SendSpawned, SpawnedTimesOut, isolate
<1>3. ASSUME Run
      PROVE  slot' \in Request \cup {None} /\ enabled' \in BOOLEAN /\ restarts' = restarts
  <2>1. /\ slot' = SlotAfter(Head(queue)) /\ queue # <<>> /\ restarts' = restarts
        /\ enabled' \in {TRUE, FALSE, enabled}
    BY <1>3 DEF Run
  <2>2. Head(queue).of \in Request
    <3>1. Head(queue) \in [op : Messages, of : Request]
      BY <2>1, QueueIs, HeadTailProperties, Zenon
    <3> QED
      BY <3>1
  <2>3. slot' \in Request \cup {None}
    BY <1>1, <2>1, <2>2 DEF SlotAfter
  <2> QED
    BY <1>1, <2>1, <2>3
<1>4. ASSUME RunFails
      PROVE  UNCHANGED <<slot, enabled, restarts>>
  BY <1>4 DEF RunFails, isolate
<1>5. ASSUME Restart
      PROVE  slot' = None /\ enabled' = FALSE /\ restarts' \in 0 .. MaxFaults
  <2>1. slot' = None /\ enabled' = FALSE /\ restarts' = restarts + 1 /\ Faults < MaxFaults
    BY <1>5 DEF Restart
  <2>2. Cardinality(lost) \in Nat /\ Cardinality(gone) \in Nat
    BY FiniteRequests DEF TypeOK
  <2>3. MaxFaults \in Nat
    BY ContextAssumption
  <2> QED
    BY <1>1, <2>1, <2>2, <2>3 DEF Faults
<1> QED
  BY <1>1, <1>2, <1>3, <1>4, <1>5 DEF ThreadStep

\* The types of the sets.
LEMMA SetsTypeStep ==
  ASSUME TypeOK, TodosInv, Next
  PROVE  /\ \A S \in {resolving', gone', misread', disturbed'} : S \subseteq Request
         /\ \A S \in {plain', overlapped'} : S \subseteq Render
<1>1. /\ resolving \subseteq Request /\ gone \subseteq Request /\ misread \subseteq Request
      /\ plain \subseteq Render
  BY DEF TypeOK
<1>2. disturbed' \subseteq Request /\ overlapped' \subseteq Render
  BY DEF Next, Record
<1>3. ASSUME NEW r \in Request, TaskStep(r) \/ ClientStep(r)
      PROVE  /\ UNCHANGED <<misread, plain>>
             /\ resolving' \subseteq resolving \cup {r} /\ gone' \subseteq gone \cup {r}
  BY <1>3 DEF TaskStep, ClientStep, Lock, Release, Count, Uncount, Undo, Resolve, Start,
     Resolved, Drop, TimeOut, Send, Chunk, EndStream, seen, streams
<1>4. ASSUME SendSpawned \/ SpawnedTimesOut
      PROVE  UNCHANGED <<misread, plain, resolving, gone>>
  BY <1>4 DEF SendSpawned, SpawnedTimesOut, seen, streams
<1>5. ASSUME ThreadStep
      PROVE  /\ UNCHANGED <<resolving, gone>> /\ misread' \subseteq Request
             /\ plain' \subseteq Render
  <2>1. PICK m \in [op : Messages, of : Request] : m = Head(queue) /\ UNCHANGED streams
    BY <1>5, AnswerWorks
  <2>2. Reads(m) \/ UNCHANGED seen
    BY <1>5, <2>1 DEF ThreadStep, Run, RunFails, Restart
  <2> QED
    BY <1>1, <2>1, <2>2 DEF Reads, seen, streams
<1> QED
  BY <1>1, <1>2, <1>3, <1>4, <1>5 DEF Next

\* The count needs its invariant, to stay at 0 or above.
LEMMA TypeStep ==
  ASSUME TypeOK, TodosInv, LostInv, CountInv, Next
  PROVE  TypeOK'
<1>1. CountInv' /\ count' \in Int /\ lost' \subseteq Request
  BY CountStep, TodoTypeStep
<1>2. (CountInv /\ count \in Int /\ lost \subseteq Request => count \in 0..Cardinality(Request))'
  BY CountType, PTL
<1>3. count' \in 0..Cardinality(Request)
  BY <1>1, <1>2
<1>4. \A S \in {resolving', gone', lost', misread', disturbed'} : S \subseteq Request
  BY <1>1, SetsTypeStep
<1> QED
  BY <1>1, <1>3, <1>4, TodoTypeStep, ChannelTypeStep, StateTypeStep, SetsTypeStep DEF TypeOK

-----------------------------------------------------------------------------
(* Who has still to clear the context.                                     *)

\* A task by itself is done with what is not sent.
LEMMA OwnStep ==
  ASSUME TypeOK, TodosInv, NEW r \in Request, TaskStep(r)
  PROVE  \/ UNCHANGED todo
         \/ \E op, n : Works(r, op, n) /\ op \in {"lock", "unlock", "count", "uncount", "undo", "resolve"}
<1>1. CASE Lock(r) \/ Release(r) \/ Undo(r) \/ Resolve(r)
  BY <1>1, TaskWorks
<1>2. CASE Count(r)
  BY <1>2, CountWorks
<1>3. CASE Uncount(r)
  BY <1>3, UncountWorks
<1>4. CASE Send(r)
  BY <1>4 DEF Send
<1> QED
  BY <1>1, <1>2, <1>3, <1>4 DEF TaskStep

\* What is in the channel stays there, but for what the thread takes.
LEMMA ChannelStep ==
  ASSUME TypeOK, TodosInv, Next, ~ThreadStep
  PROVE  /\ \A x : x \in spawned \cup ToSet(queue) =>
              x \in spawned' \cup ToSet(queue') \/ (x \in spawned /\ x.of \in lost' /\ SpawnedTimesOut)
         /\ UNCHANGED isolate
<1>1. UNCHANGED isolate
  BY DEF Next, TaskStep, ClientStep, Lock, Release, Count, Uncount, Undo, Resolve, Start,
     Resolved, Drop, TimeOut, Send, Chunk, EndStream, SendSpawned, SpawnedTimesOut
<1>2. ASSUME NEW r \in Request, TaskStep(r) \/ ClientStep(r), ~Send(r), ~Chunk(r)
      PROVE  queue' = queue /\ spawned \subseteq spawned'
  BY <1>2 DEF TaskStep, ClientStep, Lock, Release, Count, Uncount, Undo, Resolve, Start,
     Resolved, Drop, TimeOut, EndStream
<1>3. ASSUME NEW x \in [op: Messages, of: Request], queue' = Append(queue, x)
      PROVE  ToSet(queue) \cup {x} \subseteq ToSet(queue')
  <2>1. /\ queue' \in Seq([op : Messages, of : Request])
        /\ Len(queue') = Len(queue) + 1 /\ queue'[Len(queue) + 1] = x
        /\ \A i \in 1..Len(queue) : queue'[i] = queue[i]
        /\ Len(queue) \in Nat
    BY <1>3, QueueAppend, QueueIs
  <2>2. DOMAIN queue' = 1..Len(queue') /\ DOMAIN queue = 1..Len(queue)
    BY <2>1, QueueIs
  <2> QED
    BY <2>1, <2>2 DEF ToSet
<1>4. ASSUME NEW r \in Request, Send(r) \/ Chunk(r)
      PROVE  ToSet(queue) \subseteq ToSet(queue') /\ spawned' = spawned
  <2>1. PICK op \in Messages : queue' = Append(queue, Message(op, r)) /\ spawned' = spawned
    BY <1>4 DEF Send, Chunk, Messages
  <2>2. Message(op, r) \in [op: Messages, of: Request]
    BY DEF Message
  <2> QED
    BY <1>3, <2>1, <2>2
<1>5. ASSUME SendSpawned
      PROVE  \A x : x \in spawned \cup ToSet(queue) => x \in spawned' \cup ToSet(queue')
  <2>1. PICK m \in spawned : queue' = Append(queue, m) /\ spawned' = spawned \ {m}
    BY <1>5 DEF SendSpawned
  <2>2. m \in [op: Messages, of: Request]
    BY DEF TypeOK, Messages
  <2>3. ToSet(queue) \cup {m} \subseteq ToSet(queue')
    BY <1>3, <2>1, <2>2
  <2> QED
    BY <2>1, <2>3
<1>6. ASSUME SpawnedTimesOut
      PROVE  \A x : x \in spawned \cup ToSet(queue) =>
               x \in spawned' \cup ToSet(queue') \/ (x \in spawned /\ x.of \in lost')
  BY <1>6 DEF SpawnedTimesOut
<1> QED
  BY <1>1, <1>2, <1>4, <1>5, <1>6 DEF Next

\* The thread takes the first message of the channel.
LEMMA ChannelTail ==
  ASSUME TypeOK, queue # <<>>, queue' = Tail(queue)
  PROVE  \A x : x \in ToSet(queue) => x \in ToSet(queue') \/ x = Head(queue)
<1>1. /\ queue' \in Seq([op : Messages, of : Request])
      /\ Len(queue') \in Nat /\ Len(queue) = Len(queue') + 1 /\ Head(queue) = queue[1]
      /\ \A i \in 1..Len(queue') : i + 1 \in 1..Len(queue) /\ queue'[i] = queue[i + 1]
      /\ \A i \in 1..Len(queue) : i = 1 \/ i - 1 \in 1..Len(queue')
  BY QueueTail
<1>2. \A i \in 1..Len(queue) : i = 1 \/ queue[i] = queue'[i - 1]
  BY <1>1
<1>3. DOMAIN queue' = 1..Len(queue') /\ DOMAIN queue = 1..Len(queue)
  BY <1>1, QueueIs
<1>4. ASSUME NEW x \in ToSet(queue), x # Head(queue)
      PROVE  x \in ToSet(queue')
  <2>1. PICK i \in 1..Len(queue) : queue[i] = x
    BY <1>3 DEF ToSet
  <2>2. queue'[i - 1] = x /\ i - 1 \in DOMAIN queue'
    BY <1>1, <1>2, <1>3, <1>4, <2>1
  <2> QED
    BY <2>2 DEF ToSet
<1> QED
  BY <1>4

\* A context is there only as long as its task has still to clear it.
LEMMA SlotStep ==
  ASSUME TypeOK, TodosInv, MessageInv, SlotInv, Next
  PROVE  SlotInv'
<1> SUFFICES ASSUME slot' # None
             PROVE  \/ slot' \in lost' \/ Clears(todo'[slot'])
                    \/ Message("clearIf", slot') \in spawned' \cup ToSet(queue')
  <2> DEFINE m == Message("clearIf", slot)
  <2>1. m' = Message("clearIf", slot')
    BY DEF Message
  <2> QED
    BY <2>1 DEF SlotInv
<1>a. lost \subseteq lost' /\ slot \in Request \cup {None}
  BY StepKinds DEF TypeOK
<1>b. slot # None =>
        \/ slot \in lost \/ Clears(todo[slot])
        \/ Message("clearIf", slot) \in spawned \cup ToSet(queue)
  BY DEF SlotInv
<1>c. Message("clearIf", slot).of = slot
  BY DEF Message
<1>d. slot = slot' => slot \in Request
  BY <1>a
<1>1. ASSUME NEW r \in Request, TaskStep(r) \/ ClientStep(r), slot' = slot
      PROVE  Clears(todo[slot]) =>
               \/ slot \in lost' \/ Clears(todo'[slot])
               \/ Message("clearIf", slot) \in spawned'
  <2> SUFFICES ASSUME Clears(todo[slot])
               PROVE  \/ slot \in lost' \/ Clears(todo'[slot])
                      \/ Message("clearIf", slot) \in spawned'
    OBVIOUS
  <2>1. ASSUME NEW op, NEW n, Works(r, op, n), op \notin {"set", "clear", "stream"}
        PROVE  Clears(todo'[slot])
    <3>1. Clears(todo[r]) => Clears(n)
      BY <2>1 DEF Works, Moves
    <3> QED
      BY <1>1, <1>d, <2>1, <3>1, WorksIs
  <2>2. CASE UNCHANGED todo
    BY <2>2
  <2>3. CASE TaskStep(r)
    BY <2>1, <2>2, <2>3, OwnStep
  <2>4. CASE Start(r)
    BY <1>1, <1>d, <2>4, StartIs, RestsOf DEF Rests
  <2>5. CASE Chunk(r) \/ Resolved(r)
    BY <2>5 DEF Chunk, Resolved
  <2>6. CASE EndStream(r)
    <3>1. Message("clearIf", r) \in spawned'
      BY <2>6 DEF EndStream
    <3>2. \A q \in Request : q # r => todo'[q] = todo[q]
      BY <2>6, TaskWorks, WorksIs
    <3> QED
      BY <1>1, <1>d, <3>1, <3>2
  <2>7. CASE Drop(r)
    BY <1>1, <1>d, <2>7, DropIs
  <2>8. CASE TimeOut(r)
    <3>1. r \in lost'
      BY <2>8 DEF TimeOut
    <3>2. \A q \in Request : q # r => todo'[q] = todo[q]
      BY <2>8, TimeOutWorks, WorksIs
    <3> QED
      BY <1>1, <1>d, <3>1, <3>2
  <2> QED
    BY <1>1, <2>3, <2>4, <2>5, <2>6, <2>7, <2>8 DEF ClientStep
<1>2. CASE ~ThreadStep
  <2>1. slot' = slot
    BY <1>2, ChannelStep DEF isolate
  <2>2. Message("clearIf", slot) \in spawned \cup ToSet(queue) =>
          slot \in lost' \/ Message("clearIf", slot) \in spawned' \cup ToSet(queue')
    BY <1>2, <1>c, ChannelStep
  <2>3. SendSpawned \/ SpawnedTimesOut => UNCHANGED todo
    BY DEF SendSpawned, SpawnedTimesOut
  <2> QED
    BY <1>1, <1>2, <1>a, <1>b, <2>1, <2>2, <2>3 DEF Next
<1>3. CASE ThreadStep
  <2>1. PICK m \in [op : Messages, of : Request] :
           /\ queue # <<>> /\ m = Head(queue) /\ queue' = Tail(queue)
           /\ UNCHANGED <<spawned, lost>>
           /\ \/ UNCHANGED <<sent, todo>> /\ ~(m.of \in sent /\ Head(todo[m.of]) = m.op)
              \/ m.of \in sent /\ \E n : Works(m.of, m.op, n) /\ (Run => Leaves(n))
           /\ \/ Run
              \/ RunFails /\ Runs(m)
              \/ Restart
    BY <1>3, AnswerWorks
  <2>2. \A x : x \in ToSet(queue) => x \in ToSet(queue') \/ x = m
    BY <2>1, ChannelTail
  <2>3. slot' = slot /\ m.op \notin {"set", "clear"} /\ m # Message("clearIf", slot) =>
          \/ slot' \in lost' \/ Clears(todo'[slot'])
          \/ Message("clearIf", slot') \in spawned' \cup ToSet(queue')
    <3> SUFFICES ASSUME slot' = slot, m.op \notin {"set", "clear"}, m # Message("clearIf", slot),
                        Clears(todo[slot])
                 PROVE  Clears(todo'[slot])
      BY <1>b, <2>1, <2>2
    <3>1. ASSUME NEW n, Works(m.of, m.op, n)
          PROVE  Clears(todo'[slot])
      <4>1. Clears(todo[m.of]) => Clears(n)
        <5>1. m.op # "stream"
          BY DEF Messages
        <5> QED
          BY <3>1, <5>1 DEF Works, Moves
      <4> QED
        BY <1>d, <3>1, <4>1, WorksIs
    <3> QED
      BY <2>1, <3>1
  <2>4. CASE RunFails /\ Runs(m)
    <3>1. slot' = slot /\ m.op \in {"render", "fallback", "chunk"}
      BY <2>4 DEF RunFails, isolate, Runs
    <3> QED
      BY <2>3, <3>1 DEF Message
  <2>5. CASE Restart
    BY <2>5 DEF Restart
  <2>6. CASE Run
    <3>1. slot' = SlotAfter(m)
      BY <2>1, <2>6 DEF Run
    <3>2. CASE m.op = "set"
      <4>1. slot' = m.of
        BY <3>1, <3>2 DEF SlotAfter
      <4>2. 1 \in 1..Len(queue) /\ queue[1] = m
        BY <2>1, QueueTail
      <4>3. m.of \in lost \/ (m.of \in sent /\ Head(todo[m.of]) = m.op)
        BY <3>2, <4>2, QueuedAre
      <4>4. ASSUME m.of \in sent, Head(todo[m.of]) = m.op
            PROVE  Clears(todo'[m.of])
        <5>1. m.of \in Request /\ todo[m.of] # <<>> /\ todo[m.of] # <<"start">>
          BY <4>4, SentIs
        <5>2. Clears(Tail(todo[m.of]))
          BY <3>2, <4>4, <5>1, ListOf DEF Heads
        <5>3. todo' = [todo EXCEPT ![m.of] = Tail(todo[m.of])]
          BY <2>1, <2>6, <4>4 DEF Run, Answer
        <5> QED
          BY <5>1, <5>2, <5>3 DEF TypeOK
      <4> QED
        BY <1>a, <4>1, <4>3, <4>4
    <3>3. CASE m.op = "clear" \/ (m.op = "clearIf" /\ slot = m.of)
      <4>1. slot' = None
        BY <3>1, <3>3 DEF SlotAfter
      <4> QED
        BY <4>1
    <3>4. CASE m.op \notin {"set", "clear"} /\ ~(m.op = "clearIf" /\ slot = m.of)
      <4>1. slot' = slot /\ m # Message("clearIf", slot)
        BY <3>1, <3>4 DEF SlotAfter, Message
      <4> QED
        BY <2>3, <3>4, <4>1
    <3> QED
      BY <3>2, <3>3, <3>4
  <2> QED
    BY <2>1, <2>4, <2>5, <2>6
<1> QED
  BY <1>2, <1>3

-----------------------------------------------------------------------------
(* Streaming: who has still to enable and to disable it.                   *)

\* If nobody is lost the count is exact.
LEMMA CountIs ==
  ASSUME TypeOK, CountInv, lost = {}
  PROVE  count = Cardinality(Counting) /\ count \in Nat /\ IsFiniteSet(Counting)
<1>1. Counting \subseteq Request /\ Counting \cup lost = Counting
  BY DEF Counting
<1>2. IsFiniteSet(Counting) /\ Cardinality(Counting) \in Nat
  BY <1>1, FiniteRequests
<1>3. count \in Int
  <2>1. count \in 0..Cardinality(Request) /\ Cardinality(Request) \in Nat
    BY FiniteRequests DEF TypeOK
  <2> QED
    BY <2>1
<1> QED
  BY <1>1, <1>2, <1>3 DEF CountInv

\* One task counts, or another one does as well.
LEMMA CountedBy ==
  ASSUME TypeOK, CountInv, lost = {}
  PROVE  /\ count = 0 <=> Counting = {}
         /\ \A r \in Counting : count # 1 => \E q \in Counting : q # r
<1>1. count = Cardinality(Counting) /\ IsFiniteSet(Counting)
  BY CountIs
<1>2. \A r \in Counting : Cardinality(Counting \ {r}) = Cardinality(Counting) - 1
  BY <1>1, FS_RemoveElement
<1>3. \A r \in Counting : IsFiniteSet(Counting \ {r})
  BY <1>1, FS_RemoveElement
<1>4. \A r \in Counting : Counting \ {r} = {} => Cardinality(Counting \ {r}) = 0
  BY <1>3, FS_EmptySet
<1>5. count = 0 <=> Counting = {}
  BY <1>1, FS_EmptySet
<1>6. ASSUME NEW r \in Counting, count # 1
      PROVE  \E q \in Counting : q # r
  <2>1. Cardinality(Counting) # 1 /\ Cardinality(Counting) \in Nat
    BY <1>1, <1>6, CountIs
  <2>2. Counting \ {r} # {}
    BY <1>2, <1>4, <2>1
  <2> QED
    BY <2>2
<1> QED
  BY <1>5, <1>6

\* A step is one of one task, or of none.
LEMMA OneMoves ==
  ASSUME TypeOK, TodosInv, Next
  PROVE  \A q, r \in Request : todo'[q] # todo[q] /\ todo'[r] # todo[r] => q = r
<1>1. ASSUME NEW p \in Request, NEW op, NEW n, Goes(p, op, n)
      PROVE  \A q \in Request : q # p => todo'[q] = todo[q]
  BY <1>1, WorksIs DEF Goes
<1> QED
  BY <1>1, StepKinds, StartIs, DropIs DEF Kinds

\* Nobody is lost: no task is dropped or times out.
LEMMA NobodyLost ==
  ASSUME TypeOK, lost' = {}, NEW r \in Request
  PROVE  ~Drop(r) /\ ~TimeOut(r) /\ ~SpawnedTimesOut
  BY DEF Drop, TimeOut, SpawnedTimesOut

Opens(list) == list # <<>> /\ Head(list) \in {"enable", "undo"}

\* Who comes to enable streaming, or to undo that, is the first to count, or
\* its message has ended in a restart.
LEMMA OpensStep ==
  ASSUME TypeOK, TodosInv, Next, lost' = {}, NEW q \in Request,
         Opens(todo'[q]), todo'[q] # todo[q]
  PROVE  \/ Count(q) /\ count = 0 /\ Head(todo'[q]) = "enable"
         \/ /\ Restart /\ Head(todo'[q]) = "undo"
            /\ todo[q] # <<>> /\ Head(todo[q]) = "enable"
<1>r. /\ ~Opens(<<>>) /\ ~Opens(<<"stream">>)
      /\ \A n : Leaves(n) => ~Opens(n)
      /\ \A n : Puts("disable", n) => ~Opens(n)
  BY RestsOf DEF Opens, Leaves, Puts
<1>1. ASSUME NEW r \in Request, NEW op, NEW n, Works(r, op, n)
      PROVE  q = r /\ todo'[q] = n
  BY <1>1, WorksIs
<1>2. ASSUME NEW r \in Request, TaskStep(r)
      PROVE  Count(q) /\ count = 0 /\ Head(todo'[q]) = "enable"
  <2>1. CASE Lock(r) \/ Release(r) \/ Undo(r)
    <3>1. PICK op, n : Works(r, op, n) /\ Leaves(n)
      BY <2>1, TaskWorks
    <3> QED
      BY <1>1, <1>r, <3>1
  <2>2. CASE Resolve(r)
    <3>1. Works(r, "resolve", <<"stream">>)
      BY <2>2, TaskWorks
    <3> QED
      BY <1>1, <1>r, <3>1
  <2>3. CASE Count(r)
    <3>1. PICK n : Works(r, "count", n) /\ IF count = 0 THEN Puts("enable", n) ELSE Leaves(n)
      BY <2>3, CountWorks
    <3>2. q = r /\ todo'[q] = n
      BY <1>1, <3>1
    <3>3. count = 0 /\ Head(n) = "enable"
      BY <1>r, <3>1, <3>2 DEF Puts
    <3> QED
      BY <2>3, <3>2, <3>3
  <2>4. CASE Uncount(r)
    <3>1. PICK n : Works(r, "uncount", n) /\ (Puts("disable", n) \/ Leaves(n))
      BY <2>4, UncountWorks
    <3> QED
      BY <1>1, <1>r, <3>1
  <2>5. CASE Send(r)
    BY <2>5 DEF Send
  <2> QED
    BY <1>2, <2>1, <2>2, <2>3, <2>4, <2>5 DEF TaskStep
<1>3. ASSUME NEW r \in Request, ClientStep(r)
      PROVE  FALSE
  <2>1. CASE Start(r)
    <3>1. q = r /\ todo'[q] = Plan(r)
      BY <2>1, StartIs
    <3> QED
      BY <3>1, PlanOf DEF Opens
  <2>2. CASE EndStream(r)
    <3>1. Works(r, "stream", <<>>)
      BY <2>2, TaskWorks
    <3> QED
      BY <1>1, <1>r, <3>1
  <2>3. CASE Chunk(r) \/ Resolved(r)
    BY <2>3 DEF Chunk, Resolved
  <2> QED
    BY <1>3, <2>1, <2>2, <2>3, NobodyLost DEF ClientStep
<1>4. ASSUME ThreadStep
      PROVE  /\ Restart /\ Head(todo'[q]) = "undo"
             /\ todo[q] # <<>> /\ Head(todo[q]) = "enable"
  <2>1. PICK m \in [op : Messages, of : Request] :
           /\ \/ UNCHANGED todo
              \/ \E n : /\ Works(m.of, m.op, n)
                        /\ \/ Run /\ Leaves(n)
                           \/ ~Run /\ Fails(m.op, n)
           /\ \/ Run
              \/ ~Run /\ RunFails /\ Runs(m)
              \/ ~Run /\ Restart
    BY <1>4, AnswerWorks
  <2>2. PICK n : Works(m.of, m.op, n) /\ (Leaves(n) \/ (~Run /\ Fails(m.op, n)))
    BY <2>1
  <2>3. q = m.of /\ todo'[q] = n
    BY <1>1, <2>2
  <2>4. ~Run /\ Fails(m.op, n)
    BY <1>r, <2>2, <2>3
  <2>5. Head(n) = "undo" /\ m.op = "enable"
    BY <2>3, <2>4 DEF Fails, Opens
  <2>6. Restart
    BY <2>1, <2>4, <2>5 DEF Runs
  <2> QED
    BY <2>2, <2>3, <2>5, <2>6 DEF Works
<1>5. SendSpawned \/ SpawnedTimesOut => UNCHANGED todo
  BY DEF SendSpawned, SpawnedTimesOut
<1> QED
  BY <1>2, <1>3, <1>4, <1>5 DEF Next

\* A message to enable is awaited by who opens.
LEMMA EnableIs ==
  ASSUME TypeOK, TodosInv, MessageInv, lost = {}, queue # <<>>,
         Head(queue).op \in {"enable", "render"}
  PROVE  LET m == Head(queue) IN
         /\ m.of \in sent /\ m.of \in Request
         /\ todo[m.of] # <<>> /\ todo[m.of] # <<"start">> /\ Head(todo[m.of]) = m.op
<1>1. Head(queue) = queue[1] /\ 1 \in 1..Len(queue)
  <2>1. queue \in Seq([op : Messages, of : Request]) /\ Len(queue) \in Nat
    BY QueueIs
  <2> QED
    BY <2>1, EmptySeq
<1>2. Head(queue).of \in sent /\ Head(todo[Head(queue).of]) = Head(queue).op
  BY <1>1, QueuedAre
<1> QED
  BY <1>2, SentIs

\* Streaming is on, and nobody counts, has to disable it or has sent for that.
Disables ==
  \/ Counting # {} \/ \E r \in Request : At(r, "disable")
  \/ \E m \in spawned \cup ToSet(queue) : m.op = "disable"

\* A task gives its reference back: if it was the last one it disables.
LEMMA DisablesTask ==
  ASSUME TypeOK, TodosInv, CountInv, EnabledInv, Next, lost' = {}, lost = {}, enabled,
         NEW r \in Request, TaskStep(r) \/ ClientStep(r),
         Counting # {} \/ \E q \in Request : At(q, "disable")
  PROVE  \/ Counting' # {} \/ \E q \in Request : todo'[q] # <<>> /\ Head(todo'[q]) = "disable"
         \/ \E m \in spawned' : m.op = "disable"
<1>a. \A q \in Request : /\ q \in Counting <=> Counted(todo[q])
                         /\ q \in Counting' <=> Counted(todo'[q])
  BY DEF Counting
<1>1. ASSUME NEW op, NEW n, Works(r, op, n), op \notin {"uncount", "undo", "stream", "disable"}
      PROVE  Counting' # {} \/ \E q \in Request : todo'[q] # <<>> /\ Head(todo'[q]) = "disable"
  <2>1. Counted(todo[r]) => Counted(n)
    BY <1>1 DEF Works, Moves
  <2>2. /\ todo'[r] = n /\ \A q \in Request : q # r => todo'[q] = todo[q]
        /\ ~At(r, "disable")
    BY <1>1, WorksIs DEF Works, At
  <2>3. CASE Counting # {}
    <3>1. PICK q \in Request : Counted(todo[q])
      BY <2>3 DEF Counting
    <3>2. Counted(todo'[q])
      BY <2>1, <2>2, <3>1
    <3> QED
      BY <1>a, <3>2
  <2>4. CASE \E q \in Request : At(q, "disable")
    BY <2>2, <2>4 DEF At
  <2> QED
    BY <2>3, <2>4
<1>2. ASSUME NEW op \in {"uncount", "stream"}, NEW n, Works(r, op, n), count # 1
      PROVE  Counting' # {}
  <2>1. Counted(todo[r])
    BY <1>2 DEF Works, Moves
  <2>2. PICK q \in Counting : q # r
    BY <1>2, <1>a, <2>1, CountedBy
  <2>3. q \in Request /\ Counted(todo'[q])
    BY <1>2, <2>2, WorksIs DEF Counting
  <2> QED
    BY <1>a, <2>3
<1>3. CASE UNCHANGED todo
  <2>1. Counting' = Counting
    BY <1>3 DEF Counting
  <2> QED
    BY <1>3, <2>1 DEF At
<1>4. CASE TaskStep(r)
  <2>1. CASE Uncount(r)
    <3>1. PICK n : Works(r, "uncount", n) /\ (count = 1 => Puts("disable", n))
      BY <2>1, UncountWorks
    <3>2. CASE count = 1
      BY <3>1, <3>2, WorksIs DEF Puts
    <3>3. CASE count # 1
      BY <1>2, <3>1, <3>3
    <3> QED
      BY <3>2, <3>3
  <2>2. CASE Undo(r)
    BY <2>2 DEF Undo, EnabledInv
  <2>3. CASE Lock(r) \/ Release(r) \/ Count(r) \/ Resolve(r)
    BY <1>1, <2>3, TaskWorks, CountWorks
  <2>4. CASE Send(r)
    BY <1>3, <2>4 DEF Send
  <2> QED
    BY <1>4, <2>1, <2>2, <2>3, <2>4 DEF TaskStep
<1>5. CASE ClientStep(r)
  <2>1. CASE Start(r)
    <3>1. /\ ~Counted(todo[r]) /\ ~At(r, "disable")
          /\ \A q \in Request : q # r => todo'[q] = todo[q]
      BY <2>1, StartIs, RestsOf DEF Rests, At
    <3> QED
      BY <1>a, <3>1 DEF At, Counting
  <2>2. CASE EndStream(r)
    <3>1. Works(r, "stream", <<>>)
      BY <2>2, TaskWorks
    <3>2. CASE count = 1
      <4>1. Message("disable", r) \in spawned'
        BY <2>2, <3>2 DEF EndStream
      <4> QED
        BY <4>1 DEF Message
    <3>3. CASE count # 1
      BY <1>2, <3>1, <3>3
    <3> QED
      BY <3>2, <3>3
  <2>3. CASE Chunk(r) \/ Resolved(r)
    BY <1>3, <2>3 DEF Chunk, Resolved
  <2> QED
    BY <1>5, <2>1, <2>2, <2>3, NobodyLost DEF ClientStep
<1> QED
  BY <1>4, <1>5

\* The thread disables what it is told to, and the task goes on.
LEMMA DisablesThread ==
  ASSUME TypeOK, TodosInv, MessageInv, CountInv, EnabledInv, lost = {}, ThreadStep, enabled'
  PROVE  \/ Counting' # {} \/ \E q \in Request : todo'[q] # <<>> /\ Head(todo'[q]) = "disable"
         \/ \E m \in spawned' \cup ToSet(queue') : m.op = "disable"
<1>a. \A q \in Request : /\ q \in Counting <=> Counted(todo[q])
                         /\ q \in Counting' <=> Counted(todo'[q])
  BY DEF Counting
<1>1. PICK m \in [op : Messages, of : Request] :
           /\ queue # <<>> /\ m = Head(queue) /\ queue' = Tail(queue)
           /\ UNCHANGED <<spawned, lost>>
           /\ \/ UNCHANGED todo
              \/ \E n : Works(m.of, m.op, n)
           /\ \/ Run
              \/ RunFails /\ Runs(m)
              \/ Restart
  BY AnswerWorks
<1>2. \A x : x \in ToSet(queue) => x \in ToSet(queue') \/ x = m
  BY <1>1, ChannelTail
<1>3. m.op # "disable" /\ (enabled \/ m.op = "enable")
  BY <1>1 DEF Run, RunFails, Restart, isolate, Runs
<1>4. ASSUME NEW q \in Request, Counted(todo[q])
      PROVE  q \in Counting'
  <2>1. ASSUME NEW n, Works(m.of, m.op, n)
        PROVE  Counted(todo'[q])
    <3>1. m.op \notin {"count", "uncount", "undo", "stream"}
      BY DEF Messages
    <3>2. Counted(todo[m.of]) => Counted(n)
      BY <2>1, <3>1 DEF Works, Moves
    <3> QED
      BY <1>4, <2>1, <3>2, WorksIs
  <2> QED
    BY <1>1, <1>a, <1>4, <2>1
<1>5. CASE m.op = "enable"
  <2>1. m.of \in Request /\ todo[m.of] # <<>> /\ todo[m.of] # <<"start">> /\ Head(todo[m.of]) = "enable"
    BY <1>1, <1>5, EnableIs
  <2>2. Counted(todo[m.of])
    BY <2>1, ListOf DEF Heads
  <2> QED
    BY <1>4, <2>1, <2>2
<1>6. CASE m.op # "enable"
  <2>1. Disables
    BY <1>3, <1>6 DEF EnabledInv, Disables
  <2>2. CASE Counting # {}
    BY <1>4, <2>2 DEF Counting
  <2>3. CASE \E q \in Request : At(q, "disable")
    <3>1. PICK q \in Request : At(q, "disable")
      BY <2>3
    <3>2. todo'[q] = todo[q]
      <4>1. ASSUME NEW n, Works(m.of, m.op, n)
            PROVE  q # m.of /\ todo'[q] = todo[q]
        BY <1>3, <3>1, <4>1, WorksIs DEF Works, At
      <4> QED
        BY <1>1, <4>1
    <3> QED
      BY <3>1, <3>2 DEF At
  <2>4. CASE \E x \in spawned \cup ToSet(queue) : x.op = "disable"
    BY <1>1, <1>2, <1>3, <2>4
  <2> QED
    BY <2>1, <2>2, <2>3, <2>4 DEF Disables
<1> QED
  BY <1>5, <1>6

\* Streaming is on only as long as someone has still to disable it.
LEMMA EnabledStep ==
  ASSUME TypeOK, TodosInv, MessageInv, CountInv, EnabledInv, Next
  PROVE  EnabledInv'
<1> SUFFICES ASSUME lost' = {}
             PROVE  /\ enabled' =>
                         \/ Counting' # {}
                         \/ \E q \in Request : todo'[q] # <<>> /\ Head(todo'[q]) = "disable"
                         \/ \E m \in spawned' \cup ToSet(queue') : m.op = "disable"
                    /\ \A r \in Request :
                         todo'[r] # <<>> /\ Head(todo'[r]) = "undo" => ~enabled'
                    /\ \A q, r \in Request : Opens(todo'[q]) /\ Opens(todo'[r]) => q = r
  BY DEF EnabledInv, At, Opens
<1>0. lost = {}
  BY StepKinds
<1>a. /\ \A r \in Request : todo[r] # <<>> /\ Head(todo[r]) = "undo" => ~enabled
      /\ \A q, r \in Request : Opens(todo[q]) /\ Opens(todo[r]) => q = r
      /\ enabled => Disables
  BY <1>0 DEF EnabledInv, At, Opens, Disables
<1>1. enabled' => \/ Counting' # {}
                  \/ \E q \in Request : todo'[q] # <<>> /\ Head(todo'[q]) = "disable"
                  \/ \E m \in spawned' \cup ToSet(queue') : m.op = "disable"
  <2>1. CASE ThreadStep
    BY <1>0, <2>1, DisablesThread
  <2>2. CASE ~ThreadStep
    <3> SUFFICES ASSUME enabled
                 PROVE  \/ Counting' # {}
                        \/ \E q \in Request : todo'[q] # <<>> /\ Head(todo'[q]) = "disable"
                        \/ \E m \in spawned' \cup ToSet(queue') : m.op = "disable"
      BY <2>2, ChannelStep DEF isolate
    <3>1. CASE \E m \in spawned \cup ToSet(queue) : m.op = "disable"
      BY <2>2, <3>1, ChannelStep
    <3>2. CASE Counting # {} \/ \E q \in Request : At(q, "disable")
      <4>1. SendSpawned \/ SpawnedTimesOut => UNCHANGED todo
        BY DEF SendSpawned, SpawnedTimesOut
      <4>2. UNCHANGED todo => Counting' # {} \/ \E q \in Request : todo'[q] # <<>> /\ Head(todo'[q]) = "disable"
        BY <3>2 DEF At, Counting
      <4> QED
        BY <1>0, <2>2, <3>2, <4>1, <4>2, DisablesTask DEF Next
    <3> QED
      BY <1>a, <3>1, <3>2 DEF Disables
  <2> QED
    BY <2>1, <2>2
<1>2. ASSUME NEW r \in Request, todo'[r] # <<>>, Head(todo'[r]) = "undo"
      PROVE  ~enabled'
  <2>1. Opens(todo'[r])
    BY <1>2 DEF Opens
  <2>2. CASE todo'[r] = todo[r]
    <3>1. ~enabled /\ Opens(todo[r])
      BY <1>2, <1>a, <2>1, <2>2
    <3>2. CASE ThreadStep
      <4>1. /\ queue # <<>>
            /\ Head(queue).op # "enable" => enabled' = FALSE \/ enabled' = enabled
        BY <3>2 DEF ThreadStep, Run, RunFails, Restart, isolate
      <4>2. Head(queue).op # "enable"
        <5>1. SUFFICES ASSUME Head(queue).op = "enable" PROVE FALSE
          OBVIOUS
        <5> DEFINE p == Head(queue).of
        <5>2. p \in Request /\ todo[p] # <<>> /\ Head(todo[p]) = "enable"
          BY <1>0, <4>1, <5>1, EnableIs
        <5> HIDE DEF p
        <5>3. p = r
          BY <1>a, <3>1, <5>2 DEF Opens
        <5> QED
          BY <1>2, <2>2, <5>2, <5>3
      <4> QED
        BY <3>1, <4>1, <4>2, Zenon
    <3>3. CASE ~ThreadStep
      BY <3>1, <3>3, ChannelStep DEF isolate
    <3> QED
      BY <3>2, <3>3
  <2>3. CASE todo'[r] # todo[r]
    <3>1. Restart
      BY <1>2, <2>1, <2>3, OpensStep
    <3> QED
      BY <3>1 DEF Restart
  <2> QED
    BY <2>2, <2>3
<1>3. ASSUME NEW q \in Request, NEW r \in Request, Opens(todo'[q]), Opens(todo'[r]),
             todo'[q] # todo[q]
      PROVE  q = r
  <2> SUFFICES ASSUME q # r
               PROVE  FALSE
    OBVIOUS
  <2>1. todo'[r] = todo[r]
    BY <1>3, OneMoves
  <2>2. Opens(todo[r])
    BY <1>3, <2>1
  <2>3. CASE count = 0
    <3>1. Counted(todo[r])
      <4>1. todo[r] # <<>> /\ todo[r] # <<"start">> /\ Head(todo[r]) \in {"enable", "undo"}
        BY <2>2, RestsOf DEF Opens
      <4> QED
        BY <4>1, ListOf DEF Heads
    <3> QED
      BY <1>0, <2>3, <3>1, CountedBy DEF Counting
  <2>4. CASE todo[q] # <<>> /\ Head(todo[q]) = "enable"
    BY <1>a, <2>2, <2>4 DEF Opens
  <2> QED
    BY <1>3, <2>3, <2>4, OpensStep
<1>4. \A q, r \in Request : Opens(todo'[q]) /\ Opens(todo'[r]) => q = r
  BY <1>a, <1>3
<1> QED
  BY <1>1, <1>2, <1>4

-----------------------------------------------------------------------------
(* Renders that others overlap, and those that find streaming disabled.    *)

\* Who has begun is active,
LEMMA BusyIsActive ==
  ASSUME NEW r \in Request, todo[r] # <<>>, todo[r] # <<"start">>
  PROVE  Active(r)
  BY DEF Active

\* ... also after the step.
LEMMA BusyWillBeActive ==
  ASSUME NEW r \in Request, todo'[r] # <<>>, todo'[r] # <<"start">>
  PROVE  Active(r)'
  BY DEF Active

\* Who counts is a render, and is at work.
LEMMA CountedIs ==
  ASSUME TodosInv, NEW r \in Request, Counted(todo[r])
  PROVE  r \in Render /\ Active(r) /\ todo[r] # <<>> /\ todo[r] # <<"start">>
<1>1. todo[r] # <<>> /\ todo[r] # <<"start">>
  BY RestsOf DEF Rests
<1> QED
  BY <1>1, ListOf, BusyIsActive

\* Only who counts himself comes to be counted.
LEMMA NewlyCounted ==
  ASSUME TypeOK, TodosInv, Next, NEW r \in Request, Counted(todo'[r]), ~Counted(todo[r])
  PROVE  Count(r)
<1>1. ASSUME NEW p \in Request, NEW op, NEW n, Works(p, op, n), op # "count"
      PROVE  FALSE
  <2>1. Counted(n) => Counted(todo[p])
    BY <1>1 DEF Works, Moves
  <2> QED
    BY <1>1, <2>1, WorksIs
<1>2. ASSUME NEW p \in Request, TaskStep(p)
      PROVE  Count(r)
  <2>1. CASE Lock(p) \/ Release(p) \/ Undo(p) \/ Resolve(p)
    BY <1>1, <2>1, TaskWorks
  <2>2. CASE Count(p)
    <3>1. \A q \in Request : q # p => todo'[q] = todo[q]
      BY <2>2, CountWorks, WorksIs
    <3> QED
      BY <2>2, <3>1
  <2>3. CASE Uncount(p)
    BY <1>1, <2>3, UncountWorks
  <2>4. CASE Send(p)
    BY <2>4 DEF Send
  <2> QED
    BY <1>2, <2>1, <2>2, <2>3, <2>4 DEF TaskStep
<1>3. ASSUME NEW p \in Request, ClientStep(p)
      PROVE  FALSE
  <2>1. CASE Start(p)
    BY <2>1, StartIs, PlanOf
  <2>2. CASE Chunk(p) \/ Resolved(p)
    BY <2>2 DEF Chunk, Resolved
  <2>3. CASE EndStream(p)
    BY <1>1, <2>3, TaskWorks
  <2>4. CASE Drop(p)
    BY <2>4, DropIs, RestsOf DEF Rests
  <2>5. CASE TimeOut(p)
    <3>1. "count" \notin Messages
      BY DEF Messages
    <3> QED
      BY <1>1, <2>5, <3>1, TimeOutWorks
  <2> QED
    BY <1>3, <2>1, <2>2, <2>3, <2>4, <2>5 DEF ClientStep
<1>4. SendSpawned \/ SpawnedTimesOut => UNCHANGED todo
  BY DEF SendSpawned, SpawnedTimesOut
<1>5. ASSUME ThreadStep
      PROVE  FALSE
  <2>1. PICK m \in [op : Messages, of : Request] :
           UNCHANGED todo \/ \E n : Works(m.of, m.op, n)
    BY <1>5, AnswerWorks
  <2>2. m.op # "count" /\ m.of \in Request
    BY DEF Messages
  <2> QED
    BY <1>1, <2>1, <2>2
<1> QED
  BY <1>2, <1>3, <1>4, <1>5 DEF Next

\* What the mutex keeps apart is not in it together.
LEMMA NotTogether ==
  ASSUME TodosInv, LockInv, NEW q \in Request, NEW r \in Request,
         InLock(todo[q]), InLock(todo[r])
  PROVE  q = r
  BY DEF LockInv

\* A render that no other overlaps has enabled streaming itself.
LEMMA OverlapStep ==
  ASSUME TypeOK, TodosInv, LockInv, MessageInv, CountInv, OverlapInv, Next
  PROVE  OverlapInv'
<1>a. lost' = {} => lost = {}
  BY StepKinds
<1>b. Record
  BY DEF Next
<1>1. ASSUME NEW r \in Render, Active(r)', r \notin overlapped'
      PROVE  /\ r \notin overlapped /\ restarts' = restarts
             /\ \A q \in Render : Active(q)' => Apart(q, r)
  BY <1>1, <1>b DEF Record
<1>2. ASSUME NEW r \in Render, Active(r)', r \notin overlapped',
             lost' = {}, Counted(todo'[r])
      PROVE  enabled' \/ (todo'[r] # <<>> /\ Head(todo'[r]) = "enable")
  <2>0. /\ r \in Request /\ lost = {} /\ r \notin overlapped /\ restarts' = restarts
        /\ \A q \in Render : Active(q)' => Apart(q, r)
    BY <1>1, <1>2, <1>a DEF Render, Request
  <2>1. CASE Counted(todo[r])
    <3>1. /\ Active(r) /\ (enabled \/ At(r, "enable"))
          /\ \A q \in Render : Active(q) => Apart(q, r)
      <4>1. Active(r)
        BY <2>0, <2>1, CountedIs
      <4> QED
        BY <2>0, <2>1, <4>1 DEF OverlapInv
    <3>2. CASE ThreadStep
      <4>1. PICK m \in [op : Messages, of : Request] :
              /\ queue # <<>> /\ m = Head(queue)
              /\ UNCHANGED todo \/ \E n : Works(m.of, m.op, n)
              /\ \/ Run
                 \/ RunFails /\ Runs(m)
                 \/ Restart
        BY <3>2, AnswerWorks
      <4>2. ~Restart
        <5>1. restarts \in Nat
          BY DEF TypeOK
        <5> QED
          BY <2>0, <5>1 DEF Restart
      <4>3. CASE m.op = "enable" /\ Run
        BY <4>1, <4>3 DEF Run
      <4>4. CASE m.op = "disable" /\ Run
        <5>1. m.of \in Render /\ Active(m.of) /\ m.of # r /\ (Locks(m.of) => InLock(todo[m.of]))
          <6>1. 1 \in 1..Len(queue) /\ queue[1] = m
            <7>1. queue \in Seq([op : Messages, of : Request]) /\ Len(queue) \in Nat
              BY QueueIs
            <7> QED
              BY <4>1, <7>1, EmptySeq
          <6>2. Active(m.of)
            <7>1. 1 \in DOMAIN queue
              BY <6>1, QueueIs
            <7> QED
              BY <6>1, <7>1 DEF Active
          <6>3. \/ m.of \in Streamed /\ todo[m.of] = <<>>
                \/ m.of \in sent /\ Head(todo[m.of]) = "disable"
            BY <2>0, <4>4, <6>1, QueuedAre
          <6>4. CASE m.of \in Streamed /\ todo[m.of] = <<>>
            <7>1. ~Counted(<<>>) /\ ~Locks(m.of)
              BY <6>4, RestsOf, KindsApart DEF Rests, Locks
            <7> QED
              BY <2>1, <6>2, <6>4, <7>1 DEF Render
          <6>5. CASE m.of \in sent /\ Head(todo[m.of]) = "disable"
            <7>1. m.of \in Request /\ todo[m.of] # <<>> /\ todo[m.of] # <<"start">>
              BY <6>5, SentIs
            <7>2. Heads(todo[m.of]) /\ (Locks(m.of) => Guards(todo[m.of]))
              BY <7>1, ListOf
            <7>3. ~Counted(todo[m.of])
              BY <6>5, <7>2 DEF Heads
            <7>4. Locks(m.of) => InLock(todo[m.of])
              BY <6>5, <7>2 DEF Guards
            <7>5. m.of \in Render
              BY <6>5, <7>1, ListOf
            <7> QED
              BY <2>1, <6>2, <7>3, <7>4, <7>5
          <6> QED
            BY <6>3, <6>4, <6>5
        <5>2. Locks(m.of) /\ Locks(r)
          BY <3>1, <5>1 DEF Apart
        <5>3. InLock(todo[r])
          <6>1. todo[r] # <<>> /\ todo[r] # <<"start">>
            BY <2>0, <2>1, CountedIs
          <6> QED
            BY <2>0, <2>1, <5>2, <6>1, ListOf DEF Guards
        <5> QED
          BY <2>0, <5>1, <5>2, <5>3, NotTogether
      <4>5. CASE ~(m.op \in {"enable", "disable"} /\ Run)
        <5>1. enabled' = enabled
          BY <4>1, <4>2, <4>5 DEF Run, RunFails, isolate
        <5>2. m.op # "enable"
          BY <4>1, <4>2, <4>5 DEF Runs
        <5>3. CASE At(r, "enable")
          <6>1. todo'[r] = todo[r]
            <7>1. ASSUME NEW n, Works(m.of, m.op, n)
                  PROVE  todo'[r] = todo[r]
              BY <2>0, <5>2, <5>3, <7>1, WorksIs DEF Works, At
            <7> QED
              BY <4>1, <7>1
          <6> QED
            BY <5>3, <6>1 DEF At
        <5> QED
          BY <3>1, <5>1, <5>3
      <4> QED
        BY <4>3, <4>4, <4>5
    <3>3. CASE ~ThreadStep
      <4>1. enabled' = enabled
        BY <3>3, ChannelStep DEF isolate
      <4>2. CASE At(r, "enable")
        <5>1. todo[r] # <<>> /\ todo[r] # <<"start">> /\ Head(todo[r]) = "enable"
          BY <2>0, <4>2, AtIs
        <5>2. ASSUME NEW p \in Request, NEW op, NEW n, Works(p, op, n), op # "enable"
              PROVE  todo'[r] = todo[r]
          BY <2>0, <5>1, <5>2, WorksIs DEF Works
        <5>3. ASSUME NEW p \in Request, TaskStep(p)
              PROVE  todo'[r] = todo[r]
          BY <5>2, <5>3, OwnStep
        <5>4. ASSUME NEW p \in Request, ClientStep(p)
              PROVE  todo'[r] = todo[r]
          <6>1. CASE Start(p)
            BY <2>0, <5>1, <6>1, StartIs
          <6>2. CASE Chunk(p) \/ Resolved(p)
            BY <6>2 DEF Chunk, Resolved
          <6>3. CASE EndStream(p)
            BY <5>2, <6>3, TaskWorks
          <6> QED
            BY <1>2, <5>4, <6>1, <6>2, <6>3, NobodyLost DEF ClientStep
        <5>5. SendSpawned \/ SpawnedTimesOut => UNCHANGED todo
          BY DEF SendSpawned, SpawnedTimesOut
        <5>6. todo'[r] = todo[r]
          BY <3>3, <5>3, <5>4, <5>5 DEF Next
        <5> QED
          BY <5>1, <5>6
      <4> QED
        BY <3>1, <4>1, <4>2
    <3> QED
      BY <3>2, <3>3
  <2>2. CASE ~Counted(todo[r])
    <3>1. Count(r)
      BY <1>2, <2>0, <2>2, NewlyCounted
    <3>2. PICK n : Works(r, "count", n) /\ (count = 0 => Puts("enable", n))
      BY <2>0, <3>1, CountWorks
    <3>3. CASE count = 0
      BY <2>0, <3>2, <3>3, WorksIs DEF Puts
    <3>4. CASE count # 0
      <4>1. PICK q \in Counting : TRUE
        BY <2>0, <3>4, CountedBy
      <4>2. q \in Request /\ Counted(todo[q]) /\ q # r
        BY <2>2 DEF Counting
      <4>3. todo'[q] = todo[q] /\ q \in Render /\ todo[q] # <<>> /\ todo[q] # <<"start">>
        BY <2>0, <3>2, <4>2, WorksIs, CountedIs
      <4>4. Active(q)'
        BY <4>2, <4>3, BusyWillBeActive
      <4>5. Locks(q) /\ Locks(r)
        BY <2>0, <4>2, <4>3, <4>4 DEF Apart
      <4>6. InLock(todo[q])
        BY <4>2, <4>3, <4>5, ListOf DEF Guards
      <4>7. InLock(todo[r])
        <5>1. todo[r] # <<>> /\ todo[r] # <<"start">> /\ Head(todo[r]) = "count"
          BY <3>2 DEF Works
        <5> QED
          BY <2>0, <4>5, <5>1, ListOf DEF Guards
      <4> QED
        BY <2>0, <4>2, <4>6, <4>7, NotTogether
    <3> QED
      BY <3>3, <3>4
  <2> QED
    BY <2>1, <2>2
<1>3. ASSUME NEW r \in plain', lost' = {}
      PROVE  r \in overlapped'
  <2>0. lost = {} /\ r \in Render
    BY <1>3, <1>a, SetsTypeStep
  <2>1. r \in overlapped
    <3>1. CASE r \in plain
      BY <2>0, <3>1 DEF OverlapInv
    <3>2. CASE r \notin plain
      <4>1. ThreadStep
        BY <1>3, <3>2 DEF Next, TaskStep, ClientStep, Lock, Release, Count, Uncount, Undo,
           Resolve, Start, Resolved, Drop, TimeOut, Send, Chunk, EndStream, SendSpawned,
           SpawnedTimesOut, seen
      <4>2. queue # <<>> /\ (Reads(Head(queue)) \/ UNCHANGED plain)
        BY <4>1 DEF ThreadStep, Run, RunFails, Restart, seen
      <4>3. Head(queue).op = "render" /\ Head(queue).of = r /\ ~enabled
        BY <1>3, <3>2, <4>2 DEF Reads
      <4>4. todo[r] # <<>> /\ todo[r] # <<"start">> /\ Head(todo[r]) = "render" /\ r \in Request
        BY <2>0, <4>2, <4>3, EnableIs
      <4>5. Counted(todo[r]) /\ ~At(r, "enable")
        BY <2>0, <4>4, ListOf DEF At
      <4> QED
        BY <2>0, <4>3, <4>4, <4>5, BusyIsActive DEF OverlapInv
    <3> QED
      BY <3>1, <3>2
  <2> QED
    BY <1>3, <1>b, <2>0, <2>1 DEF Record
<1>4. \A r \in Render : Active(r)' /\ r \notin overlapped' =>
        /\ \A q \in Render : Active(q)' => Apart(q, r)
        /\ lost' = {} /\ Counted(todo'[r]) =>
             enabled' \/ (todo'[r] # <<>> /\ Head(todo'[r]) = "enable")
  BY <1>1, <1>2
<1> QED
  BY <1>3, <1>4 DEF OverlapInv, At

-----------------------------------------------------------------------------
(* Whose context a script of the channel will find.                        *)

Owned(found, messages, r, n) ==
  \E p \in 0..(n - 1) :
    /\ IF p = 0 THEN found = r ELSE messages[p] = Message("set", r)
    /\ \A i \in (p + 1)..(n - 1) : ~Takes(messages[i], r)

\* The definition, of the state before and after a step.
LEMMA OwnAtIs ==
  ASSUME NEW r, NEW n
  PROVE  /\ OwnAt(r, n) <=> Owned(slot, queue, r, n)
         /\ OwnAt(r, n)' <=> Owned(slot', queue', r, n)
<1>1. OwnAt(r, n) <=> Owned(slot, queue, r, n)
  BY DEF OwnAt, Owned
<1>2. OwnAt(r, n)' <=> Owned(slot', queue', r, n)
  BY DEF OwnAt, Owned
<1> QED
  BY <1>1, <1>2

\* What comes later in the channel does not matter.
LEMMA OwnedSame ==
  ASSUME NEW r, NEW n \in Nat, NEW found, NEW q, NEW k,
         \A i \in 1..(n - 1) : k[i] = q[i],
         Owned(found, q, r, n)
  PROVE  Owned(found, k, r, n)
<1>1. PICK p \in 0..(n - 1) :
        /\ IF p = 0 THEN found = r ELSE q[p] = Message("set", r)
        /\ \A i \in (p + 1)..(n - 1) : ~Takes(q[i], r)
  BY DEF Owned
<1>2. IF p = 0 THEN found = r ELSE k[p] = Message("set", r)
  BY <1>1
<1>3. \A i \in (p + 1)..(n - 1) : ~Takes(k[i], r)
  BY <1>1
<1> QED
  BY <1>2, <1>3 DEF Owned

\* A message that does not take the context, or sets it.
LEMMA OwnedMore ==
  ASSUME NEW r, NEW n \in Nat \ {0}, NEW found, NEW q,
         q[n] = Message("set", r) \/ (Owned(found, q, r, n) /\ ~Takes(q[n], r))
  PROVE  Owned(found, q, r, n + 1)
<1>1. CASE q[n] = Message("set", r)
  <2>1. n \in 0..((n + 1) - 1) /\ n # 0 /\ \A i \in (n + 1)..((n + 1) - 1) : FALSE
    OBVIOUS
  <2> QED
    BY <1>1, <2>1 DEF Owned
<1>2. CASE Owned(found, q, r, n) /\ ~Takes(q[n], r)
  <2>1. PICK p \in 0..(n - 1) :
          /\ IF p = 0 THEN found = r ELSE q[p] = Message("set", r)
          /\ \A i \in (p + 1)..(n - 1) : ~Takes(q[i], r)
    BY <1>2 DEF Owned
  <2>2. p \in 0..((n + 1) - 1) /\ \A i \in (p + 1)..((n + 1) - 1) : i \in (p + 1)..(n - 1) \/ i = n
    OBVIOUS
  <2>3. \A i \in (p + 1)..((n + 1) - 1) : ~Takes(q[i], r)
    BY <1>2, <2>1, <2>2
  <2> QED
    BY <2>1, <2>2, <2>3 DEF Owned
<1> QED
  BY <1>1, <1>2

\* The first message is taken, and found becomes find.
LEMMA OwnedTail ==
  ASSUME NEW r, NEW n \in Nat \ {0}, NEW found, NEW find, NEW q, NEW k,
         \A i \in 1..(n - 1) : k[i] = q[i + 1],
         Owned(found, q, r, n + 1),
         q[1] = Message("set", r) => find = r,
         found = r /\ ~Takes(q[1], r) => find = r
  PROVE  Owned(find, k, r, n)
<1>1. PICK p \in 0..((n + 1) - 1) :
        /\ IF p = 0 THEN found = r ELSE q[p] = Message("set", r)
        /\ \A i \in (p + 1)..((n + 1) - 1) : ~Takes(q[i], r)
  BY DEF Owned
<1>2. CASE p \in {0, 1}
  <2>1. find = r
    <3>1. CASE p = 0
      <4>1. 1 \in (p + 1)..((n + 1) - 1)
        BY <3>1
      <4> QED
        BY <1>1, <3>1, <4>1
    <3>2. CASE p = 1
      BY <1>1, <3>2
    <3> QED
      BY <1>2, <3>1, <3>2
  <2>2. \A i \in (0 + 1)..(n - 1) : ~Takes(k[i], r)
    <3>1. \A i \in (0 + 1)..(n - 1) : i \in 1..(n - 1) /\ i + 1 \in (p + 1)..((n + 1) - 1)
      BY <1>2
    <3> QED
      BY <1>1, <3>1
  <2>3. 0 \in 0..(n - 1)
    OBVIOUS
  <2> QED
    BY <2>1, <2>2, <2>3 DEF Owned
<1>3. CASE p \notin {0, 1}
  <2>1. p - 1 \in 0..(n - 1) /\ p - 1 # 0 /\ p - 1 \in 1..(n - 1) /\ (p - 1) + 1 = p
    BY <1>3
  <2>2. k[p - 1] = Message("set", r)
    BY <1>1, <1>3, <2>1
  <2>3. \A i \in ((p - 1) + 1)..(n - 1) : ~Takes(k[i], r)
    <3>1. \A i \in ((p - 1) + 1)..(n - 1) : i \in 1..(n - 1) /\ i + 1 \in (p + 1)..((n + 1) - 1)
      BY <1>3
    <3> QED
      BY <1>1, <3>1
  <2> QED
    BY <2>1, <2>2, <2>3 DEF Owned
<1> QED
  BY <1>2, <1>3

-----------------------------------------------------------------------------
(* Who has still to run a script.                                          *)

Pending(list, awaits) ==
  Renders(list) /\ (Meets(list, {"set"}) => list # <<>> /\ Head(list) = "set" /\ awaits)

\* The definition, of the state before and after a step.
LEMMA RunsLaterIs ==
  ASSUME NEW r
  PROVE  /\ RunsLater(r) <=> r \in resolving \/ Pending(todo[r], r \in sent)
         /\ RunsLater(r)' <=> r \in resolving' \/ Pending(todo'[r], r \in sent')
  BY DEF RunsLater, Pending, At

\* Who has still to run a script is active.
LEMMA LaterIsActive ==
  ASSUME NEW r \in Request
  PROVE  /\ RunsLater(r) => Active(r)
         /\ RunsLater(r)' => Active(r)'
<1>1. \A l : Renders(l) => l # <<>> /\ l # <<"start">>
  BY RestsOf DEF Rests
<1>2. RunsLater(r) => Active(r)
  BY <1>1, RunsLaterIs DEF Pending, Active
<1>3. RunsLater(r)' => Active(r)'
  BY <1>1, RunsLaterIs DEF Pending, Active
<1> QED
  BY <1>2, <1>3

\* A task that goes on has had to run what it has to run now.
LEMMA WorksLater ==
  ASSUME TypeOK, TodosInv, NEW r \in Request, NEW op, NEW n, Works(r, op, n),
         op # "set", Pending(n, FALSE)
  PROVE  RunsLater(r)
<1>1. Renders(n) /\ ~Meets(n, {"set"})
  BY DEF Pending
<1>2. Renders(todo[r]) /\ ~Meets(todo[r], {"set"})
  BY <1>1 DEF Works, Moves
<1> QED
  BY <1>2, RunsLaterIs DEF Pending

\* A task that comes to run a script has sent its context.
LEMMA RunsLaterTask ==
  ASSUME TypeOK, TodosInv, NEW r \in Request, NEW p \in Request, TaskStep(p), RunsLater(r)'
  PROVE  RunsLater(r) \/ (Send(r) /\ At(r, "set"))
<1>1. CASE Resolve(p)
  <2>1. Works(p, "resolve", <<"stream">>) /\ resolving' = resolving \cup {p} /\ sent' = sent
    BY <1>1, TaskWorks DEF Resolve
  <2>2. CASE r = p
    <3>1. todo[r] # <<>> /\ todo[r] # <<"start">> /\ Head(todo[r]) = "resolve"
      BY <2>1, <2>2 DEF Works
    <3>2. Renders(todo[r]) /\ ~Meets(todo[r], {"set"})
      BY <3>1, ListOf DEF Heads
    <3> QED
      BY <3>2, RunsLaterIs DEF Pending
  <2>3. CASE r # p
    BY <2>1, <2>3, WorksIs, RunsLaterIs
  <2> QED
    BY <2>2, <2>3
<1>2. CASE Send(p)
  <2>1. UNCHANGED <<todo, resolving>> /\ sent' = sent \cup {p}
    BY <1>2 DEF Send, streams
  <2>2. CASE r = p
    BY <1>2, <2>1, <2>2, RunsLaterIs DEF Pending, At
  <2>3. CASE r # p
    BY <2>1, <2>3, RunsLaterIs
  <2> QED
    BY <2>2, <2>3
<1>3. CASE ~Resolve(p) /\ ~Send(p)
  <2>1. UNCHANGED <<resolving, sent>>
    BY <1>3 DEF TaskStep, Lock, Release, Count, Uncount, Undo, streams
  <2>2. PICK op, n : /\ Works(p, op, n)
                     /\ op \in {"lock", "unlock", "count", "uncount", "undo"}
    <3>1. CASE Lock(p) \/ Release(p) \/ Undo(p)
      BY <3>1, TaskWorks
    <3>2. CASE Count(p) \/ Uncount(p)
      BY <3>2, CountWorks, UncountWorks
    <3> QED
      BY <1>3, <3>1, <3>2 DEF TaskStep
  <2>3. p \notin sent /\ op # "set"
    BY <2>2, NotSent DEF Messages
  <2>4. CASE r = p
    <3>1. r \in resolving \/ Pending(n, FALSE)
      BY <2>1, <2>2, <2>3, <2>4, WorksIs, RunsLaterIs DEF Pending
    <3> QED
      BY <2>2, <2>3, <2>4, <3>1, WorksLater, RunsLaterIs
  <2>5. CASE r # p
    BY <2>1, <2>2, <2>5, WorksIs, RunsLaterIs
  <2> QED
    BY <2>4, <2>5
<1> QED
  BY <1>1, <1>2, <1>3

\* What clients do brings no more scripts,
LEMMA RunsLaterClient ==
  ASSUME TypeOK, TodosInv, NEW r \in Request, NEW p \in Request, ClientStep(p), RunsLater(r)'
  PROVE  RunsLater(r)
<1>0. resolving' \subseteq resolving
  BY DEF ClientStep, Start, Chunk, Resolved, EndStream, Drop, TimeOut, streams
<1>e. ~Renders(<<>>)
  BY RestsOf DEF Rests
<1>1. CASE Start(p)
  <2>1. /\ todo[p] = <<"start">> /\ todo'[p] = Plan(p) /\ sent' = sent
        /\ \A q \in Request : q # p => todo'[q] = todo[q]
    BY <1>1, StartIs DEF Start
  <2>2. CASE r = p
    <3>1. ~Pending(todo'[r], r \in sent')
      BY <2>1, <2>2, PlanOf, SentIs DEF Pending
    <3> QED
      BY <1>0, <3>1, RunsLaterIs
  <2>3. CASE r # p
    BY <1>0, <2>1, <2>3, RunsLaterIs
  <2> QED
    BY <2>2, <2>3
<1>2. CASE Chunk(p) \/ Resolved(p)
  BY <1>0, <1>2, RunsLaterIs DEF Chunk, Resolved
<1>3. CASE EndStream(p)
  <2>1. Works(p, "stream", <<>>) /\ sent' = sent
    BY <1>3, TaskWorks DEF EndStream
  <2> QED
    BY <1>0, <1>e, <2>1, WorksIs, RunsLaterIs DEF Pending
<1>4. CASE Drop(p)
  <2>1. sent' \subseteq sent
    BY <1>4 DEF Drop
  <2>2. todo'[p] = <<>> /\ \A q \in Request : q # p => todo'[q] = todo[q]
    BY <1>4, DropIs
  <2> QED
    BY <1>0, <1>e, <2>1, <2>2, RunsLaterIs DEF Pending
<1>5. CASE TimeOut(p)
  <2>1. sent' = sent \ {p}
    BY <1>5 DEF TimeOut
  <2>2. PICK n : Works(p, Head(todo[p]), n) /\ Fails(Head(todo[p]), n)
    BY <1>5, TimeOutWorks
  <2>3. todo'[p] = n /\ \A q \in Request : q # p => todo'[q] = todo[q]
    BY <2>2, WorksIs
  <2>4. CASE r = p
    <3>1. r \in resolving \/ Pending(n, FALSE)
      BY <1>0, <2>1, <2>3, <2>4, RunsLaterIs DEF Pending
    <3>2. Pending(n, FALSE) => Head(todo[p]) # "set"
      BY <2>2 DEF Fails, Pending
    <3> QED
      BY <2>2, <2>4, <3>1, <3>2, WorksLater, RunsLaterIs
  <2>5. CASE r # p
    BY <1>0, <2>1, <2>3, <2>5, RunsLaterIs DEF Pending
  <2> QED
    BY <2>4, <2>5
<1> QED
  BY <1>1, <1>2, <1>3, <1>4, <1>5 DEF ClientStep

\* ... nor does the thread.
LEMMA RunsLaterThread ==
  ASSUME TypeOK, TodosInv, NEW r \in Request, ThreadStep, RunsLater(r)'
  PROVE  RunsLater(r)
<1>1. PICK m \in [op : Messages, of : Request] :
           /\ UNCHANGED resolving
           /\ \/ UNCHANGED <<sent, todo>>
              \/ /\ m.of \in sent /\ sent' = sent \ {m.of}
                 /\ \E n : Works(m.of, m.op, n)
  BY AnswerWorks DEF streams
<1>2. CASE UNCHANGED <<sent, todo>>
  BY <1>1, <1>2, RunsLaterIs
<1>3. CASE m.of \in sent /\ sent' = sent \ {m.of} /\ \E n : Works(m.of, m.op, n)
  <2>1. PICK n : Works(m.of, m.op, n)
    BY <1>3
  <2>2. todo'[m.of] = n /\ \A q \in Request : q # m.of => todo'[q] = todo[q]
    BY <2>1, WorksIs
  <2>3. CASE r = m.of
    <3>1. r \in resolving \/ Pending(n, FALSE)
      BY <1>1, <1>3, <2>2, <2>3, RunsLaterIs DEF Pending
    <3>2. CASE Pending(n, FALSE) /\ m.op = "set"
      <4>1. Renders(todo[r]) /\ todo[r] # <<>> /\ Head(todo[r]) = "set"
        BY <2>1, <2>3, <3>2 DEF Works, Moves, Pending
      <4> QED
        BY <1>3, <2>3, <4>1, RunsLaterIs DEF Pending
    <3>3. CASE Pending(n, FALSE) /\ m.op # "set"
      BY <2>1, <2>3, <3>3, WorksLater
    <3> QED
      BY <3>1, <3>2, <3>3, RunsLaterIs
  <2>4. CASE r # m.of
    BY <1>1, <1>3, <2>2, <2>4, RunsLaterIs DEF Pending
  <2> QED
    BY <2>3, <2>4
<1> QED
  BY <1>1, <1>2, <1>3

-----------------------------------------------------------------------------
(* A request that nothing has disturbed finds its own context.             *)

Kept(r) ==
  /\ \A n \in 1..Len(queue) : queue[n].of = r /\ Runs(queue[n]) => OwnAt(r, n)
  /\ RunsLater(r) => OwnAt(r, Len(queue) + 1)

\* The definition, of the state before and after a step.
LEMMA KeptIs ==
  ASSUME NEW r
  PROVE  /\ Kept(r) <=>
              /\ \A n \in 1..Len(queue) :
                   queue[n].of = r /\ Runs(queue[n]) => Owned(slot, queue, r, n)
              /\ RunsLater(r) => Owned(slot, queue, r, Len(queue) + 1)
         /\ Kept(r)' <=>
              /\ \A n \in 1..Len(queue') :
                   queue'[n].of = r /\ Runs(queue'[n]) => Owned(slot', queue', r, n)
              /\ RunsLater(r)' => Owned(slot', queue', r, Len(queue') + 1)
<1>1. \A n : OwnAt(r, n) <=> Owned(slot, queue, r, n)
  BY OwnAtIs
<1>2. \A n : OwnAt(r, n)' <=> Owned(slot', queue', r, n)
  BY OwnAtIs
<1>3. OwnAt(r, Len(queue) + 1)' <=> Owned(slot', queue', r, Len(queue') + 1)
  BY DEF OwnAt, Owned
<1> QED
  BY <1>1, <1>2, <1>3 DEF Kept

\* The channel and the context stay as they are.
LEMMA KeptSame ==
  ASSUME NEW r, UNCHANGED <<queue, slot>>, Kept(r), RunsLater(r)' => RunsLater(r)
  PROVE  Kept(r)'
  BY KeptIs

\* A message is appended to the channel.
LEMMA KeptAppend ==
  ASSUME TypeOK, NEW r, NEW x \in [op : Messages, of : Request],
         queue' = Append(queue, x), slot' = slot, Kept(r),
         x.of = r /\ Runs(x) => RunsLater(r),
         RunsLater(r)' => x = Message("set", r) \/ (RunsLater(r) /\ ~Takes(x, r))
  PROVE  Kept(r)'
<1>1. /\ Len(queue') = Len(queue) + 1 /\ queue'[Len(queue) + 1] = x /\ Len(queue) \in Nat
      /\ \A i \in 1..Len(queue) : queue'[i] = queue[i]
      /\ \A i \in 1..Len(queue') : i \in 1..Len(queue) \/ i = Len(queue) + 1
  BY QueueAppend, QueueIs
<1>2. /\ \A n \in 1..Len(queue) :
           queue[n].of = r /\ Runs(queue[n]) => Owned(slot, queue, r, n)
      /\ RunsLater(r) => Owned(slot, queue, r, Len(queue) + 1)
  BY KeptIs
<1>3. ASSUME NEW n \in 1..(Len(queue) + 1), Owned(slot, queue, r, n)
      PROVE  Owned(slot', queue', r, n)
  <2>1. \A i \in 1..(n - 1) : queue'[i] = queue[i]
    BY <1>1
  <2>2. n \in Nat
    BY <1>1
  <2> QED
    BY <1>3, <2>1, <2>2, OwnedSame
<1>4. ASSUME NEW n \in 1..Len(queue'), queue'[n].of = r, Runs(queue'[n])
      PROVE  Owned(slot', queue', r, n)
  <2>1. CASE n \in 1..Len(queue)
    BY <1>1, <1>2, <1>3, <1>4, <2>1
  <2>2. CASE n = Len(queue) + 1
    BY <1>1, <1>2, <1>3, <1>4, <2>2
  <2> QED
    BY <1>1, <2>1, <2>2
<1>5. ASSUME RunsLater(r)'
      PROVE  Owned(slot', queue', r, Len(queue') + 1)
  <2> DEFINE n == Len(queue')
  <2>1. n \in Nat \ {0} /\ queue'[n] = x /\ n = Len(queue) + 1 /\ n \in 1..(Len(queue) + 1)
    BY <1>1
  <2>2. queue'[n] = Message("set", r) \/ (Owned(slot', queue', r, n) /\ ~Takes(queue'[n], r))
    BY <1>2, <1>3, <1>5, <2>1
  <2> HIDE DEF n
  <2>3. Owned(slot', queue', r, n + 1)
    BY <2>1, <2>2, OwnedMore
  <2> QED
    BY <2>3 DEF n
<1> QED
  BY <1>4, <1>5, KeptIs

\* The thread takes the first message.
LEMMA KeptTail ==
  ASSUME TypeOK, NEW r, queue # <<>>, queue' = Tail(queue), Kept(r),
         RunsLater(r)' => RunsLater(r),
         queue[1] = Message("set", r) => slot' = r,
         slot = r /\ ~Takes(queue[1], r) => slot' = r
  PROVE  Kept(r)'
<1>1. /\ Len(queue') \in Nat /\ Len(queue) = Len(queue') + 1
      /\ \A i \in 1..Len(queue') : i + 1 \in 1..Len(queue) /\ queue'[i] = queue[i + 1]
  BY QueueTail
<1>2. /\ \A n \in 1..Len(queue) :
           queue[n].of = r /\ Runs(queue[n]) => Owned(slot, queue, r, n)
      /\ RunsLater(r) => Owned(slot, queue, r, Len(queue) + 1)
  BY KeptIs
<1>3. ASSUME NEW n \in 1..(Len(queue') + 1), Owned(slot, queue, r, n + 1)
      PROVE  Owned(slot', queue', r, n)
  <2>1. /\ \A i \in 1..(n - 1) : queue'[i] = queue[i + 1]
        /\ n \in Nat \ {0}
    BY <1>1
  <2> QED
    BY <1>3, <2>1, OwnedTail
<1>4. ASSUME NEW n \in 1..Len(queue'), queue'[n].of = r, Runs(queue'[n])
      PROVE  Owned(slot', queue', r, n)
  <2>1. n + 1 \in 1..Len(queue) /\ queue'[n] = queue[n + 1] /\ n \in 1..(Len(queue') + 1)
    BY <1>1
  <2>2. Owned(slot, queue, r, n + 1)
    BY <1>2, <1>4, <2>1
  <2> QED
    BY <1>3, <2>1, <2>2
<1>5. ASSUME RunsLater(r)'
      PROVE  Owned(slot', queue', r, Len(queue') + 1)
  <2>1. Len(queue') + 1 \in 1..(Len(queue') + 1)
    BY <1>1
  <2>2. Owned(slot, queue, r, (Len(queue') + 1) + 1)
    BY <1>1, <1>2, <1>5
  <2> QED
    BY <1>3, <2>1, <2>2
<1> QED
  BY <1>4, <1>5, KeptIs

\* Who is gone stays gone.
LEMMA GoneStep ==
  ASSUME Next
  PROVE  gone \subseteq gone'
<1>1. ASSUME NEW r \in Request, TaskStep(r) \/ ClientStep(r)
      PROVE  gone \subseteq gone'
  BY <1>1 DEF TaskStep, ClientStep, Lock, Release, Count, Uncount, Undo, Resolve, Start,
     Resolved, Drop, TimeOut, Send, Chunk, EndStream, streams
<1>2. SendSpawned \/ SpawnedTimesOut => gone \subseteq gone'
  BY DEF SendSpawned, SpawnedTimesOut, streams
<1>3. ThreadStep => gone \subseteq gone'
  BY DEF ThreadStep, Run, RunFails, Restart, Answer, streams
<1> QED
  BY <1>1, <1>2, <1>3 DEF Next

\* Who is not disturbed and still at work was not, and is not by this step.
LEMMA Undisturbed ==
  ASSUME Next, NEW r \in Request, r \notin disturbed' \cup gone', Active(r)'
  PROVE  /\ r \notin disturbed \cup gone
         /\ Active(r) => restarts' = restarts /\ ~Disturbs(r)
  BY GoneStep DEF Next, Record

\* What the mutex keeps apart, and what a task itself does, takes no context
\* that is still needed.
LEMMA SendTakes ==
  ASSUME TypeOK, TodosInv, LockInv, MessageInv, NEW p \in Request, NEW r \in Request,
         Send(p), RunsLater(r), Message(Head(todo[p]), p) # Message("set", r)
  PROVE  ~Takes(Message(Head(todo[p]), p), r)
<1> DEFINE op == Head(todo[p])
           x == Message(op, p)
<1>1. /\ todo[p] # <<>> /\ todo[p] # <<"start">> /\ todo[p] # <<"stream">> /\ op \in Messages
  BY RestsOf DEF Send, Messages
<1>2. Heads(todo[p]) /\ (Locks(p) => Guards(todo[p]))
  BY <1>1, ListOf
<1>3. x.of = p /\ x.op = op
  BY DEF Message
<1>4. x # Message("clearIf", r)
  BY <1>2 DEF Heads, Message
<1>5. ASSUME op \in {"set", "clear"}, Apart(p, r)
      PROVE  FALSE
  <2>1. CASE p = r
    <3>1. op = "clear"
      BY <1>5, <2>1
    <3>2. ~Renders(todo[r])
      BY <1>2, <2>1, <3>1 DEF Heads
    <3>3. r \notin resolving
      BY <1>1, <2>1, QueuedAre
    <3> QED
      BY <3>2, <3>3, RunsLaterIs DEF Pending
  <2>2. CASE p # r /\ Locks(p) /\ Locks(r)
    <3>1. InLock(todo[p])
      BY <1>2, <1>5, <2>2 DEF Guards
    <3>2. r \notin resolving
      BY <2>2, QueuedAre, KindsApart DEF Locks
    <3>3. Renders(todo[r]) /\ (Meets(todo[r], {"set"}) => Head(todo[r]) = "set")
      BY <3>2, RunsLaterIs DEF Pending
    <3>4. todo[r] # <<>> /\ todo[r] # <<"start">>
      BY <3>3, RestsOf DEF Rests
    <3>5. InLock(todo[r])
      BY <2>2, <3>3, <3>4, ListOf DEF Guards
    <3> QED
      BY <2>2, <3>1, <3>5, NotTogether
  <2> QED
    BY <1>5, <2>1, <2>2 DEF Apart
<1> HIDE DEF x
<1>6. ~Takes(x, r)
  BY <1>3, <1>4, <1>5 DEF Takes
<1> QED
  BY <1>6 DEF x

\* A step of any task keeps it,
LEMMA KeptTask ==
  ASSUME TypeOK, TodosInv, LockInv, MessageInv, NEW r \in Request, NEW p \in Request,
         TaskStep(p), Kept(r)
  PROVE  Kept(r)'
<1>1. CASE Send(p)
  <2> DEFINE x == Message(Head(todo[p]), p)
  <2>1. /\ todo[p] # <<>> /\ todo[p] # <<"start">> /\ Head(todo[p]) \in Messages
        /\ queue' = Append(queue, x) /\ slot' = slot /\ UNCHANGED <<todo, resolving>>
    BY <1>1, RestsOf DEF Send, isolate, streams, Messages
  <2>2. x \in [op : Messages, of : Request] /\ x.op = Head(todo[p]) /\ x.of = p
    BY <2>1 DEF Message
  <2>3. x.of = r /\ Runs(x) => RunsLater(r)
    <3>1. Heads(todo[p])
      BY <2>1, ListOf
    <3>2. Head(todo[p]) \in {"render", "fallback"} =>
            Renders(todo[p]) /\ ~Meets(todo[p], {"set"})
      BY <3>1 DEF Heads
    <3>3. Head(todo[p]) # "chunk"
      BY <3>1 DEF Heads
    <3> QED
      BY <2>2, <3>2, <3>3, RunsLaterIs DEF Runs, Pending
  <2>4. RunsLater(r)' => x = Message("set", r) \/ (RunsLater(r) /\ ~Takes(x, r))
    <3>1. CASE Send(r) /\ At(r, "set") /\ ~RunsLater(r)
      <4>1. p = r
        <5>1. sent' = sent \cup {p} /\ sent' = sent \cup {r} /\ r \notin sent
          BY <1>1, <3>1 DEF Send
        <5> QED
          BY <5>1
      <4> QED
        BY <3>1, <4>1 DEF At
    <3>2. CASE RunsLater(r)
      BY <1>1, <3>2, SendTakes
    <3> QED
      BY <3>1, <3>2, RunsLaterTask
  <2> HIDE DEF x
  <2> QED
    BY <2>1, <2>2, <2>3, <2>4, KeptAppend
<1>2. CASE ~Send(p)
  <2>1. UNCHANGED <<queue, slot, sent>>
    BY <1>2 DEF TaskStep, Lock, Release, Count, Uncount, Undo, Resolve, isolate
  <2>2. ~Send(r)
    BY <2>1 DEF Send
  <2> QED
    BY <2>1, <2>2, RunsLaterTask, KeptSame
<1> QED
  BY <1>1, <1>2

\* ... and what a client does,
LEMMA KeptClient ==
  ASSUME TypeOK, TodosInv, NEW r \in Request, NEW p \in Request, ClientStep(p), Kept(r)
  PROVE  Kept(r)'
<1>1. CASE Chunk(p)
  <2> DEFINE x == Message("chunk", p)
  <2>1. p \in resolving /\ queue' = Append(queue, x) /\ slot' = slot
    BY <1>1 DEF Chunk, isolate
  <2>2. x \in [op : Messages, of : Request] /\ x.op = "chunk" /\ x.of = p
    BY DEF Message, Messages
  <2>3. x.of = r => RunsLater(r)
    BY <2>1, <2>2, RunsLaterIs
  <2>4. ~Takes(x, r)
    BY <2>2 DEF Takes, Message
  <2> HIDE DEF x
  <2> QED
    BY <2>1, <2>2, <2>3, <2>4, RunsLaterClient, KeptAppend
<1>2. CASE ~Chunk(p)
  <2>1. UNCHANGED <<queue, slot>>
    BY <1>2 DEF ClientStep, Start, Resolved, EndStream, Drop, TimeOut, isolate
  <2> QED
    BY <2>1, RunsLaterClient, KeptSame
<1> QED
  BY <1>1, <1>2

\* ... and the cleanup that a stream has spawned, if its promises are resolved,
LEMMA KeptSpawned ==
  ASSUME TypeOK, TodosInv, MessageInv, NEW r \in Request, SendSpawned \/ SpawnedTimesOut, Kept(r),
         r \in resolving /\ Message("clearIf", r) \in spawned => FALSE
  PROVE  Kept(r)'
<1>0. UNCHANGED <<todo, sent, resolving, slot>>
  BY DEF SendSpawned, SpawnedTimesOut, streams, isolate
<1>1. RunsLater(r)' => RunsLater(r)
  BY <1>0, RunsLaterIs
<1>2. CASE SendSpawned
  <2>1. PICK x \in spawned : queue' = Append(queue, x)
    BY <1>2 DEF SendSpawned
  <2>2. x \in [op : {"clearIf", "disable"}, of : Request]
    BY DEF TypeOK
  <2>3. x \in [op : Messages, of : Request] /\ ~Runs(x)
    BY <2>2 DEF Runs, Messages
  <2>4. ASSUME RunsLater(r)
        PROVE  ~Takes(x, r)
    <3>1. ASSUME x = Message("clearIf", r)
          PROVE  FALSE
      <4>1. todo[r] = <<>>
        <5>1. x.of = r
          BY <3>1 DEF Message
        <5> QED
          BY <5>1, QueuedAre
      <4>2. ~Renders(todo[r])
        BY <4>1, RestsOf DEF Rests
      <4>3. r \in resolving
        BY <2>4, <4>2, RunsLaterIs DEF Pending
      <4> QED
        BY <3>1, <4>3
    <3> QED
      BY <2>2, <3>1 DEF Takes
  <2> QED
    BY <1>0, <1>1, <2>1, <2>3, <2>4, KeptAppend
<1>3. CASE SpawnedTimesOut
  <2>1. queue' = queue
    BY <1>3 DEF SpawnedTimesOut
  <2> QED
    BY <1>0, <1>1, <2>1, KeptSame
<1> QED
  BY <1>2, <1>3

\* ... and the thread, unless it disturbs the request.
LEMMA KeptThread ==
  ASSUME TypeOK, TodosInv, NEW r \in Request, ThreadStep, Kept(r),
         restarts' = restarts, ~Disturbs(r)
  PROVE  Kept(r)'
<1>1. PICK m \in [op : Messages, of : Request] :
           /\ queue # <<>> /\ m = Head(queue) /\ queue' = Tail(queue)
           /\ \/ Run
              \/ RunFails /\ Runs(m)
              \/ Restart
  BY AnswerWorks
<1>2. m = queue[1] /\ Len(queue') < Len(queue)
  BY <1>1, QueueTail
<1>3. m.op \in {"set", "clear"} => Apart(m.of, r)
  BY <1>1, <1>2 DEF Disturbs
<1>4. CASE Run
  <2>1. slot' = SlotAfter(m)
    BY <1>1, <1>4 DEF Run
  <2>2. m = Message("set", r) => slot' = r
    BY <2>1 DEF SlotAfter, Message
  <2>3. ASSUME slot = r, ~Takes(m, r)
        PROVE  slot' = r
    <3>1. CASE m.op = "set"
      BY <1>3, <2>2, <2>3, <3>1 DEF Takes
    <3>2. m.op # "clear"
      BY <1>3, <2>3 DEF Takes, Message
    <3>3. ~(m.op = "clearIf" /\ slot = m.of)
      <4>1. m.op = "clearIf" /\ m.of = r => m = Message("clearIf", r)
        BY DEF Message
      <4> QED
        BY <2>3, <4>1 DEF Takes
    <3>4. CASE m.op # "set"
      BY <2>1, <2>3, <3>2, <3>3, <3>4 DEF SlotAfter
    <3> QED
      BY <3>1, <3>4
  <2> QED
    BY <1>1, <1>2, <2>2, <2>3, RunsLaterThread, KeptTail
<1>5. CASE RunFails /\ Runs(m)
  <2>1. slot' = slot /\ m # Message("set", r)
    BY <1>5 DEF RunFails, isolate, Runs, Message
  <2> QED
    BY <1>1, <1>2, <2>1, RunsLaterThread, KeptTail
<1>6. CASE Restart
  <2>1. restarts \in Nat
    BY DEF TypeOK
  <2> QED
    BY <1>6, <2>1 DEF Restart
<1> QED
  BY <1>1, <1>4, <1>5, <1>6

\* Who meets another context was disturbed, or is gone.
LEMMA MisreadStep ==
  ASSUME TypeOK, TodosInv, ContextInv, Next
  PROVE  misread' \subseteq disturbed' \cup gone'
<1> SUFFICES ASSUME NEW r \in misread'
             PROVE  r \in disturbed' \cup gone'
  OBVIOUS
<1>1. r \in Request /\ gone \subseteq gone' /\ (r \in disturbed => r \in disturbed')
  BY SetsTypeStep, GoneStep DEF Next, Record
<1>2. CASE r \in misread
  BY <1>1, <1>2 DEF ContextInv
<1>3. CASE r \notin misread
  <2>1. ThreadStep
    BY <1>3 DEF Next, TaskStep, ClientStep, Lock, Release, Count, Uncount, Undo,
       Resolve, Start, Resolved, Drop, TimeOut, Send, Chunk, EndStream, SendSpawned,
       SpawnedTimesOut, seen
  <2>2. queue # <<>> /\ (Reads(Head(queue)) \/ UNCHANGED misread)
    BY <2>1 DEF ThreadStep, Run, RunFails, Restart, seen
  <2>3. Head(queue).of = r /\ Runs(Head(queue)) /\ slot # r
    BY <1>3, <2>2 DEF Reads
  <2>4. Head(queue) = queue[1] /\ 1 \in 1..Len(queue)
    <3>1. queue \in Seq([op : Messages, of : Request]) /\ Len(queue) \in Nat
      BY QueueIs
    <3> QED
      BY <2>2, <3>1, EmptySeq
  <2>5. ~OwnAt(r, 1)
    <3>1. \A p \in 0..(1 - 1) : p = 0
      OBVIOUS
    <3> QED
      BY <2>3, <3>1 DEF OwnAt
  <2>6. r \in disturbed \cup gone
    BY <1>1, <2>3, <2>4, <2>5 DEF ContextInv
  <2> QED
    BY <1>1, <2>6
<1> QED
  BY <1>2, <1>3

\* Only a stream whose client is gone ends before its promises.
LEMMA EndedStep ==
  ASSUME TypeOK, TodosInv, MessageInv, ContextInv, Next,
         NEW r \in resolving', Message("clearIf", r) \in spawned'
  PROVE  r \in gone'
<1>1. r \in Request /\ gone \subseteq gone'
  BY SetsTypeStep, GoneStep
<1>2. r \in resolving /\ Message("clearIf", r) \in spawned => r \in gone'
  BY <1>1 DEF ContextInv
<1>3. ASSUME NEW p \in Request, TaskStep(p) \/ ClientStep(p)
      PROVE  r \in gone'
  <2>1. CASE Resolve(p)
    <3>1. /\ spawned' = spawned /\ resolving' = resolving \cup {p} /\ At(p, "resolve")
      BY <2>1 DEF Resolve
    <3>2. Message("clearIf", r).of = r
      BY DEF Message
    <3>3. p # r
      BY <3>1, <3>2, QueuedAre DEF At
    <3> QED
      BY <1>2, <3>1, <3>3
  <2>2. CASE EndStream(p)
    <3>1. /\ resolving' = resolving
          /\ p \in resolving => p \in gone'
          /\ spawned' \subseteq spawned \cup {Message("clearIf", p), Message("disable", p)}
      BY <2>2 DEF EndStream
    <3>2. Message("clearIf", r) \in {Message("clearIf", p), Message("disable", p)} => r = p
      BY DEF Message
    <3> QED
      BY <1>2, <3>1, <3>2
  <2>3. CASE ~Resolve(p) /\ ~EndStream(p)
    <3>1. spawned' = spawned /\ resolving' \subseteq resolving
      BY <1>3, <2>3 DEF TaskStep, ClientStep, Lock, Release, Count, Uncount, Undo,
         Start, Resolved, Drop, TimeOut, Send, Chunk, streams
    <3> QED
      BY <1>2, <3>1
  <2> QED
    BY <2>1, <2>2, <2>3
<1>4. SendSpawned \/ SpawnedTimesOut => spawned' \subseteq spawned /\ resolving' = resolving
  BY DEF SendSpawned, SpawnedTimesOut, streams
<1>5. ThreadStep => spawned' = spawned /\ resolving' = resolving
  BY AnswerWorks DEF streams
<1> QED
  BY <1>2, <1>3, <1>4, <1>5 DEF Next

\* Every request that is not disturbed keeps its context.
LEMMA ContextStep ==
  ASSUME TypeOK, TodosInv, LockInv, MessageInv, ContextInv, Next
  PROVE  ContextInv'
<1>1. ASSUME NEW r \in Request, r \notin disturbed' \cup gone'
      PROVE  Kept(r)'
  <2>1. CASE ~Active(r)'
    <3>1. ~RunsLater(r)'
      BY <2>1, LaterIsActive
    <3>2. \A n \in DOMAIN queue' : queue'[n].of # r
      BY <2>1 DEF Active
    <3>3. DOMAIN queue' = 1..Len(queue')
      BY ChannelTypeStep, LenProperties
    <3> QED
      BY <3>1, <3>2, <3>3, KeptIs
  <2>2. CASE Active(r)'
    <3>1. /\ r \notin disturbed \cup gone
          /\ Active(r) => restarts' = restarts /\ ~Disturbs(r)
      BY <1>1, <2>2, Undisturbed
    <3>2. Kept(r)
      BY <3>1 DEF ContextInv, Kept
    <3>3. CASE ThreadStep
      <4>1. CASE Active(r)
        BY <3>1, <3>2, <3>3, <4>1, KeptThread
      <4>2. CASE ~Active(r)
        <5>1. ~RunsLater(r)'
          BY <3>3, <4>2, RunsLaterThread, LaterIsActive
        <5>2. \A n \in 1..Len(queue) : queue[n].of # r
          BY <4>2, QueueIs DEF Active
        <5>3. \A n \in 1..Len(queue') : queue'[n].of # r
          <6>1. queue # <<>> /\ queue' = Tail(queue)
            BY <3>3, AnswerWorks
          <6> QED
            BY <5>2, <6>1, QueueTail
        <5> QED
          BY <5>1, <5>3, KeptIs
      <4> QED
        BY <4>1, <4>2
    <3>4. CASE SendSpawned \/ SpawnedTimesOut
      <4>1. r \in resolving /\ Message("clearIf", r) \in spawned => FALSE
        BY <3>1 DEF ContextInv
      <4> QED
        BY <3>2, <3>4, <4>1, KeptSpawned
    <3> QED
      BY <3>2, <3>3, <3>4, KeptTask, KeptClient DEF Next
  <2> QED
    BY <2>1, <2>2
<1>2. \A r \in Request \ (disturbed' \cup gone') : Kept(r)'
  BY <1>1
<1> QED
  BY <1>2, MisreadStep, EndedStep DEF ContextInv, Kept, Message

-----------------------------------------------------------------------------
(* The inductive invariant, and what it says of the properties.            *)

\* At first no task has begun, and nothing is in the channel.
LEMMA InitIsOk ==
  Init => IInv
<1> SUFFICES ASSUME Init
             PROVE  IInv
  OBVIOUS
<1>1. /\ lock = None /\ count = 0 /\ sent = {} /\ queue = <<>> /\ spawned = {}
      /\ slot = None /\ enabled = FALSE /\ restarts = 0
      /\ resolving = {} /\ lost = {} /\ gone = {}
      /\ misread = {} /\ disturbed = {} /\ plain = {} /\ overlapped = {}
      /\ todo = [r \in Request |-> <<"start">>]
  BY DEF Init
<1>2. /\ \A r \in Request : todo[r] = <<"start">>
      /\ Len(queue) = 0 /\ DOMAIN queue = {}
      /\ None \notin Request
  BY <1>1, ContextAssumption
<1>3. \A r \in Request :
        /\ <<"start">> \in TodosOf(r) /\ <<"start">> \in Seq(Labels)
        /\ Rests(todo[r]) /\ todo[r] # <<>> /\ Head(todo[r]) = "start"
  BY <1>2, TodosAreLists, RestsOf
<1>4. TypeOK
  <2>1. count \in 0 .. Cardinality(Request) /\ restarts \in 0 .. MaxFaults
    BY <1>1, FiniteRequests, ContextAssumption
  <2>2. todo \in [Request -> Seq(Labels)]
    BY <1>1, <1>3
  <2>3. queue \in Seq([op: Messages, of: Request])
    BY <1>1
  <2>4. \A S \in {resolving, gone, lost, misread, disturbed} : S \subseteq Request
    BY <1>1
  <2>5. \A S \in {plain, overlapped} : S \subseteq Render
    BY <1>1
  <2>6. /\ lock \in Request \cup {None} /\ slot \in Request \cup {None}
        /\ enabled \in BOOLEAN
        /\ spawned \subseteq [op: {"clearIf", "disable"}, of: Request]
        /\ sent \subseteq {r \in Request : todo[r] # <<>> /\ Head(todo[r]) \in Messages}
    BY <1>1
  <2> QED
    BY <2>1, <2>2, <2>3, <2>4, <2>5, <2>6 DEF TypeOK
<1>5. TodosInv
  BY <1>2, <1>3 DEF TodosInv
<1>6. LockInv
  BY <1>1, <1>2, <1>3 DEF LockInv, Rests
<1>7. MessageInv
  BY <1>1, <1>2 DEF MessageInv
<1>8. LostInv
  BY <1>1 DEF LostInv
<1>9. CountInv
  <2>1. Counting = {} /\ Counting \cup lost = {}
    BY <1>1, <1>3 DEF Counting, Rests
  <2>2. Cardinality({}) = 0
    BY FS_EmptySet
  <2> QED
    BY <1>1, <2>1, <2>2 DEF CountInv
<1>10. SlotInv
  BY <1>1 DEF SlotInv
<1>11. EnabledInv
  <2>1. \A r \in Request : ~At(r, "undo") /\ ~At(r, "enable")
    BY <1>3 DEF At
  <2> QED
    BY <1>1, <2>1 DEF EnabledInv
<1>12. OverlapInv
  <2>1. \A r \in Render : ~Active(r)
    BY <1>1, <1>2 DEF Active, Render, Request
  <2> QED
    BY <1>1, <2>1 DEF OverlapInv
<1>13. ContextInv
  <2>1. \A r \in Request : ~RunsLater(r)
    BY <1>1, <1>3 DEF RunsLater, Rests
  <2> QED
    BY <1>1, <1>2, <2>1 DEF ContextInv
<1> QED
  BY <1>4, <1>5, <1>6, <1>7, <1>8, <1>9, <1>10, <1>11, <1>12, <1>13 DEF IInv

\* A step that changes nothing keeps every part.
LEMMA StutterIsOk ==
  ASSUME IInv, UNCHANGED vars
  PROVE  IInv'
<1>1. UNCHANGED <<lock, count, todo, sent, queue, spawned, slot, enabled, restarts,
                  resolving, gone, lost, misread, plain, disturbed, overlapped>>
  BY DEF vars, isolate, streams, seen
<1>2. TypeOK'
  BY <1>1 DEF IInv, TypeOK
<1>3. TodosInv' /\ LockInv' /\ LostInv'
  BY <1>1 DEF IInv, TodosInv, LockInv, LostInv
<1>4. MessageInv'
  BY <1>1 DEF IInv, MessageInv
<1>5. Counting' = Counting
  BY <1>1 DEF Counting
<1>6. CountInv' /\ SlotInv' /\ EnabledInv'
  BY <1>1, <1>5 DEF IInv, CountInv, SlotInv, EnabledInv, At, Message
<1>7. \A r \in Request : (Active(r)' <=> Active(r)) /\ (RunsLater(r)' <=> RunsLater(r))
  BY <1>1 DEF Active, RunsLater, At
<1>8. OverlapInv'
  BY <1>1, <1>7 DEF IInv, OverlapInv, At, Render, Request
<1>9. ContextInv'
  <2>1. ASSUME NEW r \in Request, NEW n
        PROVE  OwnAt(r, n)' <=> OwnAt(r, n)
    BY <1>1 DEF OwnAt, Message
  <2>2. ASSUME NEW r
        PROVE  Message("clearIf", r)' = Message("clearIf", r)
    BY DEF Message
  <2> QED
    BY <1>1, <1>7, <2>1, <2>2 DEF IInv, ContextInv
<1> QED
  BY <1>2, <1>3, <1>4, <1>6, <1>8, <1>9 DEF IInv

\* The parts are kept together.
LEMMA ContextInvariant ==
  Spec => []IInv
<1>1. ASSUME IInv, Next
      PROVE  IInv'
  <2>1. /\ TypeOK /\ TodosInv /\ LockInv /\ MessageInv /\ LostInv /\ CountInv
        /\ SlotInv /\ EnabledInv /\ OverlapInv /\ ContextInv
    BY <1>1 DEF IInv
  <2>2. TypeOK' /\ TodosInv' /\ LockInv' /\ MessageInv' /\ LostInv' /\ CountInv'
    BY <1>1, <2>1, TypeStep, TodosStep, LockStep, MessageStep, LostStep, CountStep
  <2>3. SlotInv' /\ EnabledInv' /\ OverlapInv' /\ ContextInv'
    BY <1>1, <2>1, SlotStep, EnabledStep, OverlapStep, ContextStep
  <2> QED
    BY <2>2, <2>3 DEF IInv
<1>2. IInv /\ [Next]_vars => IInv'
  BY <1>1, StutterIsOk
<1> QED
  BY <1>2, InitIsOk, PTL DEF Spec

(***************************************************************************)
(* The streaming count stays between 0 and the number of requests: it is a *)
(* usize in the code, and no error path gives a reference back twice.  The *)
(* mutex and the context have one owner at most, who is a request.         *)
(***************************************************************************)
THEOREM ContextTypeCorrect == Spec => []TypeOK
<1>1. IInv => TypeOK
  BY DEF IInv
<1> QED
  BY <1>1, ContextInvariant, PTL

(***************************************************************************)
(* A request meets another context than its own in none of its scripts,    *)
(* unless it was disturbed by one that the mutex of the renderer does not  *)
(* keep apart from it, or the client of its stream has gone away.          *)
(***************************************************************************)
THEOREM RequestsKeepContext == Spec => []OwnContext
<1>1. IInv => OwnContext
  BY DEF IInv, ContextInv, OwnContext
<1> QED
  BY <1>1, ContextInvariant, PTL

(***************************************************************************)
(* A render that nothing overlaps meets streaming enabled: a reference     *)
(* count that starts at 0 and returns to 0 between such renders.           *)
(***************************************************************************)
THEOREM StreamsFindEnabled == Spec => []StreamsAreEnabled
<1>1. IInv => StreamsAreEnabled
  BY DEF IInv, OverlapInv, StreamsAreEnabled
<1> QED
  BY <1>1, ContextInvariant, PTL

\* When all is over nobody does anything, and nothing is on its way.
LEMMA QuietIs ==
  ASSUME IInv, Quiet
  PROVE  /\ \A r \in Request : Rests(todo[r]) /\ ~At(r, "disable")
         /\ Counting = {} /\ spawned \cup ToSet(queue) = {}
<1>1. TypeOK /\ \A r \in Request : ~Active(r)
  BY DEF IInv, Quiet
<1>2. \A r \in Request :
        /\ todo[r] \in {<<>>, <<"start">>}
        /\ \A i \in DOMAIN queue : queue[i].of # r
        /\ \A m \in spawned : m.of # r
  BY <1>1 DEF Active
<1>3. \A r \in Request : Rests(todo[r]) /\ ~At(r, "disable")
  BY <1>2, RestsOf DEF At
<1>4. Counting = {}
  BY <1>3 DEF Counting, Rests
<1>5. spawned = {}
  BY <1>1, <1>2 DEF TypeOK
<1>6. ToSet(queue) = {}
  BY <1>1, <1>2, QueueIs
<1> QED
  BY <1>3, <1>4, <1>5, <1>6

(***************************************************************************)
(* When all requests are over the isolate holds no context, streaming is   *)
(* disabled and nobody is counted, but for what dropped and timed out      *)
(* tasks have left.                                                        *)
(***************************************************************************)
THEOREM NothingIsLeft == Spec => []NothingLeft
<1>1. ASSUME IInv, Quiet
      PROVE  slot \in lost \cup {None}
  <2>1. slot \in Request \cup {None}
    BY <1>1 DEF IInv, TypeOK
  <2>2. slot # None => slot \in lost \/ Clears(todo[slot])
    BY <1>1, QuietIs DEF IInv, SlotInv
  <2> QED
    BY <1>1, <2>1, <2>2, QuietIs DEF Rests
<1>2. ASSUME IInv, Quiet
      PROVE  count <= Cardinality(lost)
  <2>1. Counting \cup lost = lost
    BY <1>2, QuietIs
  <2> QED
    BY <1>2, <2>1 DEF IInv, CountInv
<1>3. ASSUME IInv, Quiet
      PROVE  enabled => lost # {}
  BY <1>3, QuietIs DEF IInv, EnabledInv
<1>4. IInv => NothingLeft
  BY <1>1, <1>2, <1>3 DEF NothingLeft
<1> QED
  BY <1>4, ContextInvariant, PTL
=============================================================================
