-------------------------- MODULE PageServingProofs --------------------------
(***************************************************************************)
(* Theorems about PageServing, for any pages, encodings, editions and      *)
(* number of tasks: its types, that what a client gets is declared as      *)
(* encoded, and that who asks after a revalidation gets no older data.     *)
(***************************************************************************)
EXTENDS PageServing, TLAPS

\* A response as it was rendered for the client, and one from the cache: the
\* client can decode it unless the entry was compressed for another.
AsRendered(r) ==
  r.declared = r.layers /\ r.layers \in {<<>>, Encoded(r.accepts)}

FromEntry(r) ==
  /\ r.clone # None /\ r.clone \in Entry /\ r.clone.header = r.clone.layers
  /\ r.clone.layers \in {<<>>, Encoded(r.accepts)} =>
       r.declared = r.layers /\ \A i \in DOMAIN r.layers : r.layers[i] = r.accepts

Label == {"idle"} \cup Serving \cup Renewing

\* What the locals r of a task are at each label.
Good(label, r) ==
  /\ label \in Serving => r.key \in Key /\ r.how = None
  /\ label \in {"keep", "store", "update"} => r.edition \in Nat
  /\ label \in {"update", "keep"} => Html(r.key)
  /\ label \in Renewing => r.route \in Route /\ r.edition \in Nat
  /\ label \in {"layout", "render", "keep"} => r.layers = <<>> /\ r.declared = <<>>
  /\ label = "store" => AsRendered(r) /\ (~Html(r.key) => r.layers = <<>>)
  /\ label = "update" => FromEntry(r) /\ r.accepts # Identity
  /\ label = "reply" => AsRendered(r) \/ FromEntry(r)

\* An entry's header is the encoding of its body.
StoredHonestly ==
  /\ stored \in [Key -> Entry \cup {None}]
  /\ \A k \in Key : stored[k] # None =>
       /\ stored[k].header = stored[k].layers
       /\ ~Html(k) => stored[k].layers = <<>> /\ stored[k].variants = {}

TasksGood ==
  /\ pc \in [Task -> Label]
  /\ task \in [Task -> Locals]
  /\ \A t \in Task : Good(pc[t], task[t])

Rest ==
  /\ streaming \in BOOLEAN
  /\ edition \in Nat /\ calls \in Nat
  /\ index \in [Route -> SUBSET Key]
  /\ layout \in [Page -> Nat \cup {None}]
  /\ floor \in [Key -> Nat] /\ raced \subseteq Key

\* The inductive invariant.
IInv == StoredHonestly /\ TasksGood /\ Rest

\* A step of task t that leaves the others where they are.
Moves(t) ==
  /\ pc' \in [Task -> Label]
  /\ task' \in [Task -> Locals]
  /\ Good(pc'[t], task'[t])
  /\ \A u \in Task \ {t} : pc'[u] = pc[u] /\ task'[u] = task[u]

-----------------------------------------------------------------------------

LEMMA MovesKeepTasks ==
  ASSUME TasksGood, NEW t \in Task, Moves(t)
  PROVE  TasksGood'
  BY DEF TasksGood, Moves

LEMMA EncodedFacts ==
  ASSUME NEW e \in Encoding \cup {Identity}
  PROVE  /\ Encoded(e) \in Seq(Encoding)
         /\ \A i \in DOMAIN Encoded(e) : Encoded(e)[i] = e
  BY DEF Encoded

\* Encoding once more for a client what was encoded for it, or not at all.
LEMMA EncodedAgain ==
  ASSUME NEW e \in Encoding \cup {Identity}, NEW s \in {<<>>, Encoded(e)}
  PROVE  /\ s \o Encoded(e) = Encoded(e) \o s
         /\ \A i \in DOMAIN (s \o Encoded(e)) : (s \o Encoded(e))[i] = e
<1>1. CASE e = Identity
  BY <1>1 DEF Encoded
<1>2. CASE e # Identity
  <2>1. Encoded(e) = <<e>>
    BY <1>2 DEF Encoded
  <2>2. CASE s = <<>>
    BY <2>1, <2>2
  <2>3. CASE s = <<e>>
    BY <2>1, <2>3
  <2> QED
    BY <2>1, <2>2, <2>3
<1> QED
  BY <1>1, <1>2

LEMMA BlankGood == Blank \in Locals /\ Good("idle", Blank)
<1>1. <<>> \in Seq(Encoding)
  OBVIOUS
<1>2. Blank \in Locals
  BY <1>1 DEF Blank, Locals
<1> QED
  BY <1>2 DEF Good, Serving, Renewing

LEMMA ResponseFacts ==
  ASSUME NEW ed \in Nat, NEW layers \in Seq(Encoding)
  PROVE  /\ Response(ed, layers) \in Entry
         /\ Response(ed, layers).header = Response(ed, layers).layers
         /\ Response(ed, layers).layers = layers
         /\ Response(ed, layers).variants = {}
  BY DEF Response, Entry

LEMMA InitIInv == Init => IInv
<1> SUFFICES ASSUME Init PROVE IInv
  OBVIOUS
<1>1. TasksGood
  BY BlankGood DEF Init, TasksGood, Label
<1>2. PICK warm \in SUBSET {k \in Key : /\ ~Html(k) /\ k.page \in Bare
                                       /\ KeyRoute(k) \notin Loading \cup NoStore} :
        /\ stored = [k \in Key |-> IF k \in warm THEN Response(0, <<>>) ELSE None]
        /\ index = Listed(warm)
  BY DEF Init
<1>3. StoredHonestly
  <2>1. <<>> \in Seq(Encoding)
    OBVIOUS
  <2> QED
    BY <1>2, <2>1, ResponseFacts DEF StoredHonestly
<1>4. index \in [Route -> SUBSET Key]
  BY <1>2 DEF Listed
<1>5. Rest
  BY <1>4 DEF Init, Rest
<1> QED
  BY <1>1, <1>3, <1>5 DEF IInv

-----------------------------------------------------------------------------
(* The steps of a request.                                                 *)

LEMMA AssembleMoves ==
  ASSUME IInv, NEW t \in Task, NEW ed \in Nat, Assemble(t, ed),
         pc[t] \in {"layout", "render", "keep"}
  PROVE  Moves(t)
<1> DEFINE r == task[t]
<1>1. r \in Locals /\ Good(pc[t], r)
  BY DEF IInv, TasksGood
<1>2. r.accepts \in Encoding \cup {Identity} /\ r.key \in Key /\ r.how = None
  BY <1>1 DEF Locals, Good, Serving
<1>3. PICK layers \in {<<>>, Encoded(r.accepts)} :
        /\ task' = [task EXCEPT ![t] = [@ EXCEPT !.edition = ed, !.layers = layers,
                                                 !.declared = layers]]
        /\ pc'[t] = "store" /\ ~Html(r.key) => layers = <<>>
  BY DEF Assemble, Goto, IInv, TasksGood
<1>4. pc' \in [Task -> Label] /\ pc'[t] \in {"store", "reply"}
      /\ \A u \in Task \ {t} : pc'[u] = pc[u]
  BY DEF Assemble, Goto, IInv, TasksGood, Label, Serving
<1>5. layers \in Seq(Encoding)
  <2>1. Encoded(r.accepts) \in Seq(Encoding)
    BY <1>2, EncodedFacts
  <2>2. <<>> \in Seq(Encoding)
    OBVIOUS
  <2> QED
    BY <2>1, <2>2
<1>6. task' \in [Task -> Locals]
  BY <1>3, <1>5, <1>1 DEF IInv, TasksGood, Locals
<1>7. /\ task'[t].edition = ed /\ task'[t].layers = layers
      /\ task'[t].declared = layers /\ task'[t].key = r.key
      /\ task'[t].how = r.how /\ task'[t].accepts = r.accepts
  BY <1>1, <1>3 DEF IInv, TasksGood, Locals
<1>8. Good(pc'[t], task'[t])
  BY <1>2, <1>3, <1>4, <1>7 DEF Good, AsRendered, Serving, Renewing
<1>9. \A u \in Task \ {t} : task'[u] = task[u]
  BY <1>3 DEF IInv, TasksGood
<1> QED
  BY <1>4, <1>6, <1>8, <1>9 DEF Moves

\* What a request does to a task alone, and leaves the rest of the state.
LEMMA RequestMoves ==
  ASSUME IInv, NEW t \in Task,
         LayoutHit(t) \/ LayoutMiss(t) \/ Render(t) \/ Stream(t) \/ Fallback(t)
           \/ RenderFails(t) \/ Answer(t)
  PROVE  Moves(t)
<1> DEFINE r == task[t]
<1>1. r \in Locals /\ Good(pc[t], r) /\ pc[t] \in Label
  BY DEF IInv, TasksGood
<1>2. r.accepts \in Encoding \cup {Identity}
  BY <1>1 DEF Locals
<1>3. edition \in Nat
  BY DEF IInv, Rest
<1>4. CASE LayoutHit(t)
  <2>1. layout[r.key.page] \in Nat
    <3>1. r.key \in Key
      BY <1>1, <1>4 DEF LayoutHit, Good, Serving
    <3> QED
      BY <1>4, <3>1 DEF LayoutHit, IInv, Rest, Key
  <2> QED
    BY <1>4, <2>1, AssembleMoves DEF LayoutHit
<1>5. CASE LayoutMiss(t)
  BY <1>1, <1>5 DEF LayoutMiss, Goto, Moves, IInv, TasksGood, Good, Label, Serving, Renewing
<1>6. ASSUME Html(r.key), pc[t] = "render", Goto(t, "keep"),
             task' = [task EXCEPT ![t].edition = edition]
      PROVE  Moves(t)
  <2>1. task' \in [Task -> Locals] /\ \A u \in Task \ {t} : task'[u] = task[u]
    BY <1>1, <1>3, <1>6 DEF IInv, TasksGood, Locals
  <2>2. pc' \in [Task -> Label] /\ pc'[t] = "keep" /\ \A u \in Task \ {t} : pc'[u] = pc[u]
    BY <1>6 DEF Goto, IInv, TasksGood, Label, Serving
  <2>3. /\ task'[t].edition = edition /\ task'[t].key = r.key /\ task'[t].how = r.how
        /\ task'[t].layers = r.layers /\ task'[t].declared = r.declared
    BY <1>1, <1>6 DEF IInv, TasksGood, Locals
  <2>4. Good("keep", task'[t])
    BY <1>1, <1>3, <1>6, <2>3 DEF Good, Serving, Renewing
  <2> QED
    BY <2>1, <2>2, <2>4 DEF Moves
<1>7. CASE Render(t)
  BY <1>3, <1>6, <1>7, AssembleMoves DEF Render
<1>8. CASE Fallback(t)
  BY <1>3, <1>6, <1>8, AssembleMoves DEF Fallback
<1>9. CASE Stream(t)
  <2>1. CASE ~streaming
    BY <1>3, <1>9, <2>1, AssembleMoves DEF Stream
  <2>2. CASE streaming
    <3>1. /\ task' = [task EXCEPT ![t] = [@ EXCEPT !.edition = edition,
                                                   !.layers = Encoded(r.accepts),
                                                   !.declared = Encoded(r.accepts)]]
          /\ Goto(t, "reply") /\ pc[t] = "render"
      BY <1>9, <2>2 DEF Stream
    <3>2. task' \in [Task -> Locals] /\ \A u \in Task \ {t} : task'[u] = task[u]
      BY <1>1, <1>2, <1>3, <3>1, EncodedFacts DEF IInv, TasksGood, Locals
    <3>3. pc' \in [Task -> Label] /\ pc'[t] = "reply" /\ \A u \in Task \ {t} : pc'[u] = pc[u]
      BY <3>1 DEF Goto, IInv, TasksGood, Label, Serving
    <3>4. /\ task'[t].layers = Encoded(r.accepts) /\ task'[t].declared = Encoded(r.accepts)
          /\ task'[t].accepts = r.accepts /\ task'[t].key = r.key /\ task'[t].how = r.how
      BY <1>1, <3>1 DEF IInv, TasksGood, Locals
    <3>5. Good("reply", task'[t])
      BY <1>1, <3>1, <3>4 DEF Good, AsRendered, Serving, Renewing
    <3> QED
      BY <3>2, <3>3, <3>5 DEF Moves
  <2> QED
    BY <2>1, <2>2 DEF IInv, Rest
<1>10. CASE RenderFails(t)
  <2>1. /\ task' = [task EXCEPT ![t] = [@ EXCEPT !.failed = TRUE, !.edition = None]]
        /\ pc[t] \in {"render", "keep"}
    BY <1>10 DEF RenderFails
  <2>2. task' \in [Task -> Locals] /\ \A u \in Task \ {t} : task'[u] = task[u]
    BY <1>1, <2>1 DEF IInv, TasksGood, Locals
  <2>3. /\ pc' \in [Task -> Label] /\ pc'[t] \in {"layout", "reply"}
        /\ \A u \in Task \ {t} : pc'[u] = pc[u]
    BY <1>10 DEF RenderFails, Goto, IInv, TasksGood, Label, Serving
  <2>4. /\ task'[t].layers = r.layers /\ task'[t].declared = r.declared
        /\ task'[t].accepts = r.accepts /\ task'[t].key = r.key /\ task'[t].how = r.how
    BY <1>1, <2>1 DEF IInv, TasksGood, Locals
  <2>5. Good(pc'[t], task'[t])
    BY <1>1, <2>1, <2>3, <2>4 DEF Good, AsRendered, Serving, Renewing
  <2> QED
    BY <2>2, <2>3, <2>5 DEF Moves
<1>11. CASE Answer(t)
  BY <1>11, BlankGood DEF Answer, Return, Goto, Moves, IInv, TasksGood, Label
<1> QED
  BY <1>4, <1>5, <1>7, <1>8, <1>9, <1>10, <1>11

\* What a hit is answered with.
LEMMA HitGood ==
  ASSUME NEW r \in Locals, NEW entry \in Entry, entry.header = entry.layers,
         r.clone = entry, entry # None, r.edition \in Nat, r.key \in Key, r.how = None,
         NEW hit \in HitAs(r, entry)
  PROVE  hit.reply \in Locals /\ Good(hit.at, hit.reply) /\ hit.at \in {"reply", "update"}
<1> DEFINE e == r.accepts
           Plain == [r EXCEPT !.layers = entry.layers, !.declared = entry.header]
           Again == [r EXCEPT !.layers = entry.layers \o Encoded(e),
                              !.declared = Encoded(e) \o entry.header]
<1>1. e \in Encoding \cup {Identity}
  BY DEF Locals
<1>2. Encoded(e) \in Seq(Encoding) /\ entry.layers \in Seq(Encoding)
  BY <1>1, EncodedFacts DEF Entry
<1>3. Plain \in Locals
  BY <1>2 DEF Locals
<1>4. /\ Plain.layers = entry.layers /\ Plain.declared = entry.layers
      /\ Plain.clone = entry /\ Plain.accepts = e /\ Plain.edition \in Nat
      /\ Plain.key \in Key /\ Plain.how = None
  BY DEF Locals
<1>5. entry.layers \in {<<>>, Encoded(e)} =>
        \A i \in DOMAIN entry.layers : entry.layers[i] = e
  <2>1. CASE entry.layers = <<>>
    BY <2>1
  <2>2. CASE entry.layers = Encoded(e)
    BY <1>1, <2>2, EncodedFacts
  <2> QED
    BY <2>1, <2>2
<1>6. FromEntry(Plain)
  BY <1>4, <1>5 DEF FromEntry
<1>7. Good("reply", Plain)
  BY <1>4, <1>6 DEF Good, Serving, Renewing
<1>8. /\ entry.layers \o Encoded(e) \in Seq(Encoding)
      /\ Encoded(e) \o entry.header \in Seq(Encoding)
  BY <1>2
<1>9. Again \in Locals
  BY <1>8 DEF Locals
<1>10. /\ Again.layers = entry.layers \o Encoded(e)
       /\ Again.declared = Encoded(e) \o entry.layers
       /\ Again.clone = entry /\ Again.accepts = e /\ Again.edition \in Nat
       /\ Again.key = r.key /\ Again.how = None
  BY DEF Locals
<1>11. FromEntry(Again)
  <2> DEFINE both == entry.layers \o Encoded(e)
  <2>1. entry.layers \in {<<>>, Encoded(e)} =>
          both = Encoded(e) \o entry.layers /\ \A i \in DOMAIN both : both[i] = e
    BY <1>1, EncodedAgain
  <2> HIDE DEF Again, both
  <2>2. Again.layers = both /\ Again.declared = Encoded(e) \o entry.layers
    BY <1>10 DEF both
  <2> QED
    BY <1>10, <2>1, <2>2 DEF FromEntry
<1>12. Good("reply", Again)
  BY <1>10, <1>11 DEF Good, Serving, Renewing
<1>13. Html(r.key) /\ e # Identity => Good("update", Again)
  BY <1>10, <1>11 DEF Good, Serving, Renewing
<1>14. \/ hit = [reply |-> Plain, at |-> "reply"]
       \/ hit = [reply |-> Again, at |-> "reply"]
       \/ Html(r.key) /\ e # Identity /\ hit = [reply |-> Again, at |-> "update"]
  BY DEF HitAs
<1> HIDE DEF Plain, Again
<1> QED
  BY <1>3, <1>7, <1>9, <1>12, <1>13, <1>14

LEMMA RequestIsMove ==
  ASSUME IInv, NEW t \in Task, NEW k \in Key, NEW e \in Encoding \cup {Identity},
         Request(t, k, e)
  PROVE  IInv'
<1> DEFINE r == [Blank EXCEPT !.key = k, !.accepts = e, !.since = floor[k]]
           hitR == [r EXCEPT !.edition = stored[k].edition, !.clone = stored[k]]
           asks == [u \in Task |-> IF Revalidating(u)
                                   THEN [task[u] EXCEPT !.met = @ \cup {k}] ELSE task[u]]
           cached == Html(k) \/ ~streaming
<1>1. r \in Locals
  BY BlankGood DEF Locals, IInv, Rest
<1>2. /\ r.key = k /\ r.accepts = e /\ r.how = None
      /\ r.layers = <<>> /\ r.declared = <<>>
  BY DEF Blank
<1>3. \A u \in Task : asks[u] \in Locals /\ Good(pc[u], asks[u])
  <2> SUFFICES ASSUME NEW u \in Task PROVE asks[u] \in Locals /\ Good(pc[u], asks[u])
    OBVIOUS
  <2>1. task[u] \in Locals /\ Good(pc[u], task[u])
    BY DEF IInv, TasksGood
  <2>2. asks[u] \in Locals
    BY <2>1 DEF Locals
  <2>3. /\ asks[u].key = task[u].key /\ asks[u].how = task[u].how
        /\ asks[u].edition = task[u].edition /\ asks[u].route = task[u].route
        /\ asks[u].layers = task[u].layers /\ asks[u].declared = task[u].declared
        /\ asks[u].accepts = task[u].accepts /\ asks[u].clone = task[u].clone
    BY <2>1 DEF Locals
  <2>4. Good(pc[u], asks[u])
    BY <2>1, <2>3 DEF Good, AsRendered, FromEntry
  <2> QED
    BY <2>2, <2>4
<1>4. ASSUME NEW x \in Locals, NEW l \in Label, Good(l, x),
             task' = [asks EXCEPT ![t] = x], Goto(t, l)
      PROVE  TasksGood'
  <2>1. \A u \in Task : task'[u] = IF u = t THEN x ELSE asks[u]
    BY <1>4
  <2>2. task' \in [Task -> Locals]
    <3>1. asks \in [Task -> Locals]
      BY <1>3
    <3> HIDE DEF asks
    <3> QED
      BY <1>4, <3>1
  <2>3. pc' \in [Task -> Label] /\ \A u \in Task : pc'[u] = IF u = t THEN l ELSE pc[u]
    BY <1>4 DEF Goto, IInv, TasksGood
  <2> HIDE DEF asks
  <2> QED
    BY <1>3, <1>4, <2>1, <2>2, <2>3 DEF TasksGood
<1>5. ASSUME cached /\ stored[k] # None PROVE TasksGood'
  <2>1. /\ stored[k] \in Entry /\ stored[k].header = stored[k].layers
        /\ stored[k].edition \in Nat
    BY <1>5 DEF IInv, StoredHonestly, Entry
  <2>2. hitR \in Locals
    BY <1>1, <2>1 DEF Locals
  <2>3. /\ hitR.clone = stored[k] /\ hitR.edition \in Nat
        /\ hitR.key \in Key /\ hitR.how = None
    <3>1. hitR = [r EXCEPT !.edition = stored[k].edition, !.clone = stored[k]]
      OBVIOUS
    <3> HIDE DEF r, hitR
    <3> QED
      BY <1>1, <1>2, <2>1, <3>1 DEF Locals
  <2>4. PICK hit \in HitAs(hitR, stored[k]) :
          task' = [asks EXCEPT ![t] = hit.reply] /\ Goto(t, hit.at)
    BY <1>5 DEF Request
  <2> HIDE DEF hitR, asks, r
  <2>5. hit.reply \in Locals /\ Good(hit.at, hit.reply) /\ hit.at \in {"reply", "update"}
    BY <1>5, <2>1, <2>2, <2>3, HitGood
  <2>6. hit.at \in Label
    BY <2>5 DEF Label, Serving
  <2> QED
    BY <1>4, <2>4, <2>5, <2>6
<1>6. ASSUME ~(cached /\ stored[k] # None) PROVE TasksGood'
  <2>1. /\ task' = [asks EXCEPT ![t] = r]
        /\ Goto(t, IF Html(k) THEN "layout" ELSE "render")
    BY <1>6 DEF Request
  <2> HIDE DEF r, asks
  <2>2. Good("layout", r) /\ Good("render", r)
    BY <1>2 DEF Good, Serving, Renewing
  <2>3. "layout" \in Label /\ "render" \in Label
    BY DEF Label, Serving
  <2>4. CASE Html(k)
    BY <1>1, <1>4, <2>1, <2>2, <2>3, <2>4
  <2>5. CASE ~Html(k)
    BY <1>1, <1>4, <2>1, <2>2, <2>3, <2>5
  <2> QED
    BY <2>4, <2>5
<1> HIDE DEF cached
<1>7. TasksGood'
  BY <1>5, <1>6
<1>8. calls' \in Nat /\ UNCHANGED <<streaming, edition, caches, promises>>
  BY DEF Request, IInv, Rest
<1> HIDE DEF r, hitR, asks
<1> QED
  BY <1>7, <1>8 DEF IInv, StoredHonestly, Rest, caches, promises

LEMMA KeepIsMove ==
  ASSUME IInv, NEW t \in Task, Keep(t)
  PROVE  IInv'
<1>1. task[t].edition \in Nat /\ pc[t] = "keep"
  BY DEF Keep, IInv, TasksGood, Good
<1>2. TasksGood'
  BY <1>1, AssembleMoves, MovesKeepTasks DEF Keep, IInv
<1>3. layout' \in [Page -> Nat \cup {None}]
  BY <1>1 DEF Keep, IInv, Rest
<1> QED
  BY <1>2, <1>3 DEF Keep, IInv, StoredHonestly, Rest, promises

LEMMA StoreIsMove ==
  ASSUME IInv, NEW t \in Task, Store(t)
  PROVE  IInv'
<1> DEFINE r == task[t]
<1>1. r \in Locals /\ Good("store", r) /\ pc[t] = "store"
  BY DEF Store, IInv, TasksGood
<1>2. /\ r.key \in Key /\ r.edition \in Nat /\ r.layers \in Seq(Encoding)
      /\ AsRendered(r) /\ (~Html(r.key) => r.layers = <<>>) /\ r.how = None
  BY <1>1 DEF Good, Serving, Locals
<1>3. StoredHonestly'
  BY <1>2, ResponseFacts DEF Store, IInv, StoredHonestly
<1>4. index' \in [Route -> SUBSET Key]
  <2>1. index \in [Route -> SUBSET Key]
    BY DEF IInv, Rest
  <2> QED
    BY <1>2, <2>1 DEF Store
<1>5. Good("reply", r)
  BY <1>2 DEF Good, Serving, Renewing
<1>6. Moves(t)
  BY <1>5 DEF Store, Goto, Moves, IInv, TasksGood, Label, Serving
<1> QED
  BY <1>3, <1>4, <1>6, MovesKeepTasks DEF Store, IInv, Rest, promises

LEMMA UpdateIsMove ==
  ASSUME IInv, NEW t \in Task, Update(t)
  PROVE  IInv'
<1> DEFINE r == task[t]
           updated == [r.clone EXCEPT !.variants = @ \cup {r.accepts}]
<1>1. r \in Locals /\ Good("update", r) /\ pc[t] = "update"
  BY DEF Update, IInv, TasksGood
<1>2. /\ r.key \in Key /\ Html(r.key) /\ FromEntry(r) /\ r.how = None
      /\ r.accepts \in Encoding
  BY <1>1 DEF Good, Serving, Locals
<1>3. r.clone \in Entry /\ r.clone.header = r.clone.layers
  BY <1>2 DEF FromEntry
<1>4. updated \in Entry /\ updated.header = updated.layers
  BY <1>2, <1>3 DEF Entry
<1>5. stored' = IF stored[r.key] = None THEN stored ELSE [stored EXCEPT ![r.key] = updated]
  BY DEF Update
<1>6. StoredHonestly'
  <2> HIDE DEF updated
  <2> QED
    BY <1>2, <1>4, <1>5 DEF IInv, StoredHonestly
<1>7. Good("reply", r)
  BY <1>2 DEF Good, Serving, Renewing
<1>8. Moves(t)
  BY <1>7 DEF Update, Goto, Moves, IInv, TasksGood, Label, Serving
<1> QED
  BY <1>6, <1>8, MovesKeepTasks DEF Update, IInv, Rest, promises

-----------------------------------------------------------------------------
(* The steps of a revalidation.                                            *)

LEMMA WithoutKeeps ==
  ASSUME IInv, NEW k \in Key, Without(k)
  PROVE  StoredHonestly' /\ index' \in [Route -> SUBSET Key]
<1>1. StoredHonestly'
  BY DEF Without, IInv, StoredHonestly
<1>2. index' \in [Route -> SUBSET Key]
  BY DEF Without, IInv, Rest
<1> QED
  BY <1>1, <1>2

LEMMA BeginMoves ==
  ASSUME IInv, NEW t \in Task, NEW r \in Route, NEW how \in {"path", "tag", "action"},
         NEW ed \in Nat, NEW label \in Renewing, Begin(t, r, how, ed, label)
  PROVE  TasksGood' /\ calls' \in Nat
<1> DEFINE x == [Blank EXCEPT !.how = how, !.route = r, !.edition = ed, !.met = Requested]
<1>1. Requested \subseteq Key
  BY DEF Requested, IInv, TasksGood, Locals
<1>2. x \in Locals
  BY <1>1, BlankGood DEF Locals
<1>3. x.route = r /\ x.edition = ed
  BY DEF Blank
<1>4. Good(label, x)
  BY <1>3 DEF Good, Serving, Renewing
<1>5. task' = [task EXCEPT ![t] = x] /\ Goto(t, label) /\ calls' = calls + 1
  BY DEF Begin
<1> HIDE DEF x
<1>6. Moves(t)
  BY <1>2, <1>4, <1>5 DEF Goto, Moves, IInv, TasksGood, Label
<1> QED
  BY <1>5, <1>6, MovesKeepTasks DEF IInv, Rest

LEMMA PromiseKeeps ==
  ASSUME IInv, NEW t \in Task, pc[t] \in Renewing, Promise(t)
  PROVE  floor' \in [Key -> Nat] /\ raced' \subseteq Key
<1>1. task[t] \in Locals /\ task[t].edition \in Nat
  BY DEF IInv, TasksGood, Good
<1>2. task[t].met \subseteq Key
  BY <1>1 DEF Locals
<1> QED
  BY <1>1, <1>2 DEF Promise, Undone, Of, IInv, Rest

\* What a revalidation does to its own list of keys.
LEMMA ListMoves ==
  ASSUME IInv, NEW t \in Task, NEW x \in Locals, NEW label \in Renewing,
         pc[t] \in Renewing, x.route = task[t].route, x.edition = task[t].edition,
         task' = [task EXCEPT ![t] = x], pc' = [pc EXCEPT ![t] = label]
  PROVE  TasksGood'
<1>1. Good(label, x)
  BY DEF Good, IInv, TasksGood, Serving, Renewing
<1>2. Moves(t)
  BY <1>1 DEF Moves, IInv, TasksGood, Label
<1> QED
  BY <1>2, MovesKeepTasks DEF IInv

LEMMA RevalidationIsMove ==
  ASSUME IInv, NEW t \in Task, Revalidate(t)
  PROVE  IInv'
<1>1. edition \in Nat /\ task[t] \in Locals /\ index \in [Route -> SUBSET Key]
  BY DEF IInv, Rest, TasksGood
<1>2. ASSUME NEW r \in Route, RevalidatePath(t, r) PROVE IInv'
  <2>1. PICK p \in Bare : Without([page |-> p, mode |-> "html"])
    BY <1>2 DEF RevalidatePath
  <2>2. [page |-> p, mode |-> "html"] \in Key
    BY ServingAssumption DEF Key
  <2>3. StoredHonestly' /\ index' \in [Route -> SUBSET Key]
    BY <2>1, <2>2, WithoutKeeps
  <2>4. TasksGood' /\ calls' \in Nat
    BY <1>1, <1>2, BeginMoves DEF RevalidatePath, Renewing
  <2> QED
    BY <1>2, <2>3, <2>4 DEF RevalidatePath, IInv, Rest, promises
<1>3. ASSUME NEW r \in Route, RevalidateTag(t, r) PROVE IInv'
  <2>1. TasksGood' /\ calls' \in Nat
    BY <1>1, <1>3, BeginMoves DEF RevalidateTag, Renewing
  <2> QED
    BY <1>3, <2>1 DEF RevalidateTag, IInv, StoredHonestly, Rest, caches, promises
<1>4. ASSUME NEW r \in Route, Action(t, r) PROVE IInv'
  <2>1. edition + 1 \in Nat
    BY <1>1
  <2>2. TasksGood' /\ calls' \in Nat
    BY <1>4, <2>1, BeginMoves DEF Action, Renewing
  <2> QED
    BY <1>4, <2>1, <2>2 DEF Action, IInv, StoredHonestly, Rest, caches, promises
<1>5. CASE Variants(t)
  <2> DEFINE x == [task[t] EXCEPT !.todo =
       {k \in Key : stored[k] # None /\ KeyRoute(k) = task[t].route /\ k.page \notin Bare}]
  <2>1. x \in Locals /\ x.route = task[t].route /\ x.edition = task[t].edition
    BY <1>1 DEF Locals
  <2>2. /\ task' = [task EXCEPT ![t] = x] /\ pc' = [pc EXCEPT ![t] = "sweep"]
        /\ pc[t] \in Renewing /\ "sweep" \in Renewing
    BY <1>5 DEF Variants, Goto, Renewing
  <2> HIDE DEF x
  <2>3. TasksGood'
    BY <2>1, <2>2, ListMoves
  <2> QED
    BY <1>5, <2>3 DEF Variants, IInv, StoredHonestly, Rest, caches, promises
<1>6. CASE Sweep(t)
  <2>1. PICK k \in task[t].todo :
          Without(k) /\ task' = [task EXCEPT ![t].todo = @ \ {k}]
    BY <1>6 DEF Sweep
  <2> DEFINE x == [task[t] EXCEPT !.todo = @ \ {k}]
  <2>2. k \in Key
    BY <1>1 DEF Locals
  <2>3. x \in Locals /\ x.route = task[t].route /\ x.edition = task[t].edition
    BY <1>1 DEF Locals
  <2>4. /\ task' = [task EXCEPT ![t] = x] /\ pc' = [pc EXCEPT ![t] = pc[t]]
        /\ pc[t] \in Renewing
    BY <1>6, <2>1 DEF Sweep, Renewing, IInv, TasksGood
  <2> HIDE DEF x
  <2>5. TasksGood'
    BY <2>3, <2>4, ListMoves
  <2>6. StoredHonestly' /\ index' \in [Route -> SUBSET Key]
    BY <2>1, <2>2, WithoutKeeps
  <2> QED
    BY <1>6, <2>5, <2>6 DEF Sweep, IInv, Rest, promises
<1>7. CASE PurgeSnapshot(t)
  <2> DEFINE x == [task[t] EXCEPT !.todo = index[task[t].route],
                                  !.unlisted = Key \ index[task[t].route]]
  <2>1. task[t].route \in Route
    BY <1>7 DEF PurgeSnapshot, Renewing, IInv, TasksGood, Good
  <2>2. index[task[t].route] \subseteq Key
    BY <1>1, <2>1
  <2>3. x \in Locals /\ x.route = task[t].route /\ x.edition = task[t].edition
    BY <1>1, <2>2 DEF Locals
  <2>4. /\ task' = [task EXCEPT ![t] = x] /\ pc' = [pc EXCEPT ![t] = "purge"]
        /\ pc[t] \in Renewing /\ "purge" \in Renewing
    BY <1>7 DEF PurgeSnapshot, Goto, Renewing
  <2> HIDE DEF x
  <2>5. TasksGood'
    BY <2>3, <2>4, ListMoves
  <2> QED
    BY <1>7, <2>5 DEF PurgeSnapshot, IInv, StoredHonestly, Rest, caches, promises
<1>8. ASSUME Promise(t), Return(t), pc[t] \in Renewing
      PROVE  TasksGood' /\ floor' \in [Key -> Nat] /\ raced' \subseteq Key
  <2>1. Moves(t)
    BY <1>8, BlankGood DEF Return, Goto, Moves, IInv, TasksGood, Label
  <2> QED
    BY <1>8, <2>1, MovesKeepTasks, PromiseKeeps DEF IInv
<1>9. CASE Clear(t)
  <2>1. TasksGood' /\ floor' \in [Key -> Nat] /\ raced' \subseteq Key
    BY <1>8, <1>9 DEF Clear, Renewing
  <2>2. layout' \in [Page -> Nat \cup {None}]
    BY <1>9 DEF Clear
  <2> QED
    BY <1>9, <2>1, <2>2 DEF Clear, IInv, StoredHonestly, Rest
<1>10. CASE PurgeTag(t)
  <2>1. index' \in [Route -> SUBSET Key]
    BY <1>1, <1>10 DEF PurgeTag
  <2>2. pc[t] \in Renewing
    BY <1>10 DEF PurgeTag, Renewing
  <2>3. TasksGood' /\ floor' \in [Key -> Nat] /\ raced' \subseteq Key
    <3>1. CASE task[t].how = "action"
      <4>1. /\ task' = [task EXCEPT ![t] = task[t]] /\ pc' = [pc EXCEPT ![t] = "clear"]
            /\ "clear" \in Renewing /\ UNCHANGED floor
        BY <1>10, <3>1 DEF PurgeTag, Goto, Renewing, IInv, TasksGood
      <4>2. TasksGood'
        BY <1>1, <2>2, <4>1, ListMoves
      <4>3. raced' = raced \cup Undone(task[t])
        BY <1>10, <3>1 DEF PurgeTag
      <4>4. Undone(task[t]) \subseteq Key
        BY <1>1 DEF Undone, Locals
      <4> QED
        BY <4>1, <4>2, <4>3, <4>4 DEF IInv, Rest
    <3>2. CASE task[t].how # "action"
      BY <1>8, <1>10, <2>2, <3>2 DEF PurgeTag
    <3> QED
      BY <3>1, <3>2
  <2> QED
    BY <1>10, <2>1, <2>3 DEF PurgeTag, IInv, StoredHonestly, Rest
<1> QED
  BY <1>2, <1>3, <1>4, <1>5, <1>6, <1>7, <1>9, <1>10 DEF Revalidate

-----------------------------------------------------------------------------

LEMMA NextKeepsIInv ==
  ASSUME IInv, [Next]_vars
  PROVE  IInv'
<1>1. ASSUME NEW t \in Task, Serve(t) PROVE IInv'
  <2>1. ASSUME NEW k \in Key, NEW e \in Encoding \cup {Identity}, Request(t, k, e)
        PROVE  IInv'
    BY <2>1, RequestIsMove
  <2>2. ASSUME LayoutHit(t) \/ LayoutMiss(t) \/ Render(t) \/ Stream(t) \/ Fallback(t)
                 \/ RenderFails(t) \/ Answer(t)
        PROVE  IInv'
    <3>1. TasksGood'
      BY <2>2, RequestMoves, MovesKeepTasks DEF IInv
    <3>2. UNCHANGED <<streaming, edition, caches, calls, promises>>
      BY <2>2 DEF LayoutHit, LayoutMiss, Render, Stream, Fallback, RenderFails, Answer
    <3> QED
      BY <3>1, <3>2 DEF IInv, StoredHonestly, Rest, caches, promises
  <2> QED
    BY <1>1, <2>1, <2>2, KeepIsMove, StoreIsMove, UpdateIsMove DEF Serve
<1>2. ASSUME NEW t \in Task, Revalidate(t) PROVE IInv'
  BY <1>2, RevalidationIsMove
<1>3. ASSUME NEW k \in Key, Leave(k) PROVE IInv'
  <2>1. UNCHANGED <<streaming, edition, layout, pc, task, calls, promises>>
    BY <1>3 DEF Leave
  <2>2. StoredHonestly' /\ index' \in [Route -> SUBSET Key]
    <3>1. CASE Without(k)
      BY <3>1, WithoutKeeps
    <3>2. CASE stored' = [stored EXCEPT ![k] = None] /\ UNCHANGED index
      BY <3>2 DEF IInv, StoredHonestly, Rest
    <3> QED
      BY <1>3, <3>1, <3>2 DEF Leave
  <2> QED
    BY <2>1, <2>2 DEF IInv, TasksGood, Rest, promises
<1>4. CASE Publish
  BY <1>4 DEF Publish, IInv, StoredHonestly, TasksGood, Rest, caches, promises
<1>5. CASE UNCHANGED vars
  BY <1>5 DEF vars, IInv, StoredHonestly, TasksGood, Rest
<1> QED
  BY <1>1, <1>2, <1>3, <1>4, <1>5 DEF Next

LEMMA IInvIsInvariant == Spec => []IInv
<1> QED
  BY InitIInv, NextKeepsIInv, PTL DEF Spec

(***************************************************************************)
(* The caches and the locals of every handler keep their types, and an RSC *)
(* response is stored as it was rendered and in no other encoding.         *)
(***************************************************************************)
THEOREM ServingTypeCorrect == Spec => []TypeOK
<1>1. IInv => TypeOK
  BY DEF IInv, StoredHonestly, TasksGood, Rest, TypeOK, Good, Label
<1> QED
  BY <1>1, IInvIsInvariant, PTL

(***************************************************************************)
(* What a response declares is how its body is encoded, and the client     *)
(* takes it, unless the page was stored compressed for another client:     *)
(* for any encodings, however hits, updates and stores interleave.         *)
(***************************************************************************)
THEOREM ClientsDecode == Spec => []ClientDecodes
<1>1. IInv => ClientDecodes
  <2> SUFFICES ASSUME IInv, NEW t \in Task, pc[t] = "reply"
               PROVE  LET r == task[t] IN
                 \/ r.declared = r.layers /\ {r.layers[i] : i \in DOMAIN r.layers} \subseteq {r.accepts}
                 \/ r.clone # None /\ r.clone.layers \notin {<<>>, Encoded(r.accepts)}
    BY DEF ClientDecodes
  <2> DEFINE r == task[t]
  <2>1. r \in Locals /\ (AsRendered(r) \/ FromEntry(r))
    BY DEF IInv, TasksGood, Good
  <2>2. r.accepts \in Encoding \cup {Identity}
    BY <2>1 DEF Locals
  <2>3. CASE AsRendered(r)
    <3>1. r.declared = r.layers /\ r.layers \in {<<>>, Encoded(r.accepts)}
      BY <2>3 DEF AsRendered
    <3>2. \A i \in DOMAIN r.layers : r.layers[i] = r.accepts
      <4>1. CASE r.layers = <<>>
        BY <4>1
      <4>2. CASE r.layers = Encoded(r.accepts)
        BY <2>2, <4>2, EncodedFacts
      <4> QED
        BY <3>1, <4>1, <4>2
    <3> QED
      BY <3>1, <3>2
  <2>4. CASE FromEntry(r)
    BY <2>4 DEF FromEntry
  <2> QED
    BY <2>1, <2>3, <2>4
<1> QED
  BY <1>1, IInvIsInvariant, PTL

-----------------------------------------------------------------------------
(* Who asks after a revalidation is not answered with older data.          *)

Held == {k \in Key : stored[k] # None}

\* What a revalidation with locals r has done by label l to the keys nobody
\* has asked for since it began, if held are those with a response, ra are
\* raced and ed is the edition.
Progress(l, r, held, ra, ed) ==
  l \in Renewing =>
    /\ r.edition <= ed
    /\ l \in {"variants", "sweep"} => r.how = "path"
    /\ l \in {"redirect", "purge"} => r.how \in {"tag", "action"}
    /\ l = "clear" => r.how = "action"
    /\ \A k \in (Of(r.route) \ r.met) \cap held :
         /\ l \in {"variants", "sweep"} => k.page \notin Bare \/ ~Html(k)
         /\ l = "sweep" => k.page \in Bare \/ k \in r.todo
         /\ l = "purge" => k \in r.todo \/ k \in r.unlisted
         /\ l = "clear" => k \in r.unlisted
         /\ l \in {"purge", "clear"} /\ k \in r.unlisted => k \in ra

\* What a request with locals r has at label l, if fl are the floors.
FreshLocals(l, r, fl, ra) ==
  l \in Serving =>
    /\ r.since <= fl[r.key]
    /\ l = "layout" => Html(r.key)
    /\ r.key \notin ra =>
         /\ l \in {"keep", "store", "update", "reply"} /\ r.edition # None =>
              r.edition >= fl[r.key]
         /\ l = "update" => r.clone.edition >= fl[r.key]

\* The caches keep the promises.
KeptFresh ==
  \A k \in Key \ raced :
    /\ stored[k] # None => stored[k].edition >= floor[k]
    /\ Html(k) /\ layout[k.page] # None => layout[k.page] >= floor[k]

\* What has dropped out of the tag index is raced.
Indexed == \A k \in Held : k \in index[KeyRoute(k)] \/ k \in raced

FloorOk == \A k \in Key : floor[k] <= edition

\* A revalidation knows of the requests it overlaps.
MetOk ==
  \A t, u \in Task : pc[t] \in Serving /\ pc[u] \in Renewing =>
    task[t].key \in task[u].met

TasksFresh ==
  \A t \in Task : /\ FreshLocals(pc[t], task[t], floor, raced)
                  /\ Progress(pc[t], task[t], Held, raced, edition)

Freshness == KeptFresh /\ Indexed /\ FloorOk /\ MetOk /\ TasksFresh

-----------------------------------------------------------------------------

\* The types that the steps below use.
LEMMA Types ==
  ASSUME IInv
  PROVE  /\ edition \in Nat /\ floor \in [Key -> Nat] /\ raced \subseteq Key
         /\ layout \in [Page -> Nat \cup {None}]
         /\ \A k \in Key : stored[k] # None => stored[k].edition \in Nat
         /\ \A t \in Task :
              /\ pc[t] \in Label /\ task[t] \in Locals
              /\ pc[t] \in Serving => task[t].key \in Key /\ task[t].how = None
              /\ pc[t] \in Renewing => task[t].route \in Route /\ task[t].edition \in Nat
              /\ pc[t] = "update" => task[t].clone \in Entry
<1>1. /\ edition \in Nat /\ floor \in [Key -> Nat] /\ raced \subseteq Key
      /\ layout \in [Page -> Nat \cup {None}]
  BY DEF IInv, Rest
<1>2. \A k \in Key : stored[k] # None => stored[k].edition \in Nat
  BY DEF IInv, StoredHonestly, Entry
<1>3. \A t \in Task : pc[t] \in Label /\ task[t] \in Locals /\ Good(pc[t], task[t])
  BY DEF IInv, TasksGood
<1> QED
  BY <1>1, <1>2, <1>3 DEF Good, FromEntry

LEMMA LabelsApart == Serving \cap Renewing = {} /\ "idle" \notin Serving \cup Renewing
  BY DEF Serving, Renewing

\* Fewer responses, and more raced keys among them, leave a revalidation
\* where it is; so does whatever happens to the keys it has met.
LEMMA ProgressStays ==
  ASSUME NEW l, NEW r, NEW held, NEW ra, NEW ed \in Nat, NEW held2, NEW ra2, NEW ed2 \in Nat,
         r.edition \in Nat, Progress(l, r, held, ra, ed), ed <= ed2,
         \A k \in (Of(r.route) \ r.met) \cap held2 : k \in held /\ (k \in ra => k \in ra2)
  PROVE  Progress(l, r, held2, ra2, ed2)
<1> SUFFICES ASSUME l \in Renewing
             PROVE  /\ r.edition <= ed2
                    /\ Progress(l, r, held2, ra2, ed2)
  BY DEF Progress
<1>1. r.edition <= ed2
  BY DEF Progress
<1> QED
  BY <1>1 DEF Progress

LEMMA InitFreshness == Init => Freshness
<1> SUFFICES ASSUME Init PROVE Freshness
  OBVIOUS
<1>1. \A t \in Task : pc[t] = "idle"
  BY DEF Init
<1>2. PICK warm \in SUBSET {k \in Key : /\ ~Html(k) /\ k.page \in Bare
                                       /\ KeyRoute(k) \notin Loading \cup NoStore} :
        /\ stored = [k \in Key |-> IF k \in warm THEN Response(0, <<>>) ELSE None]
        /\ index = Listed(warm)
  BY DEF Init
<1>3. MetOk /\ TasksFresh
  BY <1>1, LabelsApart DEF MetOk, TasksFresh, FreshLocals, Progress
<1>4. KeptFresh /\ FloorOk
  BY <1>2 DEF Init, KeptFresh, FloorOk, Response, Key
<1>5. Indexed
  <2> SUFFICES ASSUME NEW k \in Held PROVE k \in index[KeyRoute(k)]
    BY DEF Indexed
  <2>1. k \in Key /\ k \in warm
    BY <1>2 DEF Held
  <2>2. KeyRoute(k) \in Route
    BY <2>1, ServingAssumption DEF Key, KeyRoute
  <2> QED
    BY <1>2, <2>1, <2>2 DEF Listed
<1> QED
  BY <1>3, <1>4, <1>5 DEF Freshness

-----------------------------------------------------------------------------
(* The steps of a request.                                                 *)

\* What every step of a request has in common, up to what it stores.
LEMMA ServingStep ==
  ASSUME IInv, IInv', Freshness, NEW t \in Task,
         pc[t] \in Serving, pc'[t] \in Serving \cup {"idle"},
         pc'[t] \in Serving => task'[t].key = task[t].key,
         \A u \in Task \ {t} : pc'[u] = pc[u] /\ task'[u] = task[u],
         UNCHANGED <<edition, floor, raced>>,
         \A k \in Key : stored'[k] # None => stored[k] # None \/ k = task[t].key,
         FreshLocals(pc'[t], task'[t], floor, raced),
         KeptFresh', Indexed'
  PROVE  Freshness'
<1>1. FloorOk' /\ MetOk'
  BY LabelsApart DEF Freshness, FloorOk, MetOk
<1>2. TasksFresh'
  <2> SUFFICES ASSUME NEW u \in Task
               PROVE  /\ FreshLocals(pc'[u], task'[u], floor, raced)
                      /\ Progress(pc'[u], task'[u], Held', raced, edition)
    BY DEF TasksFresh
  <2>1. CASE u = t
    BY <2>1, LabelsApart DEF Progress
  <2>2. CASE u # t
    <3>1. pc'[u] = pc[u] /\ task'[u] = task[u]
      BY <2>2
    <3>2. FreshLocals(pc[u], task[u], floor, raced)
          /\ Progress(pc[u], task[u], Held, raced, edition)
      BY DEF Freshness, TasksFresh
    <3>3. CASE pc[u] \in Renewing
      <4>1. \A k \in (Of(task[u].route) \ task[u].met) \cap Held' : k \in Held
        BY <3>3 DEF Freshness, MetOk, Held
      <4>2. edition \in Nat /\ task[u].edition \in Nat /\ edition <= edition
        BY <3>3, Types
      <4>3. Progress(pc[u], task[u], Held', raced, edition)
        BY <3>2, <4>1, <4>2, ProgressStays
      <4> QED
        BY <3>1, <3>2, <4>3
    <3>4. CASE pc[u] \notin Renewing
      BY <3>1, <3>2, <3>4 DEF Progress
    <3> QED
      BY <3>3, <3>4
  <2> QED
    BY <2>1, <2>2
<1> QED
  BY <1>1, <1>2 DEF Freshness

\* The page in hand is no older than was promised.
LEMMA AssembleFresh ==
  ASSUME IInv, Freshness, NEW t \in Task, NEW ed \in Nat, Assemble(t, ed),
         pc[t] \in Serving, UNCHANGED <<floor, raced>>,
         task[t].key \notin raced => ed >= floor[task[t].key]
  PROVE  /\ pc'[t] \in Serving /\ task'[t].key = task[t].key
         /\ \A u \in Task \ {t} : pc'[u] = pc[u] /\ task'[u] = task[u]
         /\ FreshLocals(pc'[t], task'[t], floor, raced)
<1> DEFINE r == task[t]
<1>1. r \in Locals /\ task \in [Task -> Locals] /\ pc \in [Task -> Label]
  BY DEF IInv, TasksGood
<1>2. PICK layers : task' = [task EXCEPT ![t] = [@ EXCEPT !.edition = ed, !.layers = layers,
                                                          !.declared = layers]]
  BY DEF Assemble
<1>3. pc'[t] \in {"store", "reply"} /\ \A u \in Task \ {t} : pc'[u] = pc[u]
  BY <1>1 DEF Assemble, Goto
<1>4. task'[t].edition = ed /\ task'[t].key = r.key /\ task'[t].since = r.since
  BY <1>1, <1>2 DEF Locals
<1>5. \A u \in Task \ {t} : task'[u] = task[u]
  BY <1>1, <1>2
<1>6. r.since <= floor[r.key]
  BY DEF Freshness, TasksFresh, FreshLocals
<1> HIDE DEF r
<1>7. FreshLocals(pc'[t], task'[t], floor, raced)
  BY <1>3, <1>4, <1>6 DEF FreshLocals, r
<1> QED
  BY <1>3, <1>4, <1>5, <1>7 DEF Serving, r

\* The other steps of a request that is under way.
LEMMA UnderWayFresh ==
  ASSUME IInv, IInv', Freshness, NEW t \in Task,
         LayoutHit(t) \/ LayoutMiss(t) \/ Render(t) \/ Stream(t) \/ Fallback(t)
           \/ Keep(t) \/ RenderFails(t) \/ Answer(t)
  PROVE  Freshness'
<1> DEFINE r == task[t]
           k == task[t].key
<1>1. r \in Locals /\ task \in [Task -> Locals] /\ pc \in [Task -> Label]
  BY DEF IInv, TasksGood
<1>2. pc[t] \in Serving
  BY DEF LayoutHit, LayoutMiss, Render, Stream, Fallback, Keep, RenderFails, Answer, Serving
<1>3. k \in Key /\ edition \in Nat /\ floor[k] \in Nat /\ k.page \in Page
  BY <1>2, Types DEF Key
<1>4. /\ FreshLocals(pc[t], r, floor, raced) /\ floor[k] <= edition
  BY <1>3 DEF Freshness, TasksFresh, FloorOk
<1>5. /\ UNCHANGED <<edition, floor, raced, stored, index>>
      /\ ~Keep(t) => UNCHANGED layout
  BY DEF LayoutHit, LayoutMiss, Render, Stream, Fallback, Keep, RenderFails, Answer,
         caches, promises
<1>6. Indexed'
  BY <1>5 DEF Freshness, Indexed, Held
<1>7. ASSUME NEW ed \in Nat, Assemble(t, ed), k \notin raced => ed >= floor[k], KeptFresh'
      PROVE  Freshness'
  BY <1>2, <1>5, <1>6, <1>7, AssembleFresh, ServingStep
<1>8. ~Keep(t) => KeptFresh'
  BY <1>5 DEF Freshness, KeptFresh
<1>9. ASSUME pc'[t] \in Serving, \A u \in Task \ {t} : pc'[u] = pc[u] /\ task'[u] = task[u],
             task'[t].key = k, FreshLocals(pc'[t], task'[t], floor, raced), KeptFresh'
      PROVE  Freshness'
  BY <1>2, <1>5, <1>6, <1>9, ServingStep
<1>10. CASE LayoutHit(t)
  <2>1. Html(k) /\ layout[k.page] # None /\ pc[t] = "layout"
    BY <1>2, <1>4, <1>10 DEF LayoutHit, FreshLocals
  <2>2. layout[k.page] \in Nat
    BY <1>3, <2>1, Types
  <2>3. k \notin raced => layout[k.page] >= floor[k]
    BY <1>3, <2>1 DEF Freshness, KeptFresh
  <2>4. ~Keep(t)
    BY <2>1 DEF Keep
  <2> QED
    BY <1>7, <1>8, <1>10, <2>2, <2>3, <2>4 DEF LayoutHit
<1>11. CASE LayoutMiss(t)
  <2>1. pc' = [pc EXCEPT ![t] = "render"] /\ task' = task /\ ~Keep(t)
    BY <1>11 DEF LayoutMiss, Goto, Keep
  <2>2. FreshLocals("render", r, floor, raced)
    BY <1>2, <1>4 DEF FreshLocals
  <2> QED
    BY <1>1, <1>8, <1>9, <2>1, <2>2 DEF Serving
<1>12. ASSUME Html(k), Goto(t, "keep"), task' = [task EXCEPT ![t].edition = edition], ~Keep(t)
       PROVE  Freshness'
  <2>1. pc'[t] = "keep" /\ \A u \in Task \ {t} : pc'[u] = pc[u] /\ task'[u] = task[u]
    BY <1>1, <1>12 DEF Goto
  <2>2. task'[t].edition = edition /\ task'[t].key = k /\ task'[t].since = r.since
    BY <1>1, <1>12 DEF Locals
  <2>3. FreshLocals("keep", task'[t], floor, raced)
    BY <1>2, <1>3, <1>4, <2>2 DEF FreshLocals
  <2> QED
    BY <1>8, <1>9, <1>12, <2>1, <2>2, <2>3 DEF Serving
<1>13. pc[t] = "render" => ~Keep(t)
  BY DEF Keep
<1>14. CASE Render(t) \/ Fallback(t)
  BY <1>3, <1>4, <1>7, <1>8, <1>12, <1>13, <1>14 DEF Render, Fallback
<1>15. CASE Stream(t)
  <2>1. CASE ~streaming
    BY <1>3, <1>4, <1>7, <1>8, <1>13, <1>15, <2>1 DEF Stream
  <2>2. CASE streaming
    <3>1. /\ task' = [task EXCEPT ![t] = [@ EXCEPT !.edition = edition,
                                                   !.layers = Encoded(r.accepts),
                                                   !.declared = Encoded(r.accepts)]]
          /\ Goto(t, "reply") /\ ~Keep(t)
      BY <1>13, <1>15, <2>2 DEF Stream
    <3>2. pc'[t] = "reply" /\ \A u \in Task \ {t} : pc'[u] = pc[u] /\ task'[u] = task[u]
      BY <1>1, <3>1 DEF Goto
    <3>3. task'[t].edition = edition /\ task'[t].key = k /\ task'[t].since = r.since
      BY <1>1, <3>1 DEF Locals
    <3>4. FreshLocals("reply", task'[t], floor, raced)
      BY <1>2, <1>3, <1>4, <3>3 DEF FreshLocals
    <3> QED
      BY <1>8, <1>9, <3>1, <3>2, <3>3, <3>4 DEF Serving
  <2> QED
    BY <2>1, <2>2
<1>16. CASE Keep(t)
  <2>1. pc[t] = "keep" /\ r.edition \in Nat /\ Html(k)
    BY <1>16 DEF Keep, IInv, TasksGood, Good
  <2>2. r.edition # None
    BY <2>1, ServingAssumption
  <2>3. k \notin raced => r.edition >= floor[k]
    BY <1>2, <1>4, <2>1, <2>2 DEF FreshLocals
  <2>4. layout' = [layout EXCEPT ![k.page] = r.edition] /\ Assemble(t, r.edition)
    BY <1>16 DEF Keep
  <2>5. ASSUME NEW q \in Key \ raced, Html(q), layout'[q.page] # None
        PROVE  layout'[q.page] >= floor[q]
    <3>1. CASE q.page = k.page
      <4>1. q = k
        BY <1>3, <2>1, <2>5, <3>1 DEF Html, Key
      <4> QED
        BY <1>3, <2>3, <2>4, <2>5, <4>1, Types
    <3>2. CASE q.page # k.page
      <4>1. layout'[q.page] = layout[q.page]
        BY <2>4, <2>5, <3>2, Types DEF Key
      <4> QED
        BY <2>5, <4>1 DEF Freshness, KeptFresh
    <3> QED
      BY <3>1, <3>2
  <2>6. KeptFresh'
    BY <1>5, <2>5 DEF Freshness, KeptFresh
  <2> QED
    BY <1>7, <2>1, <2>3, <2>4, <2>6
<1>17. CASE RenderFails(t)
  <2>1. /\ task' = [task EXCEPT ![t] = [@ EXCEPT !.failed = TRUE, !.edition = None]]
        /\ pc'[t] = IF Html(k) /\ streaming /\ ~r.failed THEN "layout" ELSE "reply"
        /\ \A u \in Task \ {t} : pc'[u] = pc[u]
    BY <1>1, <1>17 DEF RenderFails, Goto
  <2>2. \A u \in Task \ {t} : task'[u] = task[u]
    BY <1>1, <2>1
  <2>3. task'[t].edition = None /\ task'[t].key = k /\ task'[t].since = r.since
    BY <1>1, <2>1 DEF Locals
  <2>4. pc'[t] \in {"layout", "reply"} /\ (pc'[t] = "layout" => Html(k))
    BY <2>1
  <2>5. FreshLocals(pc'[t], task'[t], floor, raced)
    BY <1>2, <1>4, <2>3, <2>4 DEF FreshLocals
  <2>6. KeptFresh'
    BY <1>5, <1>17 DEF RenderFails, caches, Freshness, KeptFresh
  <2> QED
    BY <1>9, <2>1, <2>2, <2>3, <2>4, <2>5, <2>6 DEF Serving
<1>18. CASE Answer(t)
  <2>1. pc'[t] = "idle" /\ \A u \in Task \ {t} : pc'[u] = pc[u] /\ task'[u] = task[u]
    BY <1>1, <1>18 DEF Answer, Return, Goto
  <2>2. FreshLocals("idle", task'[t], floor, raced)
    BY LabelsApart DEF FreshLocals
  <2>3. KeptFresh'
    BY <1>5, <1>18 DEF Answer, caches, Freshness, KeptFresh
  <2> QED
    BY <1>2, <1>5, <1>6, <2>1, <2>2, <2>3, LabelsApart, ServingStep
<1> QED
  BY <1>10, <1>11, <1>14, <1>15, <1>16, <1>17, <1>18

LEMMA StoreFresh ==
  ASSUME IInv, IInv', Freshness, NEW t \in Task, Store(t)
  PROVE  Freshness'
<1> DEFINE r == task[t]
           k == task[t].key
<1>1. pc[t] = "store" /\ pc[t] \in Serving /\ pc \in [Task -> Label]
  BY DEF Store, Serving, IInv, TasksGood
<1>2. k \in Key /\ r.edition \in Nat /\ floor[k] \in Nat /\ KeyRoute(k) \in Route
  <2>1. k \in Key /\ r.edition \in Nat
    BY <1>1 DEF IInv, TasksGood, Good
  <2> QED
    BY <2>1, Types, ServingAssumption DEF KeyRoute, Key
<1>3. FreshLocals("store", r, floor, raced) /\ r.edition # None
  BY <1>1, <1>2, ServingAssumption DEF Freshness, TasksFresh
<1>4. k \notin raced => r.edition >= floor[k]
  BY <1>1, <1>3 DEF FreshLocals
<1>5. /\ stored' = [stored EXCEPT ![k] = Response(r.edition, r.layers)]
      /\ index' = [index EXCEPT ![KeyRoute(k)] = @ \cup {k}]
      /\ pc' = [pc EXCEPT ![t] = "reply"]
      /\ UNCHANGED <<edition, layout, task, floor, raced>>
  BY DEF Store, Goto, promises
<1>6. \A q \in Key : stored'[q] = IF q = k THEN Response(r.edition, r.layers) ELSE stored[q]
  BY <1>5 DEF IInv, StoredHonestly
<1>7. Response(r.edition, r.layers).edition = r.edition
  BY DEF Response
<1>8. KeptFresh'
  BY <1>4, <1>5, <1>6, <1>7 DEF Freshness, KeptFresh
<1>9. Indexed'
  <2> SUFFICES ASSUME NEW q \in Key, stored'[q] # None, q \notin raced
               PROVE  q \in index'[KeyRoute(q)]
    BY <1>5 DEF Indexed, Held
  <2>1. KeyRoute(q) \in Route /\ index \in [Route -> SUBSET Key]
    BY ServingAssumption DEF KeyRoute, Key, IInv, Rest
  <2>2. CASE q = k
    BY <1>5, <2>1, <2>2
  <2>3. CASE q # k
    <3>1. q \in index[KeyRoute(q)]
      BY <1>6, <2>3 DEF Freshness, Indexed, Held
    <3> QED
      BY <1>2, <1>5, <2>1, <3>1
  <2> QED
    BY <2>2, <2>3
<1>10. FreshLocals("reply", r, floor, raced)
  BY <1>1, <1>3 DEF FreshLocals
<1> QED
  BY <1>1, <1>5, <1>6, <1>8, <1>9, <1>10, ServingStep DEF Serving

LEMMA UpdateFresh ==
  ASSUME IInv, IInv', Freshness, NEW t \in Task, Update(t)
  PROVE  Freshness'
<1> DEFINE r == task[t]
           k == task[t].key
           updated == [r.clone EXCEPT !.variants = @ \cup {r.accepts}]
<1>1. pc[t] = "update" /\ pc[t] \in Serving /\ pc \in [Task -> Label]
  BY DEF Update, Serving, IInv, TasksGood
<1>2. k \in Key /\ r.clone \in Entry /\ floor[k] \in Nat
  BY <1>1, Types
<1>3. FreshLocals("update", r, floor, raced)
  BY <1>1 DEF Freshness, TasksFresh
<1>4. k \notin raced => r.clone.edition >= floor[k]
  BY <1>1, <1>3 DEF FreshLocals
<1>5. /\ stored' = IF stored[k] = None THEN stored ELSE [stored EXCEPT ![k] = updated]
      /\ pc' = [pc EXCEPT ![t] = "reply"]
      /\ UNCHANGED <<edition, index, layout, task, floor, raced>>
  BY DEF Update, Goto, promises
<1>6. updated.edition = r.clone.edition
  BY <1>2 DEF Entry
<1> HIDE DEF updated
<1>7. \A q \in Key : stored'[q] # None =>
        stored[q] # None /\ (stored'[q] = stored[q] \/ (q = k /\ stored'[q] = updated))
  BY <1>2, <1>5 DEF IInv, StoredHonestly
<1>8. KeptFresh'
  BY <1>4, <1>5, <1>6, <1>7 DEF Freshness, KeptFresh
<1>9. Indexed'
  BY <1>5, <1>7 DEF Freshness, Indexed, Held
<1>10. FreshLocals("reply", r, floor, raced)
  BY <1>1, <1>3 DEF FreshLocals
<1> QED
  BY <1>1, <1>5, <1>7, <1>8, <1>9, <1>10, ServingStep DEF Serving

\* A request, whose key the revalidations under way take note of.
LEMMA RequestFresh ==
  ASSUME IInv, IInv', Freshness, NEW t \in Task, NEW k \in Key,
         NEW e \in Encoding \cup {Identity}, Request(t, k, e)
  PROVE  Freshness'
<1> DEFINE r == [Blank EXCEPT !.key = k, !.accepts = e, !.since = floor[k]]
           hitR == [r EXCEPT !.edition = stored[k].edition, !.clone = stored[k]]
           asks == [u \in Task |-> IF Revalidating(u)
                                   THEN [task[u] EXCEPT !.met = @ \cup {k}] ELSE task[u]]
           cached == Html(k) \/ ~streaming
<1>1. /\ pc[t] = "idle" /\ pc \in [Task -> Label] /\ task \in [Task -> Locals]
      /\ edition \in Nat /\ floor[k] \in Nat
      /\ UNCHANGED <<edition, stored, index, layout, floor, raced>>
  BY Types DEF Request, IInv, TasksGood, caches, promises
<1>2. r.key = k /\ r.since = floor[k] /\ r.edition = None
  BY DEF Blank
<1>3. \A u \in Task :
        /\ pc[u] \in Renewing => k \in asks[u].met
        /\ pc[u] \in Serving => asks[u] = task[u]
        /\ task[u].met \subseteq asks[u].met
        /\ asks[u].edition = task[u].edition /\ asks[u].route = task[u].route
        /\ asks[u].how = task[u].how /\ asks[u].todo = task[u].todo
        /\ asks[u].unlisted = task[u].unlisted
  <2> SUFFICES ASSUME NEW u \in Task
               PROVE  /\ pc[u] \in Renewing => k \in asks[u].met
                      /\ pc[u] \in Serving => asks[u] = task[u]
                      /\ task[u].met \subseteq asks[u].met
                      /\ asks[u].edition = task[u].edition /\ asks[u].route = task[u].route
                      /\ asks[u].how = task[u].how /\ asks[u].todo = task[u].todo
                      /\ asks[u].unlisted = task[u].unlisted
    OBVIOUS
  <2>1. task[u] \in Locals /\ (pc[u] \in Serving => task[u].how = None)
    BY Types
  <2>2. pc[u] \in Renewing => Revalidating(u)
    BY DEF Freshness, TasksFresh, Progress, Revalidating, Renewing
  <2>3. pc[u] \in Serving => ~Revalidating(u)
    BY <2>1, ServingAssumption DEF Revalidating
  <2>4. CASE Revalidating(u)
    BY <2>1, <2>2, <2>3, <2>4 DEF Locals
  <2>5. CASE ~Revalidating(u)
    BY <2>2, <2>5
  <2> QED
    BY <2>4, <2>5
<1>4. ASSUME NEW x, NEW l \in Serving, task' = [asks EXCEPT ![t] = x], Goto(t, l),
             x.key = k, FreshLocals(l, x, floor, raced)
      PROVE  Freshness'
  <2>1. /\ task'[t] = x /\ pc'[t] = l
        /\ \A u \in Task \ {t} : task'[u] = asks[u] /\ pc'[u] = pc[u]
    BY <1>1, <1>4 DEF Goto
  <2> HIDE DEF asks
  <2>2. KeptFresh' /\ Indexed' /\ FloorOk'
    BY <1>1 DEF Freshness, KeptFresh, Indexed, FloorOk, Held
  <2>3. MetOk'
    <3> SUFFICES ASSUME NEW v \in Task, NEW u \in Task, pc'[v] \in Serving, pc'[u] \in Renewing
                 PROVE  task'[v].key \in task'[u].met
      BY DEF MetOk
    <3>1. u # t /\ pc[u] \in Renewing /\ task'[u] = asks[u]
      BY <1>4, <2>1, LabelsApart
    <3>2. CASE v = t
      BY <1>3, <1>4, <2>1, <3>1, <3>2
    <3>3. CASE v # t
      <4>1. pc[v] \in Serving /\ task'[v] = task[v]
        BY <1>3, <2>1, <3>3
      <4>2. task[v].key \in task[u].met
        BY <3>1, <4>1 DEF Freshness, MetOk
      <4> QED
        BY <1>3, <3>1, <4>1, <4>2
    <3> QED
      BY <3>2, <3>3
  <2>4. TasksFresh'
    <3> SUFFICES ASSUME NEW u \in Task
                 PROVE  /\ FreshLocals(pc'[u], task'[u], floor, raced)
                        /\ Progress(pc'[u], task'[u], Held, raced, edition)
      BY <1>1 DEF TasksFresh, Held
    <3>1. CASE u = t
      BY <1>4, <2>1, <3>1, LabelsApart DEF Progress
    <3>2. CASE u # t
      <4>1. FreshLocals(pc[u], task[u], floor, raced)
            /\ Progress(pc[u], task[u], Held, raced, edition)
        BY DEF Freshness, TasksFresh
      <4>2. pc'[u] = pc[u] /\ task'[u] = asks[u]
        BY <2>1, <3>2
      <4>3. FreshLocals(pc[u], asks[u], floor, raced)
        BY <1>3, <4>1 DEF FreshLocals
      <4>4. Progress(pc[u], asks[u], Held, raced, edition)
        BY <1>3, <4>1 DEF Progress
      <4> QED
        BY <4>2, <4>3, <4>4
    <3> QED
      BY <3>1, <3>2
  <2> QED
    BY <2>2, <2>3, <2>4 DEF Freshness
<1>5. ASSUME cached /\ stored[k] # None PROVE Freshness'
  <2>1. stored[k] \in Entry /\ stored[k].edition \in Nat
    BY <1>5, Types DEF IInv, StoredHonestly
  <2>2. k \notin raced => stored[k].edition >= floor[k]
    BY <1>5 DEF Freshness, KeptFresh
  <2>3. hitR \in Locals
    BY <2>1, BlankGood, Types DEF Locals
  <2>4. PICK hit \in HitAs(hitR, stored[k]) :
          task' = [asks EXCEPT ![t] = hit.reply] /\ Goto(t, hit.at)
    BY <1>5 DEF Request
  <2>5. /\ hitR.key = k /\ hitR.since = floor[k]
        /\ hitR.edition = stored[k].edition /\ hitR.clone = stored[k]
    <3>1. hitR = [r EXCEPT !.edition = stored[k].edition, !.clone = stored[k]]
      OBVIOUS
    <3>2. r \in Locals
      BY BlankGood, Types DEF Locals
    <3> HIDE DEF r, hitR
    <3> QED
      BY <1>2, <3>1, <3>2 DEF Locals
  <2> HIDE DEF hitR, asks, r
  <2>6. /\ hit.at \in {"reply", "update"} /\ hit.reply.key = k
        /\ hit.reply.since = floor[k] /\ hit.reply.edition = stored[k].edition
        /\ hit.reply.clone = stored[k]
    <3> DEFINE With(layers, declared) == [hitR EXCEPT !.layers = layers, !.declared = declared]
               coded == Encoded(hitR.accepts)
               old == stored[k]
    <3>1. ASSUME NEW layers, NEW declared
          PROVE  /\ With(layers, declared).key = k /\ With(layers, declared).since = floor[k]
                 /\ With(layers, declared).edition = stored[k].edition
                 /\ With(layers, declared).clone = stored[k]
      BY <2>3, <2>5 DEF Locals
    <3>2. /\ hit.reply \in {With(old.layers, old.header),
                            With(old.layers \o coded, coded \o old.header)}
          /\ hit.at \in {"reply", "update"}
      BY DEF HitAs
    <3> HIDE DEF With
    <3> QED
      BY <3>1, <3>2
  <2>7. FreshLocals(hit.at, hit.reply, floor, raced)
    BY <1>1, <2>1, <2>2, <2>6 DEF FreshLocals
  <2> QED
    BY <1>4, <2>4, <2>6, <2>7 DEF Serving
<1>6. ASSUME ~(cached /\ stored[k] # None) PROVE Freshness'
  <2>1. /\ task' = [asks EXCEPT ![t] = r]
        /\ Goto(t, IF Html(k) THEN "layout" ELSE "render")
    BY <1>6 DEF Request
  <2> HIDE DEF r, asks
  <2>2. FreshLocals("render", r, floor, raced) /\ (Html(k) => FreshLocals("layout", r, floor, raced))
    BY <1>1, <1>2 DEF FreshLocals
  <2>3. CASE Html(k)
    BY <1>2, <1>4, <2>1, <2>2, <2>3 DEF Serving
  <2>4. CASE ~Html(k)
    BY <1>2, <1>4, <2>1, <2>2, <2>4 DEF Serving
  <2> QED
    BY <2>3, <2>4
<1> HIDE DEF cached
<1> QED
  BY <1>5, <1>6

-----------------------------------------------------------------------------
(* The steps of a revalidation, and what happens of itself.                *)

\* Fewer responses, more raced keys and new data leave the promises kept.
LEMMA ShrinkingKeeps ==
  ASSUME IInv, Freshness, UNCHANGED <<layout, floor>>, raced \subseteq raced',
         \A k \in Key : stored'[k] = None \/ stored'[k] = stored[k]
  PROVE  KeptFresh'
  BY DEF Freshness, KeptFresh

\* The same, for a task that does not move.
LEMMA ShrinkingStays ==
  ASSUME IInv, IInv', Freshness, edition <= edition', raced \subseteq raced',
         \A k \in Key : stored'[k] = None \/ stored'[k] = stored[k],
         NEW u \in Task, pc'[u] = pc[u], task'[u] = task[u], UNCHANGED floor
  PROVE  /\ FreshLocals(pc'[u], task'[u], floor', raced')
         /\ Progress(pc'[u], task'[u], Held', raced', edition')
<1>1. FreshLocals(pc[u], task[u], floor, raced)
      /\ Progress(pc[u], task[u], Held, raced, edition)
  BY DEF Freshness, TasksFresh
<1>2. FreshLocals(pc[u], task[u], floor, raced')
  BY <1>1 DEF FreshLocals
<1>3. Progress(pc[u], task[u], Held', raced', edition')
  <2>1. CASE pc[u] \in Renewing
    <3>1. edition \in Nat /\ task[u].edition \in Nat
      BY <2>1, Types
    <3>2. edition' \in Nat
      BY DEF IInv, Rest
    <3>3. Held' \subseteq Held
      BY DEF Held
    <3> QED
      BY <1>1, <3>1, <3>2, <3>3, ProgressStays
  <2>2. CASE pc[u] \notin Renewing
    BY <2>2 DEF Progress
  <2> QED
    BY <2>1, <2>2
<1> QED
  BY <1>2, <1>3

LEMMA FloorStaysOk ==
  ASSUME IInv, IInv', Freshness, edition <= edition', UNCHANGED floor
  PROVE  FloorOk'
<1>1. edition \in Nat /\ floor \in [Key -> Nat]
  BY Types
<1>2. edition' \in Nat
  BY DEF IInv, Rest
<1> QED
  BY <1>1, <1>2 DEF Freshness, FloorOk

\* What every step of a revalidation but the last has in common.
LEMMA RenewingStep ==
  ASSUME IInv, IInv', Freshness, NEW t \in Task,
         pc[t] \notin Serving, pc'[t] \in Renewing,
         \A u \in Task \ {t} : pc'[u] = pc[u] /\ task'[u] = task[u],
         UNCHANGED <<layout, floor>>, edition <= edition', raced \subseteq raced',
         \A k \in Key : stored'[k] = None \/ stored'[k] = stored[k],
         Indexed', \A u \in Task : pc[u] \in Serving => task[u].key \in task'[t].met,
         Progress(pc'[t], task'[t], Held', raced', edition')
  PROVE  Freshness'
<1>1. KeptFresh' /\ FloorOk'
  BY ShrinkingKeeps, FloorStaysOk
<1>2. MetOk'
  <2> SUFFICES ASSUME NEW v \in Task, NEW u \in Task, pc'[v] \in Serving, pc'[u] \in Renewing
               PROVE  task'[v].key \in task'[u].met
    BY DEF MetOk
  <2>1. v # t /\ pc[v] \in Serving /\ task'[v] = task[v]
    BY LabelsApart
  <2>2. CASE u = t
    BY <2>1, <2>2
  <2>3. CASE u # t
    BY <2>1, <2>3 DEF Freshness, MetOk
  <2> QED
    BY <2>2, <2>3
<1>3. TasksFresh'
  <2> SUFFICES ASSUME NEW u \in Task
               PROVE  /\ FreshLocals(pc'[u], task'[u], floor', raced')
                      /\ Progress(pc'[u], task'[u], Held', raced', edition')
    BY DEF TasksFresh
  <2>1. CASE u = t
    BY <2>1, LabelsApart DEF FreshLocals
  <2>2. CASE u # t
    BY <2>2, ShrinkingStays
  <2> QED
    BY <2>1, <2>2
<1> QED
  BY <1>1, <1>2, <1>3 DEF Freshness

LEMMA WithoutShrinks ==
  ASSUME IInv, Freshness, NEW k \in Key, Without(k), raced \subseteq raced'
  PROVE  /\ Indexed' /\ stored'[k] = None
         /\ \A q \in Key : stored'[q] = None \/ stored'[q] = stored[q]
<1>1. stored' = [stored EXCEPT ![k] = None] /\ stored \in [Key -> Entry \cup {None}]
  BY DEF Without, IInv, StoredHonestly
<1>2. index \in [Route -> SUBSET Key]
  BY DEF IInv, Rest
<1>3. Indexed'
  <2> SUFFICES ASSUME NEW q \in Key, stored'[q] # None, q \notin raced'
               PROVE  q \in index'[KeyRoute(q)]
    BY DEF Indexed, Held
  <2>1. q # k /\ stored[q] # None /\ q \notin raced
    BY <1>1
  <2>2. q \in index[KeyRoute(q)] /\ KeyRoute(q) \in Route
    BY <2>1, ServingAssumption DEF Freshness, Indexed, Held, KeyRoute, Key
  <2>3. index' = IF stored[k] = None THEN index
                 ELSE [index EXCEPT ![KeyRoute(k)] = @ \ {k}]
    BY DEF Without
  <2> QED
    BY <1>2, <2>1, <2>2, <2>3
<1> QED
  BY <1>1, <1>3

LEMMA StoredStays ==
  ASSUME Freshness, UNCHANGED <<stored, index>>, raced' = raced
  PROVE  Indexed'
  BY DEF Freshness, Indexed, Held

\* The first step of a revalidation, by path, by tag or by an action.
LEMMA BeginFresh ==
  ASSUME IInv, IInv', Freshness, NEW t \in Task, NEW r \in Route,
         RevalidatePath(t, r) \/ RevalidateTag(t, r) \/ Action(t, r)
  PROVE  Freshness'
<1>1. edition \in Nat /\ pc \in [Task -> Label] /\ task \in [Task -> Locals]
  BY Types DEF IInv, TasksGood
<1>2. \A u \in Task : pc[u] \in Serving => task[u].key \in Requested
  <2>1. \A u \in Task : pc[u] \in Serving => task[u].key \in Key
    BY Types
  <2> QED
    BY <2>1, ServingAssumption DEF Requested
<1>3. ASSUME NEW how, NEW ed, NEW label \in Renewing, Begin(t, r, how, ed, label),
             UNCHANGED <<layout, floor, raced>>, edition <= edition', Indexed',
             \A k \in Key : stored'[k] = None \/ stored'[k] = stored[k],
             ed <= edition', label \in {"variants", "redirect"},
             label = "variants" => how = "path" /\ \A k \in Of(r) \cap Held' :
               k.page \notin Bare \/ ~Html(k),
             label = "redirect" => how \in {"tag", "action"}
      PROVE  Freshness'
  <2>1. /\ pc[t] \notin Serving /\ pc'[t] = label
        /\ task'[t] = [Blank EXCEPT !.how = how, !.route = r, !.edition = ed,
                                    !.met = Requested]
        /\ \A u \in Task \ {t} : pc'[u] = pc[u] /\ task'[u] = task[u]
    BY <1>1, <1>3, LabelsApart DEF Begin, Goto
  <2>2. /\ task'[t].how = how /\ task'[t].route = r /\ task'[t].edition = ed
        /\ task'[t].met = Requested
    BY <2>1 DEF Blank
  <2>3. Progress(label, task'[t], Held', raced', edition')
    BY <1>3, <2>2 DEF Progress
  <2> QED
    BY <1>2, <1>3, <2>1, <2>2, <2>3, RenewingStep
<1>4. CASE RevalidatePath(t, r)
  <2>1. PICK p \in Bare : RouteOf[p] = r /\ Without([page |-> p, mode |-> "html"])
    BY <1>4 DEF RevalidatePath
  <2> DEFINE h == [page |-> p, mode |-> "html"]
  <2>2. h \in Key
    BY ServingAssumption DEF Key
  <2>3. UNCHANGED <<edition, layout, floor, raced>> /\ Begin(t, r, "path", edition, "variants")
    BY <1>4 DEF RevalidatePath, promises
  <2>4. /\ Indexed' /\ stored'[h] = None
        /\ \A q \in Key : stored'[q] = None \/ stored'[q] = stored[q]
    BY <2>1, <2>2, <2>3, WithoutShrinks
  <2>5. ASSUME NEW k \in Of(r) \cap Held', k.page \in Bare, Html(k)
        PROVE  FALSE
    <3>1. k \in Key /\ RouteOf[k.page] = r /\ stored'[k] # None
      BY DEF Of, KeyRoute, Held
    <3>2. k.page = p
      BY <2>1, <2>5, <3>1, ServingAssumption
    <3>3. k = h
      BY <2>5, <3>1, <3>2 DEF Html, Key
    <3> QED
      BY <2>4, <3>1, <3>3
  <2> QED
    BY <1>1, <1>3, <2>3, <2>4, <2>5 DEF Renewing
<1>5. CASE RevalidateTag(t, r)
  <2>1. UNCHANGED <<edition, stored, index, layout, floor, raced>>
        /\ Begin(t, r, "tag", edition, "redirect")
    BY <1>5 DEF RevalidateTag, caches, promises
  <2>2. Indexed'
    BY <2>1, StoredStays
  <2> QED
    BY <1>1, <1>3, <2>1, <2>2 DEF Renewing
<1>6. CASE Action(t, r)
  <2>1. UNCHANGED <<stored, index, layout, floor, raced>> /\ edition' = edition + 1
        /\ Begin(t, r, "action", edition + 1, "redirect")
    BY <1>6 DEF Action, caches, promises
  <2>2. Indexed'
    BY <2>1, StoredStays
  <2> QED
    BY <1>1, <1>3, <2>1, <2>2 DEF Renewing
<1> QED
  BY <1>4, <1>5, <1>6

\* The steps on a copy of the keys.
LEMMA CopyFresh ==
  ASSUME IInv, IInv', Freshness, NEW t \in Task,
         Variants(t) \/ Sweep(t) \/ PurgeSnapshot(t)
  PROVE  Freshness'
<1> DEFINE r == task[t]
           x == task'[t]
<1>1. /\ pc[t] \in Renewing /\ pc[t] \notin Serving /\ edition \in Nat
      /\ r \in Locals /\ task \in [Task -> Locals] /\ pc \in [Task -> Label]
  BY LabelsApart, Types DEF Variants, Sweep, PurgeSnapshot, Renewing, IInv, TasksGood
<1>2. Progress(pc[t], r, Held, raced, edition)
  BY DEF Freshness, TasksFresh
<1>3. /\ UNCHANGED <<edition, layout, floor, raced>>
      /\ \A u \in Task \ {t} : pc'[u] = pc[u] /\ task'[u] = task[u]
  BY <1>1 DEF Variants, Sweep, PurgeSnapshot, Goto, caches, promises
<1>4. \A u \in Task : pc[u] \in Serving => task[u].key \in r.met
  BY <1>1 DEF Freshness, MetOk
<1>5. ASSUME x.met = r.met, pc'[t] \in Renewing,
             \A k \in Key : stored'[k] = None \/ stored'[k] = stored[k],
             Indexed', Progress(pc'[t], x, Held', raced, edition)
      PROVE  Freshness'
  BY <1>1, <1>3, <1>4, <1>5, RenewingStep
<1>6. CASE Variants(t)
  <2> DEFINE found == {k \in Key : stored[k] # None /\ KeyRoute(k) = r.route /\ k.page \notin Bare}
  <2>1. /\ pc[t] = "variants" /\ pc'[t] = "sweep" /\ UNCHANGED <<stored, index>>
        /\ task' = [task EXCEPT ![t].todo = found]
    BY <1>1, <1>6 DEF Variants, Goto, caches
  <2>2. /\ x.todo = found /\ x.met = r.met /\ x.route = r.route
        /\ x.edition = r.edition /\ x.how = r.how
    BY <1>1, <2>1 DEF Locals
  <2>3. Progress("sweep", x, Held', raced, edition)
    BY <1>2, <2>1, <2>2 DEF Progress, Renewing, Held, Of
  <2>4. Indexed'
    BY <1>3, <2>1, StoredStays
  <2> QED
    BY <1>5, <2>1, <2>2, <2>3, <2>4 DEF Renewing
<1>7. CASE Sweep(t)
  <2>1. PICK k \in r.todo : Without(k) /\ task' = [task EXCEPT ![t].todo = @ \ {k}]
    BY <1>7 DEF Sweep
  <2>2. k \in Key /\ pc[t] \in {"sweep", "purge"} /\ pc' = pc
    BY <1>1, <1>7 DEF Sweep, Locals
  <2>3. /\ x.todo = r.todo \ {k} /\ x.met = r.met /\ x.route = r.route
        /\ x.edition = r.edition /\ x.how = r.how /\ x.unlisted = r.unlisted
    BY <1>1, <2>1 DEF Locals
  <2>4. /\ Indexed' /\ stored'[k] = None
        /\ \A q \in Key : stored'[q] = None \/ stored'[q] = stored[q]
    BY <1>3, <2>1, <2>2, WithoutShrinks
  <2>5. Held' \subseteq Held \ {k}
    BY <2>4 DEF Held
  <2>6. Progress(pc[t], x, Held', raced, edition)
    BY <1>2, <2>2, <2>3, <2>5 DEF Progress
  <2> QED
    BY <1>1, <1>5, <2>2, <2>3, <2>4, <2>6
<1>8. CASE PurgeSnapshot(t)
  <2> DEFINE copy == index[r.route]
  <2>1. /\ pc[t] = "redirect" /\ pc'[t] = "purge" /\ UNCHANGED <<stored, index>>
        /\ task' = [task EXCEPT ![t] = [@ EXCEPT !.todo = copy, !.unlisted = Key \ copy]]
    BY <1>1, <1>8 DEF PurgeSnapshot, Goto, caches
  <2>2. /\ x.todo = copy /\ x.unlisted = Key \ copy /\ x.met = r.met
        /\ x.route = r.route /\ x.edition = r.edition /\ x.how = r.how
    BY <1>1, <2>1 DEF Locals
  <2>3. Progress("purge", x, Held', raced, edition)
    BY <1>2, <2>1, <2>2 DEF Progress, Renewing, Held, Of, Freshness, Indexed
  <2>4. Indexed'
    BY <1>3, <2>1, StoredStays
  <2> QED
    BY <1>5, <2>1, <2>2, <2>3, <2>4 DEF Renewing
<1> QED
  BY <1>6, <1>7, <1>8

\* At the end of its loop a revalidation by tag, or an action, has left of
\* the keys of its path what was raced before and what it has met.
LEMMA PurgeLeaves ==
  ASSUME Freshness, NEW t \in Task, pc[t] = "purge", task[t].todo = {},
         NEW k \in Of(task[t].route), stored[k] # None, k \notin task[t].met
  PROVE  k \in task[t].unlisted /\ k \in raced
  BY DEF Freshness, TasksFresh, Progress, Renewing, Held, Of

\* The removal of the tag keeps what is not listed any more among the raced.
LEMMA UntaggedIsRaced ==
  ASSUME IInv, Freshness, NEW t \in Task, PurgeTag(t),
         \A k \in Key : stored[k] # None /\ k \notin raced' =>
           k \notin raced /\ k \notin Of(task[t].route) \cap task[t].met
  PROVE  Indexed'
<1> SUFFICES ASSUME NEW k \in Key, stored[k] # None, k \notin raced'
             PROVE  k \in index'[KeyRoute(k)]
  BY DEF Indexed, Held, PurgeTag
<1>1. k \notin raced /\ k \notin Of(task[t].route) \cap task[t].met
  OBVIOUS
<1>2. KeyRoute(k) \in Route /\ k \in index[KeyRoute(k)]
  BY <1>1, ServingAssumption DEF Freshness, Indexed, Held, KeyRoute, Key
<1>3. k \notin Of(task[t].route)
  BY <1>1, PurgeLeaves DEF PurgeTag
<1>4. KeyRoute(k) # task[t].route
  BY <1>3 DEF Of
<1>5. index' = [index EXCEPT ![task[t].route] = {}] /\ index \in [Route -> SUBSET Key]
  BY DEF PurgeTag, IInv, Rest
<1> QED
  BY <1>2, <1>4, <1>5

LEMMA PurgeActionFresh ==
  ASSUME IInv, IInv', Freshness, NEW t \in Task, PurgeTag(t), task[t].how = "action"
  PROVE  Freshness'
<1> DEFINE r == task[t]
<1>1. /\ pc[t] = "purge" /\ r.todo = {} /\ pc' = [pc EXCEPT ![t] = "clear"]
      /\ raced' = raced \cup (r.met \cap Of(r.route))
      /\ UNCHANGED <<edition, stored, layout, task, floor>>
      /\ pc \in [Task -> Label] /\ edition \in Nat
  BY Types DEF PurgeTag, Goto, Undone, IInv, TasksGood
<1>2. pc[t] \in Renewing /\ pc[t] \notin Serving
  BY <1>1, LabelsApart DEF Renewing
<1>3. Progress("purge", r, Held, raced, edition)
  BY <1>1 DEF Freshness, TasksFresh
<1>4. Progress("clear", r, Held', raced', edition)
  BY <1>1, <1>3 DEF Progress, Renewing, Held
<1>5. Indexed'
  BY <1>1, UntaggedIsRaced
<1>6. \A u \in Task : pc[u] \in Serving => task[u].key \in r.met
  BY <1>2 DEF Freshness, MetOk
<1>7. /\ pc'[t] = "clear" /\ task' = task /\ edition <= edition' /\ raced \subseteq raced'
      /\ \A u \in Task \ {t} : pc'[u] = pc[u]
      /\ \A k \in Key : stored'[k] = stored[k]
  BY <1>1
<1>8. "clear" \in Renewing /\ edition' = edition /\ layout' = layout /\ floor' = floor
  BY <1>1 DEF Renewing
<1> HIDE DEF r
<1> QED
  BY <1>2, <1>4, <1>5, <1>6, <1>7, <1>8, RenewingStep DEF r

\* Before it promises anything a revalidation has seen to the keys it covers.
LEMMA PromiseSweeps ==
  ASSUME Freshness, NEW t \in Task,
         \/ pc[t] = "sweep" /\ task[t].todo = {}
         \/ pc[t] = "purge" /\ task[t].todo = {} /\ task[t].how # "action"
         \/ pc[t] = "clear",
         NEW k \in Covered(task[t]), k \notin Undone(task[t]), stored[k] # None
  PROVE  k \in task[t].unlisted /\ k \in raced
<1> DEFINE r == task[t]
<1>1. Progress(pc[t], r, Held, raced, edition)
  BY DEF Freshness, TasksFresh
<1>2. CASE pc[t] = "sweep"
  <2>1. r.how = "path"
    BY <1>1, <1>2 DEF Progress, Renewing
  <2>2. k \in Of(r.route) /\ (Html(k) \/ k.page \notin Bare) /\ k \notin r.met
    BY <2>1 DEF Covered, Undone
  <2>3. k \in (Of(r.route) \ r.met) \cap Held
    BY <2>2 DEF Held, Of
  <2> QED
    BY <1>1, <1>2, <2>2, <2>3 DEF Progress, Renewing
<1>3. CASE pc[t] = "purge"
  <2>1. r.how = "tag"
    BY <1>1, <1>3 DEF Progress, Renewing
  <2>2. k \in Of(r.route) /\ k \notin r.met
    BY <2>1 DEF Covered, Undone
  <2> QED
    BY <1>3, <2>2, PurgeLeaves
<1>4. CASE pc[t] = "clear"
  <2>1. r.how = "action"
    BY <1>1, <1>4 DEF Progress, Renewing
  <2>2. k \in Of(r.route) /\ k \notin r.met
    BY <2>1 DEF Covered, Undone
  <2>3. k \in (Of(r.route) \ r.met) \cap Held
    BY <2>2 DEF Held, Of
  <2> QED
    BY <1>1, <1>4, <2>3 DEF Progress, Renewing
<1> QED
  BY <1>2, <1>3, <1>4

\* The last step of a revalidation, when it promises.
LEMMA PromiseFresh ==
  ASSUME IInv, IInv', Freshness, NEW t \in Task, Clear(t) \/ PurgeTag(t),
         pc[t] = "purge" => task[t].how # "action"
  PROVE  Freshness'
<1> DEFINE r == task[t]
<1>1. /\ \/ pc[t] = "sweep" /\ r.todo = {}
         \/ pc[t] = "purge" /\ r.todo = {} /\ r.how # "action"
         \/ pc[t] = "clear"
      /\ Promise(t) /\ Return(t) /\ UNCHANGED <<edition, stored>>
  BY DEF Clear, PurgeTag
<1>2. /\ pc[t] \in Renewing /\ pc \in [Task -> Label] /\ task \in [Task -> Locals]
      /\ edition \in Nat /\ floor \in [Key -> Nat] /\ r.edition \in Nat /\ pc[t] \notin Serving
  BY <1>1, LabelsApart, Types DEF Renewing, IInv, TasksGood
<1>3. /\ pc'[t] = "idle"
      /\ \A u \in Task \ {t} : pc'[u] = pc[u] /\ task'[u] = task[u]
  BY <1>1, <1>2 DEF Return, Goto
<1>4. Progress(pc[t], r, Held, raced, edition)
  BY DEF Freshness, TasksFresh
<1>5. /\ r.how \in {"path", "tag", "action"} /\ r.edition <= edition
      /\ pc[t] = "purge" => r.how = "tag"
  BY <1>1, <1>2, <1>4 DEF Progress, Renewing
<1>6. /\ floor' = [k \in Key |-> IF k \in Covered(r) /\ r.edition > floor[k]
                                 THEN r.edition ELSE floor[k]]
      /\ raced' = (raced \ (Covered(r) \ r.unlisted)) \cup Undone(r)
  BY <1>1 DEF Promise
<1>7. \A k \in Key : k \notin Covered(r) => floor'[k] = floor[k]
  BY <1>6
<1>8. r.met \cap Covered(r) \subseteq Undone(r)
  BY <1>5 DEF Covered, Undone
\* What is kept and not raced is not covered: a promise about it stands.
<1>9. ASSUME NEW k \in Key, k \notin raced', stored[k] # None \/ k \in r.met
      PROVE  k \notin raced /\ k \notin Covered(r) /\ floor'[k] = floor[k]
  <2>1. k \notin Undone(r)
    BY <1>6, <1>9
  <2>2. k \notin Covered(r)
    <3> SUFFICES ASSUME k \in Covered(r) PROVE FALSE
      OBVIOUS
    <3>1. stored[k] # None
      BY <1>8, <1>9, <2>1
    <3>2. k \in r.unlisted /\ k \in raced
      BY <1>1, <2>1, <3>1, PromiseSweeps
    <3> QED
      BY <1>6, <1>9, <3>2
  <2> QED
    BY <1>6, <1>7, <1>9, <2>2
<1>10. KeptFresh'
  <2>1. ASSUME NEW k \in Key \ raced', stored[k] # None
        PROVE  stored[k].edition >= floor'[k]
    BY <1>9, <2>1 DEF Freshness, KeptFresh
  <2>2. ASSUME NEW k \in Key \ raced', Html(k), layout'[k.page] # None
        PROVE  layout'[k.page] >= floor'[k]
    <3>1. k.page \in Page
      BY DEF Key
    <3>2. ~Clear(t)
      BY <2>2, <3>1 DEF Clear
    <3>3. UNCHANGED layout /\ r.how = "tag"
      BY <1>5, <3>2 DEF PurgeTag
    <3>4. k \notin Covered(r)
      BY <2>2, <3>3 DEF Covered
    <3>5. k \notin raced /\ floor'[k] = floor[k]
      BY <1>6, <1>7, <3>4
    <3> QED
      BY <2>2, <3>3, <3>5 DEF Freshness, KeptFresh
  <2> QED
    BY <1>1, <2>1, <2>2 DEF KeptFresh
<1>11. Indexed'
  <2>1. CASE Clear(t)
    BY <1>1, <1>9, <2>1 DEF Clear, Freshness, Indexed, Held
  <2>2. CASE PurgeTag(t)
    <3>1. r.how = "tag"
      BY <1>5, <2>2 DEF PurgeTag
    <3>2. Of(r.route) \cap r.met \subseteq raced'
      BY <1>6, <3>1 DEF Undone
    <3> QED
      BY <1>9, <2>2, <3>2, UntaggedIsRaced
  <2> QED
    BY <2>1, <2>2
<1>12. FloorOk'
  BY <1>1, <1>2, <1>5, <1>6 DEF Freshness, FloorOk
<1>13. MetOk'
  BY <1>3, LabelsApart DEF Freshness, MetOk
<1>14. TasksFresh'
  <2> SUFFICES ASSUME NEW u \in Task
               PROVE  /\ FreshLocals(pc'[u], task'[u], floor', raced')
                      /\ Progress(pc'[u], task'[u], Held', raced', edition')
    BY DEF TasksFresh
  <2>1. CASE u = t
    BY <1>3, <2>1, LabelsApart DEF FreshLocals, Progress
  <2>2. CASE u # t
    <3>1. /\ FreshLocals(pc[u], task[u], floor, raced)
          /\ Progress(pc[u], task[u], Held, raced, edition)
          /\ pc'[u] = pc[u] /\ task'[u] = task[u] /\ Held' = Held
      BY <1>1, <1>3, <2>2 DEF Freshness, TasksFresh, Held
    <3>2. FreshLocals(pc[u], task[u], floor', raced')
      <4> SUFFICES ASSUME pc[u] \in Serving PROVE FreshLocals(pc[u], task[u], floor', raced')
        BY DEF FreshLocals
      <4>1. task[u].key \in Key /\ task[u].key \in r.met /\ task[u].since \in Nat
        BY <1>2, Types DEF Freshness, MetOk, Locals
      <4>2. floor[task[u].key] <= floor'[task[u].key]
        BY <1>2, <1>6, <4>1
      <4>3. task[u].since <= floor'[task[u].key]
        <5>1. floor'[task[u].key] \in Nat /\ floor[task[u].key] \in Nat
          BY <1>2, <4>1 DEF IInv, Rest
        <5> QED
          BY <3>1, <4>1, <4>2, <5>1 DEF FreshLocals
      <4>4. task[u].key \notin raced' =>
              task[u].key \notin raced /\ floor'[task[u].key] = floor[task[u].key]
        BY <1>9, <4>1
      <4> QED
        BY <3>1, <4>3, <4>4 DEF FreshLocals
    <3>3. Progress(pc[u], task[u], Held, raced', edition)
      <4>1. CASE pc[u] \in Renewing
        <5>1. \A k \in Held : k \in raced => k \in raced'
          BY <1>9 DEF Held
        <5>2. edition \in Nat /\ task[u].edition \in Nat /\ edition <= edition
          BY <4>1, Types
        <5> QED
          BY <3>1, <5>1, <5>2, ProgressStays
      <4>2. CASE pc[u] \notin Renewing
        BY <4>2 DEF Progress
      <4> QED
        BY <4>1, <4>2
    <3> QED
      BY <1>1, <3>1, <3>2, <3>3
  <2> QED
    BY <2>1, <2>2
<1> QED
  BY <1>10, <1>11, <1>12, <1>13, <1>14 DEF Freshness

\* What happens with no task: an entry leaves, the data change, or nothing.
LEMMA NobodyMoves ==
  ASSUME IInv, IInv', Freshness, UNCHANGED <<layout, pc, task, floor, raced>>,
         edition <= edition', Indexed',
         \A k \in Key : stored'[k] = None \/ stored'[k] = stored[k]
  PROVE  Freshness'
<1>1. KeptFresh' /\ FloorOk'
  BY ShrinkingKeeps, FloorStaysOk
<1>2. MetOk'
  BY DEF Freshness, MetOk
<1>3. TasksFresh'
  BY ShrinkingStays DEF TasksFresh
<1> QED
  BY <1>1, <1>2, <1>3 DEF Freshness

-----------------------------------------------------------------------------

LEMMA NextKeepsFreshness ==
  ASSUME IInv, Freshness, [Next]_vars
  PROVE  Freshness'
<1>1. IInv' /\ edition \in Nat
  BY NextKeepsIInv, Types
<1>2. ASSUME NEW t \in Task, Serve(t) PROVE Freshness'
  BY <1>1, <1>2, RequestFresh, UnderWayFresh, StoreFresh, UpdateFresh DEF Serve
<1>3. ASSUME NEW t \in Task, Revalidate(t) PROVE Freshness'
  <2>1. ASSUME Clear(t) \/ PurgeTag(t) PROVE Freshness'
    <3>1. CASE Clear(t)
      BY <1>1, <3>1, PromiseFresh DEF Clear
    <3>2. CASE PurgeTag(t)
      BY <1>1, <3>2, PromiseFresh, PurgeActionFresh
    <3> QED
      BY <2>1, <3>1, <3>2
  <2> QED
    BY <1>1, <1>3, <2>1, BeginFresh, CopyFresh DEF Revalidate
<1>4. ASSUME NEW k \in Key, Leave(k) PROVE Freshness'
  <2>1. UNCHANGED <<edition, layout, pc, task, floor, raced>>
    BY <1>4 DEF Leave, promises
  <2>2. Indexed' /\ \A q \in Key : stored'[q] = None \/ stored'[q] = stored[q]
    <3>1. CASE Without(k)
      BY <2>1, <3>1, WithoutShrinks
    <3>2. CASE stored' = [stored EXCEPT ![k] = None] /\ UNCHANGED index
      BY <2>1, <3>2 DEF Freshness, Indexed, Held, IInv, StoredHonestly
    <3> QED
      BY <1>4, <3>1, <3>2 DEF Leave
  <2> QED
    BY <1>1, <2>1, <2>2, NobodyMoves
<1>5. CASE Publish
  <2>1. /\ UNCHANGED <<stored, index, layout, pc, task, floor, raced>>
        /\ edition' = edition + 1
    BY <1>5 DEF Publish, caches, promises
  <2>2. Indexed'
    BY <2>1, StoredStays
  <2> QED
    BY <1>1, <2>1, <2>2, NobodyMoves
<1>6. CASE UNCHANGED vars
  <2>1. UNCHANGED <<edition, stored, index, layout, pc, task, floor, raced>>
    BY <1>6 DEF vars
  <2>2. Indexed'
    BY <2>1, StoredStays
  <2> QED
    BY <1>1, <2>1, <2>2, NobodyMoves
<1> QED
  BY <1>2, <1>3, <1>4, <1>5, <1>6 DEF Next

(***************************************************************************)
(* After a revalidation or an action has returned, whoever asks for a page *)
(* it covers gets data as new as when it began, from either cache, unless  *)
(* a request for that page has overlapped it, for any number of requests   *)
(* and revalidations that overlap in any way (app_handler.rs:1166).        *)
(***************************************************************************)
THEOREM RevalidationsHold == Spec => []FreshAfterRevalidation
<1>1. IInv /\ Freshness => FreshAfterRevalidation
  <2> SUFFICES ASSUME IInv, Freshness, NEW t \in Task, pc[t] = "reply",
                      task[t].edition # None, task[t].key \notin raced
               PROVE  task[t].edition >= task[t].since
    BY DEF FreshAfterRevalidation
  <2>1. pc[t] \in Serving
    BY DEF Serving
  <2>2. /\ task[t].since <= floor[task[t].key] /\ task[t].edition >= floor[task[t].key]
    BY <2>1 DEF Freshness, TasksFresh, FreshLocals
  <2>3. /\ task[t].since \in Nat /\ task[t].edition \in Nat /\ floor[task[t].key] \in Nat
    BY <2>1, Types DEF Locals
  <2> QED
    BY <2>2, <2>3
<1>2. Init => IInv /\ Freshness
  BY InitIInv, InitFreshness
<1>3. IInv /\ Freshness /\ [Next]_vars => (IInv /\ Freshness)'
  BY NextKeepsIInv, NextKeepsFreshness
<1> QED
  BY <1>1, <1>2, <1>3, PTL DEF Spec
=============================================================================
