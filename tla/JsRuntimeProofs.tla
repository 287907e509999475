-------------------------- MODULE JsRuntimeProofs --------------------------
(***************************************************************************)
(* Theorems about JsRuntime, for every set of scripts, batches and module  *)
(* requests and every size of a batch.                                     *)
(***************************************************************************)
EXTENDS JsRuntime, FiniteSetTheorems, SequenceTheorems, TLAPS

(* Cells and what is in them.                                              *)
LEMMA SharedType == Shared \in Nat \X Nat /\ Shared[1] = 0
  BY DEF Shared

LEMMA PlaceFields ==
  ASSUME NEW p \in Places
  PROVE  /\ p.cell \in Nat \X Nat /\ p.cell[1] \in Nat
         /\ p.call \in Scripts \cup Items
         /\ p = In(p.cell, p.call)
  BY DEF Places, In

LEMMA InType ==
  ASSUME NEW cell \in Nat \X Nat, NEW c \in Scripts \cup Items
  PROVE  /\ In(cell, c) \in Places
         /\ In(cell, c).cell = cell /\ In(cell, c).call = c
  BY DEF Places, In

LEMMA ItemType ==
  ASSUME NEW b \in Batches, NEW i \in 1..Size
  PROVE  <<b, i>> \in Items /\ <<b, i>>[1] = b
  BY DEF Items

LEMMA ResultFrom ==
  ASSUME NEW cell, Filled(cell)
  PROVE  \E r \in settled : r.cell = cell /\ ResultIn(cell) = r.call
  BY DEF Filled, ResultIn

(* The numbers that slot_key gives to the scripts of a batch.              *)
LEMMA PlaceType ==
  ASSUME NEW outcome, NEW i \in 1..Size
  PROVE  Place(outcome, i) \in Nat
<1> DEFINE before == {j \in 1..(i - 1) : outcome[j] # "throws"}
<1>1. i - 1 \in Int /\ 1 \in Int
  BY RuntimeAssumption
<1>2. IsFiniteSet(1..(i - 1))
  BY <1>1, FS_Interval
<1>3. IsFiniteSet(before)
  BY <1>2, FS_Subset
<1> QED
  BY <1>3, FS_CardinalityType DEF Place

(* A script that did not throw counts for those after it.                  *)
LEMMA PlaceGrows ==
  ASSUME NEW outcome, NEW i \in 1..Size, NEW j \in 1..Size,
         i < j, outcome[i] # "throws"
  PROVE  Place(outcome, i) # Place(outcome, j)
<1> DEFINE Before(k) == {l \in 1..(k - 1) : outcome[l] # "throws"}
<1>1. i \in Int /\ j \in Int /\ 1 <= i
  BY RuntimeAssumption
<1>2. IsFiniteSet(1..(j - 1))
  BY <1>1, FS_Interval
<1>3. IsFiniteSet(Before(j))
  BY <1>2, FS_Subset
<1>4. Before(i) \subseteq Before(j)
  BY <1>1
<1>5. i \in Before(j) /\ i \notin Before(i)
  BY <1>1
<1>6. Cardinality(Before(i)) # Cardinality(Before(j))
  <2> HIDE DEF Before
  <2> QED
    BY <1>3, <1>4, <1>5, FS_Subset
<1> QED
  BY <1>6 DEF Place

LEMMA PlaceInjective ==
  ASSUME NEW outcome, NEW i \in 1..Size, NEW j \in 1..Size,
         outcome[i] # "throws", outcome[j] # "throws",
         Place(outcome, i) = Place(outcome, j)
  PROVE  i = j
<1>1. i \in Int /\ j \in Int
  BY RuntimeAssumption
<1>2. ~(i < j) /\ ~(j < i)
  BY PlaceGrows
<1> QED
  BY <1>1, <1>2

(* What a step leaves of the channel.                                      *)
LEMMA TakeType ==
  ASSUME TypeOK, NEW r, Take(r)
  PROVE  /\ r \in Requests /\ queue' \in Seq(Requests) /\ called' = called
         /\ pc = "ready" /\ current = None
  BY HeadTailProperties DEF TypeOK, Take

LEMMA AnswersType ==
  ASSUME TypeOK, NEW c \in Callers, NEW a \in Callers \cup {None, Failed, Graceful},
         Answer(c, a)
  PROVE  /\ answer' \in [Callers -> Callers \cup {None, Failed, Graceful}]
         /\ answer'[c] = a /\ \A d \in Callers \ {c} : answer'[d] = answer[d]
  BY DEF TypeOK, Answer

LEMMA InitBatchInv == Init => BatchInv
<1> SUFFICES ASSUME Init PROVE BatchInv
  OBVIOUS
<1>1. queue \in Seq(Requests)
  BY EmptySeq DEF Init
<1>2. TypeOK
  BY <1>1 DEF Init, TypeOK, CallsOf
<1>3. Numbered /\ OwnCells
  BY DEF Init, Numbered, OwnCells
<1>4. BatchOwnAnswer
  BY RuntimeAssumption DEF Init, BatchOwnAnswer, Callers
<1> QED
  BY <1>2, <1>3, <1>4 DEF BatchInv

(* Steps that start nothing and answer no item with another's result.      *)
LEMMA QuietCells ==
  ASSUME Numbered, OwnCells, lastId' = lastId, open' \subseteq open,
         running' \cup settled' \subseteq running \cup settled
  PROVE  Numbered' /\ OwnCells'
  BY DEF Numbered, OwnCells

LEMMA NoCells ==
  ASSUME open' = {}, running' = {}, settled' = {}
  PROVE  Numbered' /\ OwnCells'
  BY DEF Numbered, OwnCells

LEMMA OwnKept ==
  ASSUME BatchOwnAnswer, \A c \in Items : answer'[c] \in {answer[c], Failed, Graceful, c}
  PROVE  BatchOwnAnswer'
  BY RuntimeAssumption DEF BatchOwnAnswer

(* An answer to a script or to a module request is none to an item.        *)
LEMMA NotAnItem ==
  ASSUME TypeOK, BatchOwnAnswer, NEW c \in Scripts \cup Modules, NEW a, Answer(c, a)
  PROVE  BatchOwnAnswer'
<1>1. \A d \in Items : answer'[d] = answer[d]
  BY RuntimeAssumption DEF TypeOK, Answer, Callers
<1> QED
  BY <1>1, OwnKept

LEMMA SendBatchInv ==
  ASSUME BatchInv, NEW r \in Requests, Send(r)
  PROVE  BatchInv'
<1>1. UNCHANGED <<pc, current, stopping, running, settled, lastId, pending, open, late, answer>>
  BY DEF Send, thread, isolate, batches
<1>2. queue' \in Seq(Requests) /\ called' \subseteq Requests
  BY AppendProperties DEF BatchInv, TypeOK, Send
<1>3. TypeOK'
  BY <1>1, <1>2 DEF BatchInv, TypeOK, CallsOf
<1> QED
  BY <1>1, <1>3, QuietCells, OwnKept DEF BatchInv

LEMMA ScriptReturnsBatchInv ==
  ASSUME BatchInv, NEW s \in Scripts, ScriptReturns(s)
  PROVE  BatchInv'
<1>1. PICK a \in {s, Failed} : Answer(s, a)
  BY DEF ScriptReturns
<1>2. UNCHANGED <<current, stopping, running, settled, lastId, pending, open, late>>
  BY DEF ScriptReturns, isolate, batches
<1>3. pc' \in {"check", "turn"} /\ current = None /\ queue' \in Seq(Requests) /\ called' = called
  BY TakeType DEF BatchInv, ScriptReturns, Handled
<1>4. answer' \in [Callers -> Callers \cup {None, Failed, Graceful}]
  BY <1>1, AnswersType DEF BatchInv, Callers
<1>5. TypeOK'
  BY <1>2, <1>3, <1>4 DEF BatchInv, TypeOK, CallsOf
<1> QED
  BY <1>1, <1>2, <1>5, QuietCells, NotAnItem DEF BatchInv

LEMMA ScriptBreaksBatchInv ==
  ASSUME BatchInv, NEW s \in Scripts, ScriptBreaks(s)
  PROVE  BatchInv'
<1>1. Answer(s, Graceful) /\ pc' = "down"
  BY DEF ScriptBreaks
<1>2. UNCHANGED <<current, stopping, running, settled, lastId, pending, open, late>>
  BY DEF ScriptBreaks, isolate, batches
<1>3. current = None /\ queue' \in Seq(Requests) /\ called' = called
  BY TakeType DEF BatchInv, ScriptBreaks
<1>4. answer' \in [Callers -> Callers \cup {None, Failed, Graceful}]
  BY <1>1, AnswersType DEF BatchInv, Callers
<1>5. TypeOK'
  BY <1>1, <1>2, <1>3, <1>4 DEF BatchInv, TypeOK, CallsOf
<1> QED
  BY <1>1, <1>2, <1>5, QuietCells, NotAnItem DEF BatchInv

LEMMA ScriptAwaitsBatchInv ==
  ASSUME BatchInv, NEW s \in Scripts, ScriptAwaits(s)
  PROVE  BatchInv'
<1>1. UNCHANGED <<stopping, lastId, pending, open, late, answer>>
  BY DEF ScriptAwaits, batches
<1>2. queue' \in Seq(Requests) /\ called' = called
  BY TakeType DEF BatchInv, ScriptAwaits
<1>3. /\ In(Shared, s) \in Places /\ In(Shared, s).cell = Shared
      /\ In(Shared, s).call = s /\ Shared[1] = 0
  BY InType, SharedType
<1>4. running' = running \cup {In(Shared, s)} /\ settled' \subseteq settled
  BY DEF ScriptAwaits
<1>5. pc' = "wait" /\ current' = s /\ s # None
  BY RuntimeAssumption DEF ScriptAwaits, Callers
<1>6. TypeOK'
  BY <1>1, <1>2, <1>3, <1>4, <1>5 DEF BatchInv, TypeOK, CallsOf
<1>7. Numbered'
  BY <1>1, <1>3, <1>4 DEF BatchInv, Numbered, TypeOK
<1>8. \A w \in open : w.cell # Shared
  BY <1>3 DEF BatchInv, Numbered
<1>9. OwnCells'
  BY <1>1, <1>3, <1>4, <1>8 DEF BatchInv, OwnCells
<1> QED
  BY <1>1, <1>6, <1>7, <1>9, OwnKept DEF BatchInv

LEMMA EvaluateModuleBatchInv ==
  ASSUME BatchInv, NEW m \in Modules, EvaluateModule(m)
  PROVE  BatchInv'
<1>1. PICK a \in {m, Failed} : Answer(m, a)
  BY DEF EvaluateModule
<1>2. /\ stopping' \in BOOLEAN
      /\ UNCHANGED <<current, running, settled, lastId, pending, open, late>>
  BY DEF EvaluateModule, isolate, batches, BatchInv, TypeOK
<1>3. pc' \in {"check", "turn"} /\ current = None /\ queue' \in Seq(Requests) /\ called' = called
  BY TakeType DEF BatchInv, EvaluateModule, Handled
<1>4. answer' \in [Callers -> Callers \cup {None, Failed, Graceful}]
  BY <1>1, AnswersType DEF BatchInv, Callers
<1>5. TypeOK'
  BY <1>2, <1>3, <1>4 DEF BatchInv, TypeOK, CallsOf
<1> QED
  BY <1>1, <1>2, <1>5, QuietCells, NotAnItem DEF BatchInv

(* What a batch that starts adds to the cells and to the senders.          *)
LEMMA StartBatchAdds ==
  ASSUME NEW b \in Batches, NEW outcome, StartBatch(b, outcome)
  PROVE  \E ran, sent \in SUBSET (1..Size) :
           /\ \A i \in ran \cup sent : outcome[i] # "throws"
           /\ \E p, v \in SUBSET {In(<<lastId + 1, Place(outcome, i)>>, <<b, i>>) : i \in ran} :
                running' = running \cup p /\ settled' = settled \cup v
           /\ open' = open \cup {In(<<lastId + 1, Place(outcome, i)>>, <<b, i>>) : i \in sent}
           /\ sent # {} => pending' = pending \cup {b}
<1> DEFINE With(os) == {i \in 1..Size : outcome[i] \in os}
           Cells(o) == {In(<<lastId + 1, Place(outcome, i)>>, <<b, i>>) : i \in With({o})}
           both == With({"promise", "value"})
<1>1. /\ running' = running \cup Cells("promise")
      /\ settled' = settled \cup Cells("value")
      /\ open' = open \cup {In(<<lastId + 1, Place(outcome, i)>>, <<b, i>>) : i \in both}
      /\ pending' = IF NotEmpty(outcome) THEN pending \cup {b} ELSE pending
  BY Zenon DEF StartBatch, NextId, CellPlace
<1>2. both \in SUBSET (1..Size) /\ \A i \in both : outcome[i] # "throws"
  OBVIOUS
<1>3. /\ Cells("promise") \subseteq {In(<<lastId + 1, Place(outcome, i)>>, <<b, i>>) : i \in both}
      /\ Cells("value") \subseteq {In(<<lastId + 1, Place(outcome, i)>>, <<b, i>>) : i \in both}
  OBVIOUS
<1>4. both # {} => pending' = pending \cup {b}
  BY <1>1 DEF NotEmpty
<1> QED
  BY <1>1, <1>2, <1>3, <1>4

(* The cells of a batch have a new number, and one script each.            *)
LEMMA StartBatchCells ==
  ASSUME BatchInv, NEW b \in Batches, NEW outcome, StartBatch(b, outcome)
  PROVE  /\ running' \subseteq Places /\ settled' \subseteq Places /\ open' \subseteq Places
         /\ CallsOf(open') \subseteq pending' \X (1..Size)
         /\ Numbered' /\ OwnCells'
<1> DEFINE New(i) == In(<<lastId + 1, Place(outcome, i)>>, <<b, i>>)
<1>1. PICK ran \in SUBSET (1..Size), sent \in SUBSET (1..Size) :
           /\ \A i \in ran \cup sent : outcome[i] # "throws"
           /\ \E p, v \in SUBSET {New(i) : i \in ran} :
                running' = running \cup p /\ settled' = settled \cup v
           /\ open' = open \cup {New(i) : i \in sent}
           /\ sent # {} => pending' = pending \cup {b}
  BY StartBatchAdds
<1>2. lastId \in Nat /\ lastId' = lastId + 1
  BY DEF BatchInv, TypeOK, StartBatch, NextId
<1>3. \A i \in 1..Size :
        /\ New(i) \in Places
        /\ New(i).cell = <<lastId + 1, Place(outcome, i)>> /\ New(i).call = <<b, i>>
        /\ New(i).call \in Items
  <2> SUFFICES ASSUME NEW i \in 1..Size
               PROVE  /\ New(i) \in Places
                      /\ New(i).cell = <<lastId + 1, Place(outcome, i)>>
                      /\ New(i).call = <<b, i>> /\ New(i).call \in Items
    OBVIOUS
  <2>1. <<lastId + 1, Place(outcome, i)>> \in Nat \X Nat
    BY <1>2, PlaceType
  <2>2. <<b, i>> \in Items
    BY ItemType
  <2> QED
    BY <2>1, <2>2, InType
<1>4. \A r \in (running' \cup settled') \ (running \cup settled) : \E i \in ran : r = New(i)
  BY <1>1
<1>5. \A w \in open' \ open : \E i \in sent : w = New(i)
  BY <1>1
<1> HIDE DEF New
<1>6. pending \subseteq pending'
  BY Zenon DEF StartBatch
<1>7. running' \subseteq Places /\ settled' \subseteq Places /\ open' \subseteq Places
  <2>1. \A r \in running' \cup settled' : r \in Places
    BY <1>3, <1>4 DEF BatchInv, TypeOK
  <2>2. \A w \in open' : w \in Places
    BY <1>3, <1>5 DEF BatchInv, TypeOK
  <2> QED
    BY <2>1, <2>2
<1>8. CallsOf(open') \subseteq pending' \X (1..Size)
  <2> SUFFICES ASSUME NEW w \in open' PROVE w.call \in pending' \X (1..Size)
    BY DEF CallsOf
  <2>1. CASE w \in open
    BY <1>6, <2>1 DEF BatchInv, TypeOK, CallsOf
  <2>2. CASE w \notin open
    <3>1. PICK i \in sent : w = New(i)
      BY <1>5, <2>2
    <3>2. w.call = <<b, i>> /\ i \in 1..Size
      BY <1>3, <3>1
    <3>3. b \in pending'
      BY <1>1, <3>1
    <3> QED
      BY <3>2, <3>3
  <2> QED
    BY <2>1, <2>2
<1>9. Numbered'
  <2>1. ASSUME NEW r \in running' \cup settled'
        PROVE  r.cell[1] <= lastId' /\ (r.cell = Shared <=> r.call \in Scripts)
    <3>1. CASE r \in running \cup settled
      BY <1>2, <3>1, PlaceFields DEF BatchInv, TypeOK, Numbered
    <3>2. CASE r \notin running \cup settled
      <4>1. PICK i \in ran : r = New(i)
        BY <1>4, <3>2
      <4>2. r.cell[1] = lastId + 1 /\ r.call \notin Scripts
        BY <1>3, <4>1, RuntimeAssumption
      <4> QED
        BY <1>2, <4>2, SharedType
    <3> QED
      BY <3>1, <3>2
  <2>2. ASSUME NEW w \in open' PROVE w.cell[1] \in 1..lastId'
    <3>1. CASE w \in open
      BY <1>2, <3>1 DEF BatchInv, Numbered
    <3>2. CASE w \notin open
      <4>1. PICK i \in sent : w = New(i)
        BY <1>5, <3>2
      <4>2. w.cell[1] = lastId + 1
        BY <1>3, <4>1
      <4> QED
        BY <1>2, <4>2
    <3> QED
      BY <3>1, <3>2
  <2> QED
    BY <2>1, <2>2 DEF Numbered
<1>10. OwnCells'
  <2> SUFFICES ASSUME NEW w \in open', NEW r \in running' \cup settled', r.cell = w.cell
               PROVE  r.call = w.call
    BY DEF OwnCells
  <2>1. \A q \in running \cup settled \cup open : q.cell[1] \in Int /\ q.cell[1] <= lastId
    BY <1>2, PlaceFields DEF BatchInv, TypeOK, Numbered
  <2>2. CASE w \in open /\ r \in running \cup settled
    BY <2>2 DEF BatchInv, OwnCells
  <2>3. CASE w \notin open /\ r \notin running \cup settled
    <3>1. PICK i \in sent, j \in ran : w = New(i) /\ r = New(j)
      BY <1>4, <1>5, <2>3
    <3>2. Place(outcome, i) = Place(outcome, j)
      BY <1>3, <3>1
    <3>3. i = j
      BY <1>1, <3>2, PlaceInjective
    <3> QED
      BY <3>1, <3>3
  <2>4. CASE w \in open /\ r \notin running \cup settled
    <3>1. r.cell[1] = lastId + 1
      BY <1>3, <1>4, <2>4
    <3> QED
      BY <1>2, <2>1, <2>4, <3>1
  <2>5. CASE w \notin open /\ r \in running \cup settled
    <3>1. w.cell[1] = lastId + 1
      BY <1>3, <1>5, <2>5
    <3> QED
      BY <1>2, <2>1, <2>5, <3>1
  <2> QED
    BY <2>2, <2>3, <2>4, <2>5
<1> QED
  BY <1>7, <1>8, <1>9, <1>10

LEMMA StartBatchBatchInv ==
  ASSUME BatchInv, NEW b \in Batches, NEW outcome, StartBatch(b, outcome)
  PROVE  BatchInv'
<1> DEFINE failed == {i \in 1..Size : outcome[i] \in {"throws", "untracked"}}
<1>1. UNCHANGED <<current, stopping, late>>
  BY DEF StartBatch
<1>2. pc' \in {"check", "turn"} /\ current = None /\ queue' \in Seq(Requests) /\ called' = called
  BY TakeType DEF BatchInv, StartBatch, Handled
<1>3. /\ pending \subseteq pending' /\ pending' \subseteq pending \cup {b}
      /\ lastId' = lastId + 1
  BY Zenon DEF StartBatch, NextId
<1>4. answer' = [c \in Callers |->
                   IF \E i \in failed : c = <<b, i>> THEN Failed ELSE answer[c]]
  BY Zenon DEF StartBatch
<1> HIDE DEF failed
<1>5. answer' \in [Callers -> Callers \cup {None, Failed, Graceful}]
  BY <1>4 DEF BatchInv, TypeOK
<1>6. TypeOK'
  BY <1>1, <1>2, <1>3, <1>5, StartBatchCells DEF BatchInv, TypeOK, CallsOf
<1>7. BatchOwnAnswer'
  BY <1>4, OwnKept DEF BatchInv, Callers
<1> QED
  BY <1>6, <1>7, StartBatchCells DEF BatchInv

(* A cell takes the result of the promise whose reaction writes it.        *)
LEMMA SettleBatchInv ==
  ASSUME BatchInv, NEW r \in running, Settle(r)
  PROVE  BatchInv'
<1>1. UNCHANGED <<queue, called, pc, current, stopping, lastId, pending, open, late, answer>>
  BY DEF Settle, thread, batches
<1>2. /\ running' \subseteq running /\ settled' \subseteq settled \cup {r}
      /\ running' \cup settled' \subseteq running \cup settled
  BY DEF Settle
<1>3. TypeOK'
  BY <1>1, <1>2 DEF BatchInv, TypeOK, CallsOf
<1> QED
  BY <1>1, <1>2, <1>3, QuietCells, OwnKept DEF BatchInv

LEMMA FinishBatchInv ==
  ASSUME BatchInv, NEW a \in Callers \cup {Failed, Graceful}, Finish(a),
         pc' \in {"check", "turn", "down"}
  PROVE  BatchInv'
<1>1. current \in Scripts
  BY DEF BatchInv, TypeOK, Finish
<1>2. Answer(current, a) /\ current' = None
  BY DEF Finish
<1>3. UNCHANGED <<queue, called, stopping, running, settled, lastId, pending, open, late>>
  BY DEF Finish, isolate, batches
<1>4. answer' \in [Callers -> Callers \cup {None, Failed, Graceful}]
  BY <1>1, <1>2, AnswersType DEF BatchInv, Callers
<1>5. TypeOK'
  BY <1>2, <1>3, <1>4 DEF BatchInv, TypeOK, CallsOf
<1> QED
  BY <1>1, <1>2, <1>3, <1>5, QuietCells, NotAnItem DEF BatchInv

LEMMA WaitBatchInv == ASSUME BatchInv, Wait PROVE BatchInv'
<1>1. CASE WaitResolved
  <2>1. PICK r \in settled : ResultIn(Shared) = r.call
    BY <1>1, ResultFrom DEF WaitResolved
  <2>2. r.call \in Callers
    BY PlaceFields DEF BatchInv, TypeOK, Callers
  <2> QED
    BY <1>1, <2>1, <2>2, FinishBatchInv DEF WaitResolved, Handled
<1>2. CASE WaitTimedOut \/ WaitFails
  BY <1>2, FinishBatchInv DEF WaitTimedOut, WaitFails, Handled
<1>3. CASE WaitBreaks
  BY <1>3, FinishBatchInv DEF WaitBreaks
<1> QED
  BY <1>1, <1>2, <1>3 DEF Wait

(* Steps of a round that give no result.                                   *)
LEMMA QuietBatchInv ==
  ASSUME BatchInv,
         UNCHANGED <<queue, called, current, running, settled, lastId>>,
         stopping' \in BOOLEAN,
         pc' \in {"ready", "check", "retain", "turn", "down"}, current = None,
         pending' \subseteq pending, open' \subseteq open, late' \subseteq pending',
         CallsOf(open') \subseteq pending' \X (1..Size),
         answer' \in [Callers -> Callers \cup {None, Failed, Graceful}],
         \A c \in Items : answer'[c] \in {answer[c], Failed, Graceful, c}
  PROVE  BatchInv'
<1>1. TypeOK'
  BY DEF BatchInv, TypeOK, CallsOf
<1> QED
  BY <1>1, QuietCells, OwnKept DEF BatchInv

LEMMA LoopSliceBatchInv ==
  ASSUME BatchInv, LoopSlice \/ EndTurn \/ (\E b \in Batches : Deadline(b))
  PROVE  BatchInv'
<1>1. UNCHANGED <<queue, called, current, stopping, running, settled, lastId, pending, open, answer>>
  BY DEF LoopSlice, EndTurn, Deadline, thread, isolate, batches
<1>2. \/ pc' = pc
      \/ pc' \in {"ready", "check", "down"} /\ pc \in {"ready", "turn"}
  BY DEF LoopSlice, EndTurn, Deadline, thread
<1>3. late' \subseteq pending
  BY DEF BatchInv, TypeOK, LoopSlice, EndTurn, Deadline, batches
<1>4. TypeOK'
  BY <1>1, <1>2, <1>3 DEF BatchInv, TypeOK, CallsOf
<1> QED
  BY <1>1, <1>4, QuietCells, OwnKept DEF BatchInv

LEMMA LoopBreaksBatchInv == ASSUME BatchInv, LoopBreaks PROVE BatchInv'
<1>1. answer' = [c \in Callers |-> IF c \in CallsOf(open) THEN Graceful ELSE answer[c]]
  BY DEF LoopBreaks
<1>2. /\ answer' \in [Callers -> Callers \cup {None, Failed, Graceful}]
      /\ \A c \in Items : answer'[c] \in {answer[c], Graceful}
  BY <1>1 DEF BatchInv, TypeOK, Callers
<1>3. /\ UNCHANGED <<queue, called, current, stopping, running, settled, lastId>>
      /\ current = None /\ pc' = "down" /\ pending' = {} /\ open' = {} /\ late' = {}
  BY DEF LoopBreaks, isolate, BatchInv, TypeOK
<1> QED
  BY <1>2, <1>3, QuietBatchInv DEF CallsOf, BatchInv, TypeOK

(* What check_pending_batches sends comes from the sender's own cell.      *)
LEMMA CheckSendsOwn ==
  ASSUME BatchInv, NEW c,
         NEW done, done = {w \in open : Filled(w.cell)}, c \in CallsOf(done)
  PROVE  ResultIn((CHOOSE w \in done : w.call = c).cell) = c
<1> DEFINE w == CHOOSE w \in done : w.call = c
<1>1. w \in done /\ w.call = c
  BY DEF CallsOf
<1> HIDE DEF w
<1>2. PICK r \in settled : r.cell = w.cell /\ ResultIn(w.cell) = r.call
  BY <1>1, ResultFrom
<1>3. r.call = c
  BY <1>1, <1>2 DEF BatchInv, OwnCells
<1> QED
  BY <1>2, <1>3 DEF w

LEMMA CheckBatchInv == ASSUME BatchInv, Check PROVE BatchInv'
<1> DEFINE done == {w \in open : Filled(w.cell)}
<1>1. answer' = [c \in Callers |->
          IF c \in CallsOf(done)
          THEN ResultIn((CHOOSE w \in done : w.call = c).cell)
          ELSE IF c \in CallsOf(Overdue) THEN Failed ELSE answer[c]]
  BY Zenon DEF Check
<1>2. \A c \in CallsOf(done) : ResultIn((CHOOSE w \in done : w.call = c).cell) = c
  BY CheckSendsOwn
<1>3. /\ open' \subseteq open /\ settled' \subseteq settled
      /\ pc = "check" /\ pc' = "retain"
      /\ UNCHANGED <<queue, called, current, stopping, running, lastId, pending, late>>
  BY Zenon DEF Check
<1> HIDE DEF done
<1>4. answer' = [c \in Callers |->
          IF c \in CallsOf(done) THEN c
          ELSE IF c \in CallsOf(Overdue) THEN Failed ELSE answer[c]]
  BY <1>1, <1>2
<1>5. /\ answer' \in [Callers -> Callers \cup {None, Failed, Graceful}]
      /\ \A c \in Items : answer'[c] \in {answer[c], Failed, c}
  BY <1>4 DEF BatchInv, TypeOK, Callers
<1>6. CallsOf(open') \subseteq CallsOf(open)
  BY <1>3 DEF CallsOf
<1>7. TypeOK'
  BY <1>3, <1>5, <1>6 DEF BatchInv, TypeOK, CallsOf
<1> QED
  BY <1>3, <1>5, <1>7, QuietCells, OwnKept DEF BatchInv

LEMMA RetainBatchInv == ASSUME BatchInv, Retain PROVE BatchInv'
<1>1. /\ answer' = [c \in Callers |-> IF c \in CallsOf(Overdue) THEN Graceful ELSE answer[c]]
      /\ pending' = {b \in pending \ late : \E w \in open : w.call[1] = b}
      /\ late' = {} /\ open' = open \ Overdue /\ pc = "retain" /\ pc' = "turn"
      /\ UNCHANGED <<queue, called, current, stopping, running, settled, lastId>>
  BY DEF Retain, isolate
<1>2. /\ answer' \in [Callers -> Callers \cup {None, Failed, Graceful}]
      /\ \A c \in Items : answer'[c] \in {answer[c], Graceful}
  BY <1>1 DEF BatchInv, TypeOK, Callers
<1>3. CallsOf(open') \subseteq pending' \X (1..Size)
  <2> SUFFICES ASSUME NEW w \in open \ Overdue PROVE w.call \in pending' \X (1..Size)
    BY <1>1 DEF CallsOf
  <2>1. w.call \in pending \X (1..Size) /\ w.call[1] \notin late
    BY DEF BatchInv, TypeOK, CallsOf, Overdue
  <2> QED
    BY <1>1, <2>1
<1>4. current = None /\ stopping' \in BOOLEAN
  BY <1>1 DEF BatchInv, TypeOK
<1> QED
  BY <1>1, <1>2, <1>3, <1>4, QuietBatchInv

LEMMA RestartBatchInv == ASSUME BatchInv, Restart PROVE BatchInv'
<1>1. /\ answer' = [c \in Callers |-> IF c \in CallsOf(open) THEN Graceful ELSE answer[c]]
      /\ pending' = {} /\ late' = {} /\ open' = {} /\ running' = {} /\ settled' = {}
      /\ lastId' = 0 /\ stopping' = FALSE /\ pc = "down" /\ pc' = "ready"
      /\ UNCHANGED <<queue, called, current>>
  BY DEF Restart
<1>2. /\ answer' \in [Callers -> Callers \cup {None, Failed, Graceful}]
      /\ \A c \in Items : answer'[c] \in {answer[c], Graceful}
  BY <1>1 DEF BatchInv, TypeOK, Callers
<1>3. TypeOK'
  BY <1>1, <1>2 DEF BatchInv, TypeOK, CallsOf
<1> QED
  BY <1>1, <1>2, <1>3, NoCells, OwnKept DEF BatchInv

LEMMA StepBatchInv == BatchInv /\ [Next]_vars => BatchInv'
<1> SUFFICES ASSUME BatchInv, [Next]_vars PROVE BatchInv'
  OBVIOUS
<1>1. CASE UNCHANGED vars
  BY <1>1 DEF vars, thread, isolate, batches, BatchInv, TypeOK, CallsOf, Numbered,
              OwnCells, BatchOwnAnswer
<1>2. CASE \E r \in Requests : Send(r)
  BY <1>2, SendBatchInv
<1>3. CASE Handle
  BY <1>3, ScriptReturnsBatchInv, ScriptBreaksBatchInv, ScriptAwaitsBatchInv,
     StartBatchBatchInv, EvaluateModuleBatchInv DEF Handle
<1>4. CASE Wait
  BY <1>4, WaitBatchInv
<1>5. CASE Round \/ (\E b \in Batches : Deadline(b))
  BY <1>5, LoopSliceBatchInv, LoopBreaksBatchInv, CheckBatchInv, RetainBatchInv,
     RestartBatchInv DEF Round
<1>6. CASE \E r \in running : Settle(r)
  BY <1>6, SettleBatchInv
<1> QED
  BY <1>1, <1>2, <1>3, <1>4, <1>5, <1>6 DEF Next

-----------------------------------------------------------------------------
LEMMA AlwaysBatchInv == Spec => []BatchInv
  BY InitBatchInv, StepBatchInv, PTL DEF Spec

(* The thread, its isolate and its pending batches keep their types: a     *)
(* sender that is open belongs to a batch that is pending.                 *)
THEOREM RuntimeTypeCorrect == Spec => []TypeOK
<1>1. BatchInv => TypeOK
  BY DEF BatchInv
<1> QED
  BY <1>1, AlwaysBatchInv, PTL

(* However many batches run side by side, whatever order their promises    *)
(* settle in, a script of a batch gets its own result or an error.         *)
THEOREM BatchesKeepApart == Spec => []BatchOwnAnswer
<1>1. BatchInv => BatchOwnAnswer
  BY DEF BatchInv
<1> QED
  BY <1>1, AlwaysBatchInv, PTL

-----------------------------------------------------------------------------
(* Scripts: what the request loop keeps of those that wait.                *)
LEMMA InitScriptInv == Init => ScriptInv
<1> SUFFICES ASSUME Init PROVE ScriptInv
  OBVIOUS
<1>1. Len(queue) = 0 /\ current = None /\ running = {} /\ pc = "ready"
  BY EmptySeq DEF Init
<1>2. \A s \in Scripts : answer[s] = None /\ answer[s] \notin Callers
  BY RuntimeAssumption DEF Init, Callers
<1>3. Unanswered
  BY <1>1, <1>2 DEF Unanswered
<1> QED
  BY <1>1, <1>2, <1>3 DEF ScriptInv, SharedCell, StolenFromAbandoned

LEMMA QuietScripts ==
  ASSUME TypeOK, ScriptInv, UNCHANGED <<queue, called, current>>,
         \A s \in Scripts : answer'[s] = answer[s],
         running' \subseteq running, settled' \subseteq settled,
         pc' = "wait" => pc = "wait"
  PROVE  ScriptInv'
<1>1. Unanswered'
  <2>1. ASSUME current' # None
        PROVE  /\ current' \in called' /\ answer'[current'] = None
               /\ \A i \in 1..Len(queue') : queue'[i] # current'
    BY <2>1 DEF TypeOK, ScriptInv, Unanswered
  <2> QED
    BY <2>1 DEF ScriptInv, Unanswered
<1>2. SharedCell'
  BY DEF ScriptInv, SharedCell, GivenUp
<1>3. StolenFromAbandoned'
  BY DEF ScriptInv, StolenFromAbandoned
<1> QED
  BY <1>1, <1>2, <1>3 DEF ScriptInv

LEMMA SendScriptInv ==
  ASSUME TypeOK, ScriptInv, NEW r \in Requests, Send(r)
  PROVE  ScriptInv'
<1>1. /\ r \notin called /\ called' = called \cup {r}
      /\ UNCHANGED <<pc, current, running, settled, answer>>
  BY DEF Send, thread, isolate
<1>2. /\ Len(queue) \in Nat /\ Len(queue') = Len(queue) + 1
      /\ \A i \in 1..Len(queue) : queue'[i] = queue[i]
      /\ queue'[Len(queue) + 1] = r
  BY AppendProperties, LenProperties DEF TypeOK, Send
<1>3. \A i \in 1..Len(queue') : i \in 1..Len(queue) \/ i = Len(queue) + 1
  BY <1>2
<1>4. \A i \in 1..Len(queue) : queue[i] # r
  BY <1>1 DEF ScriptInv, Unanswered
<1>5. Unanswered'
  <2>1. \A s \in Scripts \ called' : answer'[s] = None
    BY <1>1 DEF ScriptInv, Unanswered
  <2>2. ASSUME NEW i \in 1..Len(queue')
        PROVE  queue'[i] \in called' /\ (queue'[i] \in Scripts => answer'[queue'[i]] = None)
    BY <1>1, <1>2, <1>3 DEF ScriptInv, Unanswered
  <2>3. ASSUME NEW i \in 1..Len(queue'), NEW j \in 1..Len(queue'), queue'[i] = queue'[j]
        PROVE  i = j
    BY <1>2, <1>3, <1>4, <2>3 DEF ScriptInv, Unanswered
  <2>4. ASSUME current' # None
        PROVE  /\ current' \in called' /\ answer'[current'] = None
               /\ \A i \in 1..Len(queue') : queue'[i] # current'
    BY <1>1, <1>2, <1>3, <2>4 DEF ScriptInv, Unanswered
  <2> QED
    BY <2>1, <2>2, <2>3, <2>4 DEF Unanswered
<1>6. SharedCell' /\ StolenFromAbandoned'
  BY <1>1 DEF ScriptInv, SharedCell, GivenUp, StolenFromAbandoned
<1> QED
  BY <1>5, <1>6 DEF ScriptInv

(* A request that is taken has no answer, and is not in the channel again. *)
LEMMA Taken ==
  ASSUME TypeOK, Unanswered, NEW r, Take(r)
  PROVE  /\ r \in called /\ (r \in Scripts => answer[r] = None)
         /\ \A i \in 1..Len(queue') :
              /\ queue'[i] \in called /\ queue'[i] # r
              /\ queue'[i] \in Scripts => answer[queue'[i]] = None
         /\ \A i, j \in 1..Len(queue') : queue'[i] = queue'[j] => i = j
<1>1. /\ queue \in Seq(Requests) /\ queue # <<>>
      /\ r = Head(queue) /\ queue' = Tail(queue)
  BY DEF TypeOK, Take
<1>2. /\ Len(queue) \in Nat /\ 1 \in 1..Len(queue) /\ r = queue[1]
      /\ Len(queue') = Len(queue) - 1
      /\ \A i \in 1..Len(queue') : queue'[i] = queue[i + 1]
  BY <1>1, HeadTailProperties, EmptySeq, LenProperties
<1>3. \A i \in 1..Len(queue') : i \in Int /\ i + 1 \in 1..Len(queue) /\ i + 1 # 1
  BY <1>2
<1>4. r \in called /\ (r \in Scripts => answer[r] = None)
  BY <1>2 DEF Unanswered
<1>5. ASSUME NEW i \in 1..Len(queue')
      PROVE  /\ queue'[i] \in called /\ queue'[i] # r
             /\ queue'[i] \in Scripts => answer[queue'[i]] = None
  BY <1>2, <1>3 DEF Unanswered
<1>6. ASSUME NEW i \in 1..Len(queue'), NEW j \in 1..Len(queue'), queue'[i] = queue'[j]
      PROVE  i = j
  <2>1. i + 1 = j + 1
    BY <1>2, <1>3, <1>6 DEF Unanswered
  <2> QED
    BY <1>3, <2>1
<1> QED
  BY <1>4, <1>5, <1>6

(* The first answer of a script: its own, an error, or the result of a     *)
(* script that was given up.                                               *)
LEMMA FirstAnswer ==
  ASSUME TypeOK, StolenFromAbandoned, NEW s \in Scripts, answer[s] = None,
         NEW a \in Callers \cup {Failed, Graceful}, Answer(s, a),
         a \in Callers \ {s} => a \in Scripts /\ answer[a] \notin {None, a}
  PROVE  StolenFromAbandoned'
<1>1. answer'[s] = a /\ \A d \in Callers \ {s} : answer'[d] = answer[d]
  BY AnswersType DEF Callers
<1>2. Scripts \subseteq Callers
  BY DEF Callers
<1> SUFFICES ASSUME NEW t \in Scripts, answer'[t] \in Callers \ {t}
             PROVE  answer'[t] \in Scripts /\ answer'[answer'[t]] \notin {None, answer'[t]}
  BY DEF StolenFromAbandoned
<1>3. CASE t = s
  BY <1>1, <1>2, <1>3
<1>4. CASE t # s
  <2>1. answer[t] \in Scripts /\ answer[answer[t]] \notin {None, answer[t]}
    BY <1>1, <1>2, <1>4 DEF StolenFromAbandoned
  <2> QED
    BY <1>1, <1>2, <1>4, <2>1
<1> QED
  BY <1>3, <1>4

LEMMA UnansweredAfter ==
  ASSUME TypeOK, Unanswered, NEW r, Take(r), current' = None,
         \A s \in Scripts \ {r} : answer'[s] = answer[s]
  PROVE  Unanswered'
<1>1. called' = called
  BY DEF Take
<1>2. \A s \in Scripts \ called' : answer'[s] = None
  BY <1>1, Taken DEF Unanswered
<1>3. ASSUME NEW i \in 1..Len(queue')
      PROVE  queue'[i] \in called' /\ (queue'[i] \in Scripts => answer'[queue'[i]] = None)
  BY <1>1, Taken
<1>4. \A i, j \in 1..Len(queue') : queue'[i] = queue'[j] => i = j
  BY Taken
<1> QED
  BY <1>2, <1>3, <1>4 DEF Unanswered

LEMMA ScriptEndsScriptInv ==
  ASSUME TypeOK, ScriptInv, NEW s \in Scripts, ScriptReturns(s) \/ ScriptBreaks(s)
  PROVE  ScriptInv'
<1>1. PICK a \in {s, Failed, Graceful} : Answer(s, a)
  BY DEF ScriptReturns, ScriptBreaks
<1>2. /\ Take(s) /\ pc' # "wait" /\ current = None
      /\ UNCHANGED <<current, running, settled>>
  BY TakeType DEF ScriptReturns, ScriptBreaks, Handled, isolate
<1>3. s \in Callers /\ \A d \in Scripts \ {s} : answer'[d] = answer[d]
  BY <1>1, AnswersType DEF Callers
<1>4. answer[s] = None /\ s # None
  BY <1>2, Taken, RuntimeAssumption DEF ScriptInv, Callers
<1>5. Unanswered'
  BY <1>2, <1>3, UnansweredAfter DEF ScriptInv
<1>6. StolenFromAbandoned'
  BY <1>1, <1>3, <1>4, FirstAnswer, RuntimeAssumption DEF ScriptInv
<1>7. SharedCell'
  <2> SUFFICES ASSUME NEW t \in Scripts, In(Shared, t) \in running
               PROVE  answer'[t] \notin {None, t}
    BY <1>2 DEF SharedCell, GivenUp
  <2>1. GivenUp(t) /\ t # None
    BY RuntimeAssumption DEF ScriptInv, SharedCell, Callers
  <2>2. answer[t] \notin {None, t}
    BY <1>2, <2>1 DEF GivenUp
  <2> QED
    BY <1>3, <1>4, <2>2
<1> QED
  BY <1>5, <1>6, <1>7 DEF ScriptInv

LEMMA ScriptAwaitsScriptInv ==
  ASSUME TypeOK, ScriptInv, NEW s \in Scripts, ScriptAwaits(s)
  PROVE  ScriptInv'
<1>1. /\ Take(s) /\ pc = "ready" /\ current = None /\ pc' = "wait" /\ current' = s
      /\ called' = called
      /\ running' = running \cup {In(Shared, s)}
      /\ settled' = {r \in settled : r.cell # Shared}
      /\ UNCHANGED answer
  BY TakeType DEF ScriptAwaits
<1>2. Unanswered'
  <2>1. \A t \in Scripts \ called' : answer'[t] = None
    BY <1>1 DEF ScriptInv, Unanswered
  <2>2. ASSUME NEW i \in 1..Len(queue')
        PROVE  queue'[i] \in called' /\ (queue'[i] \in Scripts => answer'[queue'[i]] = None)
    BY <1>1, Taken DEF ScriptInv
  <2>3. \A i, j \in 1..Len(queue') : queue'[i] = queue'[j] => i = j
    BY <1>1, Taken DEF ScriptInv
  <2>4. /\ current' \in called' /\ answer'[current'] = None
        /\ \A i \in 1..Len(queue') : queue'[i] # current'
    BY <1>1, Taken DEF ScriptInv
  <2> QED
    BY <2>1, <2>2, <2>3, <2>4 DEF Unanswered
<1>3. SharedCell'
  <2> SUFFICES ASSUME NEW t \in Scripts
               PROVE  /\ In(Shared, t) \in running' => GivenUp(t)'
                      /\ In(Shared, t) \notin settled'
    BY DEF SharedCell
  <2>1. In(Shared, t) \notin settled' /\ In(Shared, t).call = t
    BY <1>1 DEF In
  <2>2. In(Shared, t) \in running' => In(Shared, t) \in running \/ t = s
    BY <1>1 DEF In
  <2>3. In(Shared, t) \in running => GivenUp(t) /\ t # None
    BY RuntimeAssumption DEF ScriptInv, SharedCell, Callers
  <2> QED
    BY <1>1, <2>1, <2>2, <2>3 DEF GivenUp
<1>4. StolenFromAbandoned'
  BY <1>1 DEF ScriptInv, StolenFromAbandoned
<1> QED
  BY <1>2, <1>3, <1>4 DEF ScriptInv

(* A batch or a module request that is taken leaves the scripts alone.     *)
LEMMA OthersTaken ==
  ASSUME TypeOK, ScriptInv, NEW r, Take(r), current' = current, pc' # "wait",
         \A s \in Scripts : /\ answer'[s] = answer[s]
                            /\ In(Shared, s) \in running' => In(Shared, s) \in running
  PROVE  ScriptInv'
<1>1. current = None
  BY TakeType
<1>2. Unanswered'
  BY <1>1, UnansweredAfter DEF ScriptInv
<1>3. SharedCell'
  BY DEF ScriptInv, SharedCell, GivenUp
<1>4. StolenFromAbandoned'
  BY DEF ScriptInv, StolenFromAbandoned
<1> QED
  BY <1>2, <1>3, <1>4 DEF ScriptInv

LEMMA StartBatchScriptInv ==
  ASSUME TypeOK, ScriptInv, NEW b \in Batches, NEW outcome, StartBatch(b, outcome)
  PROVE  ScriptInv'
<1> DEFINE failed == {i \in 1..Size : outcome[i] \in {"throws", "untracked"}}
           New(i) == In(<<lastId + 1, Place(outcome, i)>>, <<b, i>>)
<1>1. Take(b) /\ pc' # "wait" /\ current' = current
  BY DEF StartBatch, Handled
<1>2. answer' = [c \in Callers |->
                   IF \E i \in failed : c = <<b, i>> THEN Failed ELSE answer[c]]
  BY Zenon DEF StartBatch
<1>3. \A s \in Scripts : s \in Callers /\ \A i \in failed : s # <<b, i>>
  BY RuntimeAssumption, ItemType DEF Callers
<1> HIDE DEF failed
<1>4. \A s \in Scripts : answer'[s] = answer[s]
  BY <1>2, <1>3
<1>5. \A r \in running' \ running : \E i \in 1..Size : r = New(i)
  <2>1. PICK ran \in SUBSET (1..Size), sent \in SUBSET (1..Size) :
           /\ \A i \in ran \cup sent : outcome[i] # "throws"
           /\ \E p, v \in SUBSET {New(i) : i \in ran} :
                running' = running \cup p /\ settled' = settled \cup v
           /\ open' = open \cup {New(i) : i \in sent}
           /\ sent # {} => pending' = pending \cup {b}
    BY StartBatchAdds
  <2> HIDE DEF New
  <2> QED
    BY <2>1
<1>6. \A i \in 1..Size : New(i).cell[1] = lastId + 1 /\ lastId + 1 # 0
  BY DEF In, TypeOK
<1> HIDE DEF New
<1>7. \A s \in Scripts : In(Shared, s).cell[1] = 0
  BY SharedType DEF In
<1>8. \A s \in Scripts : In(Shared, s) \in running' => In(Shared, s) \in running
  BY <1>5, <1>6, <1>7
<1> QED
  BY <1>1, <1>4, <1>8, OthersTaken

LEMMA EvaluateModuleScriptInv ==
  ASSUME TypeOK, ScriptInv, NEW m \in Modules, EvaluateModule(m)
  PROVE  ScriptInv'
<1>1. Take(m) /\ pc' # "wait" /\ current' = current /\ running' = running
  BY DEF EvaluateModule, Handled, isolate
<1>2. \E a \in {m, Failed} : Answer(m, a)
  BY DEF EvaluateModule
<1>3. \A s \in Scripts : answer'[s] = answer[s]
  BY <1>2, RuntimeAssumption DEF TypeOK, Answer, Callers
<1> QED
  BY <1>1, <1>3, OthersTaken

(* The promise that settles may be that of the current script, or of one   *)
(* that was given up.                                                      *)
LEMMA SettleScriptInv ==
  ASSUME TypeOK, ScriptInv, NEW r \in running, Settle(r)
  PROVE  ScriptInv'
<1>1. /\ UNCHANGED <<queue, called, pc, current, answer>>
      /\ running' = running \ {r}
      /\ settled' = {q \in settled : q.cell # r.cell} \cup {r}
  BY DEF Settle, thread
<1>2. Unanswered' /\ StolenFromAbandoned'
  BY <1>1 DEF ScriptInv, Unanswered, StolenFromAbandoned
<1>3. SharedCell'
  <2> SUFFICES ASSUME NEW s \in Scripts
               PROVE  /\ In(Shared, s) \in running' => GivenUp(s)'
                      /\ pc' = "wait" /\ In(Shared, s) \in settled'
                           => GivenUp(s)' /\ In(Shared, s) \notin running'
    BY DEF SharedCell
  <2>1. GivenUp(s)' <=> GivenUp(s)
    BY <1>1 DEF GivenUp
  <2>2. In(Shared, s) \in running' => GivenUp(s)
    BY <1>1 DEF ScriptInv, SharedCell
  <2>3. CASE In(Shared, s) = r
    BY <1>1, <2>1, <2>3 DEF ScriptInv, SharedCell
  <2>4. CASE In(Shared, s) # r
    BY <1>1, <2>1, <2>2, <2>4 DEF ScriptInv, SharedCell
  <2> QED
    BY <2>3, <2>4
<1> QED
  BY <1>2, <1>3 DEF ScriptInv

(* The script the thread waits for gets its first answer.                  *)
LEMMA FinishScriptInv ==
  ASSUME TypeOK, ScriptInv, NEW a \in Callers \cup {Failed, Graceful}, Finish(a),
         pc' # "wait",
         a \in Callers => /\ a \in Scripts /\ GivenUp(a)
                         /\ In(Shared, a) \notin running
  PROVE  ScriptInv'
<1>1. /\ current \in Scripts /\ current # None /\ Answer(current, a) /\ current' = None
      /\ UNCHANGED <<queue, called, running, settled>>
  BY DEF TypeOK, Finish, isolate
<1>2. answer[current] = None
  BY <1>1 DEF ScriptInv, Unanswered
<1>3. /\ answer'[current] = a
      /\ \A s \in Scripts \ {current} : answer'[s] = answer[s]
  BY <1>1, AnswersType DEF Callers
<1>4. StolenFromAbandoned'
  BY <1>1, <1>2, FirstAnswer DEF ScriptInv, GivenUp
<1>5. Unanswered'
  <2>1. \A s \in Scripts \ called' : answer'[s] = None
    BY <1>1, <1>3 DEF ScriptInv, Unanswered
  <2>2. ASSUME NEW i \in 1..Len(queue')
        PROVE  queue'[i] \in called' /\ (queue'[i] \in Scripts => answer'[queue'[i]] = None)
    BY <1>1, <1>3 DEF ScriptInv, Unanswered
  <2>3. \A i, j \in 1..Len(queue') : queue'[i] = queue'[j] => i = j
    BY <1>1 DEF ScriptInv, Unanswered
  <2> QED
    BY <1>1, <2>1, <2>2, <2>3 DEF Unanswered
<1>6. SharedCell'
  <2> SUFFICES ASSUME NEW s \in Scripts, In(Shared, s) \in running
               PROVE  answer'[s] \notin {None, s}
    BY <1>1 DEF SharedCell, GivenUp
  <2>1. GivenUp(s) /\ s \in Callers
    BY DEF ScriptInv, SharedCell, Callers
  <2>2. CASE s = current
    BY <1>1, <1>3, <2>1, <2>2, RuntimeAssumption
  <2>3. CASE s # current
    BY <1>3, <2>1, <2>3 DEF GivenUp
  <2> QED
    BY <2>2, <2>3
<1> QED
  BY <1>4, <1>5, <1>6 DEF ScriptInv

LEMMA WaitScriptInv == ASSUME BatchInv, ScriptInv, Wait PROVE ScriptInv'
<1>1. CASE WaitResolved
  <2>1. PICK r \in settled : r.cell = Shared /\ ResultIn(Shared) = r.call
    BY <1>1, ResultFrom DEF WaitResolved
  <2>2. r.call \in Scripts /\ r = In(Shared, r.call) /\ r.call \in Callers
    BY <2>1, PlaceFields DEF BatchInv, TypeOK, Numbered, Callers
  <2>3. pc = "wait"
    BY <1>1 DEF WaitResolved, Finish
  <2>4. GivenUp(r.call) /\ In(Shared, r.call) \notin running
    BY <2>2, <2>3 DEF ScriptInv, SharedCell
  <2>5. Finish(r.call) /\ pc' # "wait"
    BY <1>1, <2>1 DEF WaitResolved, Handled
  <2> QED
    BY <2>2, <2>4, <2>5, FinishScriptInv DEF BatchInv
<1>2. CASE WaitTimedOut \/ WaitFails
  BY <1>2, FinishScriptInv, RuntimeAssumption DEF WaitTimedOut, WaitFails, Handled, BatchInv
<1>3. CASE WaitBreaks
  BY <1>3, FinishScriptInv, RuntimeAssumption DEF WaitBreaks, BatchInv
<1> QED
  BY <1>1, <1>2, <1>3 DEF Wait

(* The senders of batches answer items only.                               *)
LEMMA SendersAreItems ==
  ASSUME TypeOK, NEW s \in Scripts, NEW ws \in SUBSET open
  PROVE  s \notin CallsOf(ws) /\ s \in Callers
<1>1. CallsOf(ws) \subseteq Items
  BY DEF TypeOK, CallsOf, Items
<1> QED
  BY <1>1, RuntimeAssumption DEF Callers

LEMMA RoundScriptInv ==
  ASSUME TypeOK, ScriptInv, Round \/ (\E b \in Batches : Deadline(b))
  PROVE  ScriptInv'
<1>1. CASE LoopSlice \/ EndTurn \/ (\E b \in Batches : Deadline(b))
  BY <1>1, QuietScripts DEF LoopSlice, EndTurn, Deadline, thread, isolate
<1>2. CASE LoopBreaks
  BY <1>2, SendersAreItems, QuietScripts DEF LoopBreaks, isolate
<1>3. CASE Check
  <2> DEFINE done == {w \in open : Filled(w.cell)}
  <2>1. answer' = [c \in Callers |->
          IF c \in CallsOf(done)
          THEN ResultIn((CHOOSE w \in done : w.call = c).cell)
          ELSE IF c \in CallsOf(Overdue) THEN Failed ELSE answer[c]]
    BY <1>3, Zenon DEF Check
  <2>2. done \subseteq open /\ Overdue \subseteq open
    BY DEF Overdue
  <2> HIDE DEF done
  <2>3. \A s \in Scripts : answer'[s] = answer[s]
    BY <2>1, <2>2, SendersAreItems
  <2> QED
    BY <1>3, <2>3, QuietScripts DEF Check
<1>4. CASE Retain
  <2>1. Overdue \subseteq open
    BY DEF Overdue
  <2> QED
    BY <1>4, <2>1, SendersAreItems, QuietScripts DEF Retain, isolate
<1>5. CASE Restart
  BY <1>5, SendersAreItems, QuietScripts DEF Restart
<1> QED
  BY <1>1, <1>2, <1>3, <1>4, <1>5 DEF Round

LEMMA StepScriptInv == BatchInv /\ ScriptInv /\ [Next]_vars => ScriptInv'
<1> SUFFICES ASSUME BatchInv, ScriptInv, [Next]_vars PROVE ScriptInv'
  OBVIOUS
<1>0. TypeOK
  BY DEF BatchInv
<1>1. CASE UNCHANGED vars
  BY <1>0, <1>1, QuietScripts DEF vars, thread, isolate, batches
<1>2. CASE \E r \in Requests : Send(r)
  BY <1>0, <1>2, SendScriptInv
<1>3. CASE Handle
  BY <1>0, <1>3, ScriptEndsScriptInv, ScriptAwaitsScriptInv, StartBatchScriptInv,
     EvaluateModuleScriptInv DEF Handle
<1>4. CASE Wait
  BY <1>4, WaitScriptInv
<1>5. CASE Round \/ (\E b \in Batches : Deadline(b))
  BY <1>0, <1>5, RoundScriptInv
<1>6. CASE \E r \in running : Settle(r)
  BY <1>0, <1>6, SettleScriptInv
<1> QED
  BY <1>1, <1>2, <1>3, <1>4, <1>5, <1>6 DEF Next

(* However scripts time out and promises settle late: a script that gets   *)
(* the result of another gets it from one that was given up, so that a     *)
(* timeout comes before any mix-up.                                        *)
THEOREM OnlyAbandonedLeak == Spec => []StolenFromAbandoned
<1>1. Init => BatchInv /\ ScriptInv
  BY InitBatchInv, InitScriptInv
<1>2. BatchInv /\ ScriptInv /\ [Next]_vars => (BatchInv /\ ScriptInv)'
  BY StepBatchInv, StepScriptInv
<1>3. BatchInv /\ ScriptInv => StolenFromAbandoned
  BY DEF ScriptInv
<1> QED
  BY <1>1, <1>2, <1>3, PTL DEF Spec

-----------------------------------------------------------------------------
(* Senders of batches: each sends once.                                    *)
LEMMA SenderItem ==
  ASSUME TypeOK, NEW w \in open
  PROVE  /\ w.call \in Items /\ w.call[1] \in pending
         /\ \E i \in 1..Size : w.call = <<w.call[1], i>>
<1>1. w.call \in pending \X (1..Size)
  BY DEF TypeOK, CallsOf
<1> QED
  BY <1>1 DEF TypeOK, Items

LEMMA FreshStays ==
  ASSUME TypeOK, NEW b \in Batches, Fresh(b), b \notin pending',
         \A c \in Items : c \notin CallsOf(open) => answer'[c] = answer[c]
  PROVE  Fresh(b)'
<1>1. ASSUME NEW i \in 1..Size PROVE answer'[<<b, i>>] = None
  <2>1. <<b, i>> \in Items /\ <<b, i>>[1] = b
    BY ItemType
  <2>2. <<b, i>> \notin CallsOf(open)
    BY <2>1, SenderItem DEF CallsOf, Fresh
  <2> QED
    BY <2>1, <2>2 DEF Fresh
<1> QED
  BY <1>1 DEF Fresh

(* Steps that start no batch.                                              *)
LEMMA SendersKept ==
  ASSUME TypeOK, SendersInv, called \subseteq called',
         pending' \subseteq pending, open' \subseteq open,
         \A i \in 1..Len(queue') : queue'[i] \in Batches => Fresh(queue'[i]),
         \A c \in Items : c \notin CallsOf(open \ open') => answer'[c] = answer[c],
         pc' = "retain" => \A w \in open' : ~Filled(w.cell)'
  PROVE  SendersInv'
<1>1. CallsOf(open \ open') \subseteq CallsOf(open)
  BY DEF CallsOf
<1>2. \A b \in Batches : Fresh(b) => Fresh(b)'
  BY <1>1, FreshStays DEF Fresh
<1>3. \A b \in Batches \ called' : Fresh(b)'
  BY <1>2 DEF SendersInv
<1>4. \A i \in 1..Len(queue') : queue'[i] \in Batches => Fresh(queue[i])'
  <2> SUFFICES ASSUME NEW i \in 1..Len(queue'), queue'[i] \in Batches
               PROVE  Fresh(queue[i])'
    OBVIOUS
  <2>1. PICK b \in Batches : b = queue'[i]
    OBVIOUS
  <2>2. Fresh(b)'
    BY <1>2, <2>1
  <2> QED
    BY <2>1, <2>2 DEF Fresh
<1>5. ASSUME NEW w \in open' PROVE answer'[w.call] = None
  <2>1. w.call \in Items /\ w.call \notin CallsOf(open \ open')
    BY <1>5, SenderItem DEF SendersInv, CallsOf
  <2> QED
    BY <2>1 DEF SendersInv
<1>6. \A v, w \in open' : v.call = w.call => v = w
  BY DEF SendersInv
<1> QED
  BY <1>3, <1>4, <1>5, <1>6 DEF SendersInv

(* What is left in the channel after the first request.                    *)
LEMMA FreshLeft ==
  ASSUME TypeOK, SendersInv, NEW r, Take(r)
  PROVE  /\ r \in Batches => Fresh(r)
         /\ \A i \in 1..Len(queue') : queue'[i] \in Batches => Fresh(queue'[i])
<1>1. /\ queue \in Seq(Requests) /\ queue # <<>>
      /\ r = Head(queue) /\ queue' = Tail(queue)
  BY DEF TypeOK, Take
<1>2. /\ Len(queue) \in Nat /\ 1 \in 1..Len(queue) /\ r = queue[1]
      /\ Len(queue') = Len(queue) - 1
      /\ \A i \in 1..Len(queue') : queue'[i] = queue[i + 1]
  BY <1>1, HeadTailProperties, EmptySeq, LenProperties
<1>3. \A i \in 1..Len(queue') : i + 1 \in 1..Len(queue)
  BY <1>2
<1> QED
  BY <1>2, <1>3 DEF SendersInv

LEMMA NoItemAnswered ==
  ASSUME TypeOK, NEW c \in Scripts \cup Modules, NEW a, Answer(c, a)
  PROVE  \A d \in Items : answer'[d] = answer[d]
  BY RuntimeAssumption DEF TypeOK, Answer, Callers

LEMMA SendSenders ==
  ASSUME TypeOK, SendersInv, NEW r \in Requests, Send(r)
  PROVE  SendersInv'
<1>1. /\ r \notin called /\ called' = called \cup {r} /\ queue' = Append(queue, r)
      /\ UNCHANGED <<pc, settled, pending, open, answer>>
  BY DEF Send, thread, isolate, batches
<1>2. /\ Len(queue) \in Nat /\ Len(queue') = Len(queue) + 1
      /\ \A i \in 1..Len(queue) : queue'[i] = queue[i]
      /\ queue'[Len(queue) + 1] = r
  BY <1>1, AppendProperties, LenProperties DEF TypeOK
<1>3. \A i \in 1..Len(queue') : i \in 1..Len(queue) \/ i = Len(queue) + 1
  BY <1>2
<1>4. \A i \in 1..Len(queue') : queue'[i] \in Batches => Fresh(queue'[i])
  BY <1>1, <1>2, <1>3 DEF SendersInv
<1>5. pc' = "retain" => \A w \in open' : ~Filled(w.cell)'
  BY <1>1 DEF SendersInv, Filled
<1> QED
  BY <1>1, <1>4, <1>5, SendersKept

LEMMA TakeSenders ==
  ASSUME TypeOK, SendersInv,
         \/ \E s \in Scripts : ScriptReturns(s) \/ ScriptBreaks(s) \/ ScriptAwaits(s)
         \/ \E m \in Modules : EvaluateModule(m)
  PROVE  SendersInv'
<1>1. PICK r \in Scripts \cup Modules :
        /\ Take(r) /\ pc' # "retain" /\ UNCHANGED <<pending, open>>
        /\ answer' = answer \/ \E a : Answer(r, a)
  BY DEF ScriptReturns, ScriptBreaks, ScriptAwaits, EvaluateModule, Handled, batches
<1>2. \A c \in Items : answer'[c] = answer[c]
  BY <1>1, NoItemAnswered
<1>3. called' = called
  BY <1>1 DEF Take
<1> QED
  BY <1>1, <1>2, <1>3, FreshLeft, SendersKept

LEMMA StartBatchSenders ==
  ASSUME BatchInv, Unanswered, SendersInv, NEW b \in Batches, NEW outcome,
         StartBatch(b, outcome)
  PROVE  SendersInv'
<1> DEFINE New(i) == In(<<lastId + 1, Place(outcome, i)>>, <<b, i>>)
           With(os) == {i \in 1..Size : outcome[i] \in os}
           failed == With({"throws", "untracked"})
           tracked == With({"promise", "value"})
<1>1. Take(b) /\ called' = called /\ pc' # "retain"
  BY DEF StartBatch, Handled, Take
<1>2. answer' = [c \in Callers |->
                   IF \E i \in failed : c = <<b, i>> THEN Failed ELSE answer[c]]
  BY Zenon DEF StartBatch
<1>3. open' = open \cup {New(i) : i \in tracked}
  BY Zenon DEF StartBatch, NextId
<1>4. pending' \subseteq pending \cup {b}
  BY Zenon DEF StartBatch
<1>5. TypeOK /\ Fresh(b)
  BY <1>1, FreshLeft DEF BatchInv
<1>6. tracked \cap failed = {} /\ tracked \subseteq 1..Size
  OBVIOUS
<1>7. \A i : New(i).call = <<b, i>>
  BY DEF In
<1>8. \A v \in open : v.call[1] # b
  BY <1>5, SenderItem DEF Fresh
<1>9. \A i \in 1..Size : <<b, i>> \in Items /\ <<b, i>> \in Callers /\ <<b, i>>[1] = b
  BY ItemType DEF Callers
<1> HIDE DEF failed, tracked, New
<1>10. ASSUME NEW a \in Batches, a # b, Fresh(a) PROVE Fresh(a)'
  <2>1. \A i \in 1..Size : answer'[<<a, i>>] = answer[<<a, i>>]
    BY <1>2, <1>10, ItemType DEF Callers
  <2> QED
    BY <1>4, <1>10, <2>1 DEF Fresh
<1>11. \A a \in Batches \ called' : Fresh(a)'
  <2>1. b \in called
    BY <1>1, <1>5, Taken
  <2> QED
    BY <1>1, <1>10, <2>1 DEF SendersInv
<1>12. ASSUME NEW i \in 1..Len(queue'), queue'[i] \in Batches PROVE Fresh(queue[i])'
  <2>1. PICK a \in Batches : a = queue'[i]
    BY <1>12
  <2>2. a # b /\ Fresh(a)
    BY <1>1, <1>5, <2>1, FreshLeft, Taken
  <2>3. Fresh(a)'
    BY <1>10, <2>2
  <2> QED
    BY <2>1, <2>3 DEF Fresh
<1>13. ASSUME NEW w \in open' PROVE answer'[w.call] = None
  <2>1. CASE w \in open
    <3>1. w.call \in Callers /\ \A i \in failed : w.call # <<b, i>>
      BY <1>5, <1>8, <2>1, SenderItem DEF Callers
    <3> QED
      BY <1>2, <2>1, <3>1 DEF SendersInv
  <2>2. CASE w \notin open
    <3>1. PICK i \in tracked : w = New(i)
      BY <1>3, <2>2
    <3>2. w.call = <<b, i>> /\ i \in 1..Size /\ i \notin failed
      BY <1>6, <1>7, <3>1
    <3>3. answer'[<<b, i>>] = answer[<<b, i>>]
      BY <1>2, <1>9, <3>2
    <3> QED
      BY <1>5, <3>2, <3>3 DEF Fresh
  <2> QED
    BY <2>1, <2>2
<1>14. ASSUME NEW v \in open', NEW w \in open', v.call = w.call PROVE v = w
  <2>1. \A u \in open' : u \in open \/ \E i \in tracked : u = New(i) /\ u.call = <<b, i>>
    BY <1>3, <1>7
  <2> QED
    BY <1>8, <1>14, <2>1 DEF SendersInv
<1> QED
  BY <1>1, <1>11, <1>12, <1>13, <1>14 DEF SendersInv

LEMMA WaitSenders ==
  ASSUME TypeOK, SendersInv, Wait
  PROVE  SendersInv'
<1>1. /\ pc' # "retain" /\ UNCHANGED <<queue, called, pending, open>>
      /\ current \in Scripts /\ \E a : Answer(current, a)
  BY DEF Wait, WaitResolved, WaitTimedOut, WaitFails, WaitBreaks, Finish, Handled, TypeOK,
         batches
<1>2. \A c \in Items : answer'[c] = answer[c]
  BY <1>1, NoItemAnswered
<1> QED
  BY <1>1, <1>2, SendersKept DEF SendersInv

(* What the check and what follows it send.                                *)
LEMMA CheckAnswers ==
  ASSUME BatchInv, Check
  PROVE  /\ \A c \in Items : c \notin CallsOf(open \ open') => answer'[c] = answer[c]
         /\ \A w \in open : Filled(w.cell) => answer'[w.call] = w.call
         /\ \A w \in open' : ~Filled(w.cell)'
<1> DEFINE done == {w \in open : Filled(w.cell)}
<1>1. answer' = [c \in Callers |->
          IF c \in CallsOf(done)
          THEN ResultIn((CHOOSE w \in done : w.call = c).cell)
          ELSE IF c \in CallsOf(Overdue) THEN Failed ELSE answer[c]]
  BY Zenon DEF Check
<1>2. \A c \in CallsOf(done) : ResultIn((CHOOSE w \in done : w.call = c).cell) = c
  BY CheckSendsOwn
<1>3. open' = open \ (done \cup Overdue) /\ settled' \subseteq settled
  BY Zenon DEF Check
<1>4. done \subseteq open /\ Overdue \subseteq open
  BY DEF Overdue
<1>5. \A w \in open' : ~Filled(w.cell)'
  BY <1>3 DEF Filled
<1>6. \A w \in open : Filled(w.cell) => w.call \in CallsOf(done) /\ w.call \in Callers
  BY SenderItem DEF CallsOf, BatchInv, Callers
<1> HIDE DEF done
<1>7. CallsOf(done) \cup CallsOf(Overdue) \subseteq CallsOf(open \ open')
  BY <1>3, <1>4 DEF CallsOf
<1> QED
  BY <1>1, <1>2, <1>5, <1>6, <1>7 DEF Callers

LEMMA RetainAnswers ==
  ASSUME TypeOK, Retain
  PROVE  /\ \A c \in Items : c \notin CallsOf(open \ open') => answer'[c] = answer[c]
         /\ open' \subseteq open
<1>1. /\ answer' = [c \in Callers |-> IF c \in CallsOf(Overdue) THEN Graceful ELSE answer[c]]
      /\ open' = open \ Overdue
  BY DEF Retain
<1>2. CallsOf(Overdue) \subseteq CallsOf(open \ open')
  BY <1>1 DEF CallsOf, Overdue
<1> QED
  BY <1>1, <1>2 DEF Callers

LEMMA RoundSenders ==
  ASSUME BatchInv, SendersInv, Round \/ (\E b \in Batches : Deadline(b))
  PROVE  SendersInv'
<1>0. TypeOK
  BY DEF BatchInv
<1>1. CASE LoopSlice \/ EndTurn \/ (\E b \in Batches : Deadline(b))
  <2>1. /\ UNCHANGED <<queue, called, settled, pending, open, answer>>
        /\ pc' = "retain" => pc = "retain"
    BY <1>1 DEF LoopSlice, EndTurn, Deadline, thread, isolate, batches
  <2>2. pc' = "retain" => \A w \in open' : ~Filled(w.cell)'
    BY <2>1 DEF SendersInv, Filled
  <2> QED
    BY <1>0, <2>1, <2>2, SendersKept DEF SendersInv
<1>2. CASE LoopBreaks \/ Restart
  <2>1. /\ UNCHANGED <<queue, called>> /\ pending' = {} /\ open' = {} /\ pc' # "retain"
        /\ answer' = [c \in Callers |-> IF c \in CallsOf(open) THEN Graceful ELSE answer[c]]
    BY <1>2 DEF LoopBreaks, Restart
  <2>2. \A c \in Items : c \notin CallsOf(open \ open') => answer'[c] = answer[c]
    BY <2>1 DEF Callers
  <2> QED
    BY <1>0, <2>1, <2>2, SendersKept DEF SendersInv
<1>3. CASE Check
  <2>1. UNCHANGED <<queue, called, pending>> /\ open' \subseteq open
    BY <1>3, Zenon DEF Check
  <2> QED
    BY <1>0, <1>3, <2>1, CheckAnswers, SendersKept DEF SendersInv
<1>4. CASE Retain
  <2>1. UNCHANGED <<queue, called>> /\ pending' \subseteq pending /\ pc' # "retain"
    BY <1>4 DEF Retain
  <2> QED
    BY <1>0, <1>4, <2>1, RetainAnswers, SendersKept DEF SendersInv
<1> QED
  BY <1>1, <1>2, <1>3, <1>4 DEF Round

LEMMA SettleSenders ==
  ASSUME TypeOK, SendersInv, NEW r \in running, Settle(r)
  PROVE  SendersInv'
<1>1. /\ UNCHANGED <<queue, called, pc, pending, open, answer>> /\ pc # "retain"
  BY DEF Settle, LoopRuns, thread, batches
<1> QED
  BY <1>1, SendersKept DEF SendersInv

LEMMA StepSenders == BatchInv /\ ScriptInv /\ SendersInv /\ [Next]_vars => SendersInv'
<1> SUFFICES ASSUME BatchInv, ScriptInv, SendersInv, [Next]_vars PROVE SendersInv'
  OBVIOUS
<1>0. TypeOK /\ Unanswered
  BY DEF BatchInv, ScriptInv
<1>1. CASE UNCHANGED vars
  <2>1. UNCHANGED <<queue, called, pc, settled, pending, open, answer>>
    BY <1>1 DEF vars, thread, isolate, batches
  <2>2. pc' = "retain" => \A w \in open' : ~Filled(w.cell)'
    BY <2>1 DEF SendersInv, Filled
  <2> QED
    BY <1>0, <2>1, <2>2, SendersKept DEF SendersInv
<1>2. CASE \E r \in Requests : Send(r)
  BY <1>0, <1>2, SendSenders
<1>3. CASE Handle
  BY <1>0, <1>3, TakeSenders, StartBatchSenders DEF Handle
<1>4. CASE Wait
  BY <1>0, <1>4, WaitSenders
<1>5. CASE Round \/ (\E b \in Batches : Deadline(b))
  BY <1>5, RoundSenders
<1>6. CASE \E r \in running : Settle(r)
  BY <1>0, <1>6, SettleSenders
<1> QED
  BY <1>1, <1>2, <1>3, <1>4, <1>5, <1>6 DEF Next

(* No step of a living isolate answers a sender whose result is in its     *)
(* cell with anything but that result.                                     *)
LEMMA StepSends ==
  ASSUME BatchInv, ScriptInv, SendersInv, Next,
         NEW w \in open, Filled(w.cell), pc # "down", pc' # "down"
  PROVE  answer'[w.call] \in {None, w.call}
<1>0. TypeOK /\ Unanswered /\ answer[w.call] = None /\ w.call \in Items /\ w.call \in Callers
  BY SenderItem DEF BatchInv, ScriptInv, SendersInv, Callers
<1>1. CASE answer' = answer
  BY <1>0, <1>1
<1>2. CASE \E s \in Scripts \cup Modules : \E a : Answer(s, a)
  BY <1>0, <1>2, NoItemAnswered
<1>3. ASSUME NEW b \in Batches, NEW outcome, StartBatch(b, outcome)
      PROVE  answer'[w.call] = None
  <2> DEFINE failed == {i \in 1..Size : outcome[i] \in {"throws", "untracked"}}
  <2>1. Take(b) /\ answer' = [c \in Callers |->
                   IF \E i \in failed : c = <<b, i>> THEN Failed ELSE answer[c]]
    BY <1>3, Zenon DEF StartBatch
  <2> HIDE DEF failed
  <2>2. Fresh(b) /\ w.call[1] # b
    BY <1>0, <2>1, FreshLeft, SenderItem DEF Fresh
  <2> QED
    BY <1>0, <2>1, <2>2
<1>4. CASE Check
  BY <1>4, CheckAnswers
<1>5. CASE Retain
  BY <1>5 DEF Retain, SendersInv
<1>6. ~LoopBreaks /\ ~Restart
  BY DEF LoopBreaks, Restart
<1>7. CASE \E r \in Requests : Send(r)
  BY <1>1, <1>7 DEF Send
<1>8. CASE Handle
  BY <1>1, <1>2, <1>3, <1>8
  DEF Handle, ScriptReturns, ScriptBreaks, ScriptAwaits, EvaluateModule
<1>9. CASE Wait
  <2>1. \E a : Answer(current, a) /\ current \in Scripts
    BY <1>0, <1>9 DEF Wait, WaitResolved, WaitTimedOut, WaitFails, WaitBreaks, Finish, TypeOK
  <2> QED
    BY <1>2, <2>1
<1>10. CASE Round
  BY <1>1, <1>4, <1>5, <1>6, <1>10 DEF Round, LoopSlice, EndTurn
<1>11. CASE (\E r \in running : Settle(r)) \/ \E b \in Batches : Deadline(b)
  BY <1>1, <1>11 DEF Settle, Deadline
<1> QED
  BY <1>7, <1>8, <1>9, <1>10, <1>11 DEF Next

(* However the end of a promise and the deadline of its batch fall: what   *)
(* is in a cell when the thread looks is what its caller gets, unless the  *)
(* isolate is lost.                                                        *)
THEOREM SettledAreSent == Spec => SettledIsSent
<1>1. Init => BatchInv /\ ScriptInv /\ SendersInv
  <2> SUFFICES ASSUME Init PROVE SendersInv
    BY InitBatchInv, InitScriptInv
  <2>1. \A b \in Batches : Fresh(b)
    BY ItemType DEF Init, Fresh, Callers
  <2>2. Len(queue) = 0 /\ open = {} /\ pc = "ready"
    BY EmptySeq DEF Init
  <2> QED
    BY <2>1, <2>2 DEF SendersInv
<1>2. BatchInv /\ ScriptInv /\ SendersInv /\ [Next]_vars
        => (BatchInv /\ ScriptInv /\ SendersInv)'
  BY StepBatchInv, StepScriptInv, StepSenders
<1>3. BatchInv /\ ScriptInv /\ SendersInv /\ [Next]_vars =>
        [\A w \in open : Filled(w.cell) /\ pc # "down" /\ pc' # "down"
           => answer'[w.call] \in {None, w.call}]_vars
  BY StepSends
<1> QED
  BY <1>1, <1>2, <1>3, PTL DEF Spec, SettledIsSent
=============================================================================
