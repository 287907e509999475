----------------------------- MODULE JsRuntime -----------------------------
(***************************************************************************)
(* The thread that owns the JavaScript isolate                             *)
(* (runtime/runtime_factory/deno_runtime.rs, executor.rs, constants.rs).   *)
(*                                                                         *)
(* The request tasks of the server send it their requests over a channel;  *)
(* it takes them one by one.  A script that returns a promise holds the    *)
(* thread until the promise has resolved or the timeout has elapsed.  The  *)
(* scripts of a batch run side by side while the thread goes on with other *)
(* requests, and are answered by check_pending_batches.  After an error    *)
(* that asks for it the isolate is dropped and a new one is built: the     *)
(* channel is kept, the pending batches are not.                           *)
(*                                                                         *)
(* The reaction to a promise leaves its result in a cell of globalThis,    *)
(* where the thread looks for it: every script uses the one cell           *)
(* '~promises', a script of a batch has a cell of its own in               *)
(* '~rari_concurrent'.  A result, a value or an error, is named by the     *)
(* call it was computed for.                                               *)
(***************************************************************************)
EXTENDS Integers, Sequences, FiniteSets

CONSTANTS
  Scripts,     \* the calls of execute_script and execute_function
  Batches,     \* the calls of execute_script_batch
  Size,        \* the number of scripts in a batch
  Modules,     \* the calls of evaluate_module
  None,        \* no answer yet, or no script
  Failed,      \* an error in place of a result
  Graceful     \* create_graceful_error: the runtime is being restarted

Requests == Scripts \cup Batches \cup Modules

(* Who is answered: a script, a script of a batch, a module request.       *)
Items == Batches \X (1..Size)
Callers == Scripts \cup Items \cup Modules

ASSUME RuntimeAssumption ==
  /\ Size \in Nat \ {0}
  /\ Scripts \cap Items = {}
  /\ Scripts \cap Modules = {}
  /\ Items \cap Modules = {}
  /\ {None, Failed, Graceful} \cap Callers = {}
  /\ None # Failed /\ None # Graceful /\ Failed # Graceful

VARIABLES
  queue,     \* the channel, with the senders that wait for room in it
  called,    \* the requests that were made
  pc,        \* where the thread is
  current,   \* the script whose promise it waits for
  stopping,  \* ~continue_processing
  running,   \* the promises of the isolate that have yet to settle
  settled,   \* the cells that hold a result
  lastId,    \* batch_id_counter
  pending,   \* the batches in pending_batches
  open,      \* their senders that have sent nothing yet
  late,      \* the batches whose deadline has passed
  answer     \* what each caller was answered

thread == <<pc, current, stopping>>
isolate == <<running, settled>>
batches == <<lastId, pending, open, late>>
vars == <<queue, called, thread, isolate, batches, answer>>

(* A call, and the cell where its result is left or looked for: Shared for *)
(* '~promises', the number of the batch and of the script for the others.  *)
In(cell, c) == [cell |-> cell, call |-> c]
Shared == <<0, 0>>

Init ==
  /\ queue = <<>>
  /\ called = {}
  /\ pc = "ready"
  /\ current = None
  /\ stopping = FALSE
  /\ running = {}
  /\ settled = {}
  /\ lastId = 0
  /\ pending = {}
  /\ open = {}
  /\ late = {}
  /\ answer = [c \in Callers |-> None]

Answer(c, a) == answer' = [answer EXCEPT ![c] = a]

CallsOf(places) == {p.call : p \in places}

(* The result in a cell.                                                   *)
Filled(cell) == \E r \in settled : r.cell = cell
ResultIn(cell) == (CHOOSE r \in settled : r.cell = cell).call

-----------------------------------------------------------------------------
(* A request task sends its request.                                       *)

Send(r) ==
  /\ r \in Requests \ called
  /\ called' = called \cup {r}
  /\ queue' = Append(queue, r)
  /\ UNCHANGED <<thread, isolate, batches, answer>>

-----------------------------------------------------------------------------
(* The thread takes a request.  If batches were pending before, it looks   *)
(* at them next; then the event loop has its turn.                         *)

Take(r) ==
  /\ pc = "ready"
  /\ queue # <<>>
  /\ r = Head(queue)
  /\ queue' = Tail(queue)
  /\ UNCHANGED called

Handled == pc' = IF pending # {} THEN "check" ELSE "turn"

(* A script that throws, or returns something else than a promise.         *)
ScriptReturns(s) ==
  /\ Take(s)
  /\ \E a \in {s, Failed} : Answer(s, a)
  /\ Handled
  /\ UNCHANGED <<current, stopping, isolate, batches>>

(* An error that asks for a new isolate ends the loop.                     *)
ScriptBreaks(s) ==
  /\ Take(s)
  /\ Answer(s, Graceful)
  /\ pc' = "down"
  /\ UNCHANGED <<current, stopping, isolate, batches>>

(* Mutated: the cell keeps the result of an earlier script.                *)
ScriptAwaitsKeeping(s) ==
  /\ Take(s)
  /\ running' = running \cup {In(Shared, s)}
  /\ current' = s
  /\ pc' = "wait"
  /\ UNCHANGED <<stopping, settled, batches, answer>>

(* A promise: the cell is emptied and the promise gets its reaction.       *)
ScriptAwaits(s) ==
  /\ Take(s)
  /\ running' = running \cup {In(Shared, s)}
  /\ settled' = {r \in settled : r.cell # Shared}
  /\ current' = s
  /\ pc' = "wait"
  /\ UNCHANGED <<stopping, batches, answer>>

(* Mutated: a batch takes the number of the one before.                    *)
NextIdAgain == IF lastId = 0 THEN 1 ELSE lastId

(* batch_id.                                                               *)
NextId == lastId + 1

(* How many scripts of the batch before the i-th did not throw.            *)
Place(outcome, i) == Cardinality({j \in 1..(i - 1) : outcome[j] # "throws"})

(* Mutated: the cell is numbered by the script's place in the request.     *)
CellPlaceOfRequest(outcome, i) == i - 1

(* slot_key: the scripts that throw take no number.                        *)
CellPlace(outcome, i) == Place(outcome, i)

(* Mutated: one script that throws is enough.                              *)
NotEmptyIfAll(outcome) == \A i \in 1..Size : outcome[i] # "throws"

(* ~pending.is_empty(): there is something to wait for.                    *)
NotEmpty(outcome) == \E i \in 1..Size : outcome[i] # "throws"

(* setup_concurrent_batch: a script throws, or leaves in the next cell of  *)
(* its batch a promise or another value; a setup may fail after that.      *)
StartBatch(b, outcome) ==
  LET With(os) == {i \in 1..Size : outcome[i] \in os}
      Cells(o) == {In(<<NextId, CellPlace(outcome, i)>>, <<b, i>>) : i \in With({o})}
      failed == With({"throws", "untracked"})
  IN /\ Take(b)
     /\ lastId' = NextId
     /\ running' = running \cup Cells("promise")
     /\ settled' = settled \cup Cells("value")
     /\ pending' = IF NotEmpty(outcome) THEN pending \cup {b} ELSE pending
     /\ open' = open \cup {In(<<NextId, Place(outcome, i)>>, <<b, i>>) :
                             i \in With({"promise", "value"})}
     /\ answer' = [c \in Callers |->
                     IF \E i \in failed : c = <<b, i>> THEN Failed ELSE answer[c]]
     /\ Handled
     /\ UNCHANGED <<current, stopping, late>>

(* A module request is answered at once; a critical error of an evaluation *)
(* ends the loop after this round.                                         *)
EvaluateModule(m) ==
  /\ Take(m)
  /\ \/ \E a \in {m, Failed} : Answer(m, a) /\ UNCHANGED stopping
     \/ Answer(m, Failed) /\ stopping' = TRUE
  /\ Handled
  /\ UNCHANGED <<current, isolate, batches>>

-----------------------------------------------------------------------------
(* run_event_loop_with_promise_timeout and what follows it.                *)

(* The event loop runs while the thread waits for a promise, for requests  *)
(* with batches pending, and for a moment in every round.                  *)
LoopRuns == pc \in {"wait", "turn"} \/ (pc = "ready" /\ pending # {} /\ queue = <<>>)

(* A promise settles and its reaction writes the cell, also the promise of *)
(* a call that was given up.                                               *)
Settle(r) ==
  /\ r \in running
  /\ LoopRuns
  /\ running' = running \ {r}
  /\ settled' = {q \in settled : q.cell # r.cell} \cup {r}
  /\ UNCHANGED <<queue, called, thread, batches, answer>>

(* The script the thread waits for is answered.                            *)
Finish(a) ==
  /\ pc = "wait"
  /\ Answer(current, a)
  /\ current' = None
  /\ UNCHANGED <<queue, called, stopping, isolate, batches>>

WaitResolved ==
  /\ Filled(Shared)
  /\ Finish(ResultIn(Shared))
  /\ Handled

WaitTimedOut ==
  /\ ~Filled(Shared)
  /\ Finish(Failed)
  /\ Handled

(* The event loop reports an error, from whatever code runs in it.         *)
WaitFails == Finish(Failed) /\ Handled

WaitBreaks == Finish(Graceful) /\ pc' = "down"

-----------------------------------------------------------------------------
(* The rest of a round, with batches pending.                              *)

(* No request came while the event loop ran.                               *)
LoopSlice ==
  /\ pc = "ready"
  /\ pending # {}
  /\ queue = <<>>
  /\ pc' = "check"
  /\ UNCHANGED <<queue, called, current, stopping, isolate, batches, answer>>

(* An error of the event loop that asks for a new isolate: the batches are *)
(* drained.                                                                *)
LoopBreaks ==
  /\ pc = "ready"
  /\ pending # {}
  /\ queue = <<>>
  /\ answer' = [c \in Callers |-> IF c \in CallsOf(open) THEN Graceful ELSE answer[c]]
  /\ pending' = {}
  /\ open' = {}
  /\ late' = {}
  /\ pc' = "down"
  /\ UNCHANGED <<queue, called, current, stopping, isolate, lastId>>

Deadline(b) ==
  /\ b \in pending \ late
  /\ late' = late \cup {b}
  /\ UNCHANGED <<queue, called, thread, isolate, lastId, pending, open, answer>>

(* The senders of the batches whose deadline has passed.                   *)
Overdue == {w \in open : w.call[1] \in late}

(* Mutated: the deadline is looked at before the cells.                    *)
CheckLateFirst ==
  LET done == {w \in open : Filled(w.cell)} \ Overdue
  IN /\ pc = "check"
     /\ answer' = [c \in Callers |->
          IF c \in CallsOf(done)
          THEN ResultIn((CHOOSE w \in done : w.call = c).cell)
          ELSE IF c \in CallsOf(Overdue) THEN Failed ELSE answer[c]]
     /\ open' = open \ (done \cup Overdue)
     /\ settled' = {r \in settled : \A w \in done \cup Overdue : r.cell # w.cell}
     /\ pc' = "retain"
     /\ UNCHANGED <<queue, called, current, stopping, running, lastId, pending, late>>

(* check_pending_batches: what is in a cell is sent; at the deadline of a  *)
(* batch the others get an error.  Their cells are cleared.                *)
Check ==
  LET done == {w \in open : Filled(w.cell)}
  IN /\ pc = "check"
     /\ answer' = [c \in Callers |->
          IF c \in CallsOf(done)
          THEN ResultIn((CHOOSE w \in done : w.call = c).cell)
          ELSE IF c \in CallsOf(Overdue) THEN Failed ELSE answer[c]]
     /\ open' = open \ (done \cup Overdue)
     /\ settled' = {r \in settled : \A w \in done \cup Overdue : r.cell # w.cell}
     /\ pc' = "retain"
     /\ UNCHANGED <<queue, called, current, stopping, running, lastId, pending, late>>

(* pending_batches.retain(remaining > 0 and not overdue).  A sender that   *)
(* is dropped is the graceful error for the task that waits for it.        *)
Retain ==
  /\ pc = "retain"
  /\ pending' = {b \in pending \ late : \E w \in open : w.call[1] = b}
  /\ late' = {}
  /\ open' = open \ Overdue
  /\ answer' = [c \in Callers |-> IF c \in CallsOf(Overdue) THEN Graceful ELSE answer[c]]
  /\ pc' = "turn"
  /\ UNCHANGED <<queue, called, current, stopping, isolate, lastId>>

(* The event loop has had its 10 ms.                                       *)
EndTurn ==
  /\ pc = "turn"
  /\ pc' = IF stopping THEN "down" ELSE "ready"
  /\ UNCHANGED <<queue, called, current, stopping, isolate, batches, answer>>

(* Mutated: the channel goes with the isolate.                             *)
RestartClosing ==
  /\ pc = "down"
  /\ pc' = "ready"
  /\ stopping' = FALSE
  /\ running' = {} /\ settled' = {}
  /\ lastId' = 0 /\ pending' = {} /\ late' = {}
  /\ open' = {}
  /\ answer' = [c \in Callers |-> IF c \in CallsOf(open) THEN Graceful ELSE answer[c]]
  /\ queue' = <<>>
  /\ UNCHANGED <<called, current>>

(* The isolate and the pending batches are dropped; the requests in the    *)
(* channel go to the next isolate.                                         *)
Restart ==
  /\ pc = "down"
  /\ pc' = "ready"
  /\ stopping' = FALSE
  /\ running' = {} /\ settled' = {}
  /\ lastId' = 0 /\ pending' = {} /\ late' = {}
  /\ open' = {}
  /\ answer' = [c \in Callers |-> IF c \in CallsOf(open) THEN Graceful ELSE answer[c]]
  /\ UNCHANGED <<queue, called, current>>

-----------------------------------------------------------------------------

Handle ==
  \/ \E s \in Scripts : ScriptReturns(s) \/ ScriptBreaks(s) \/ ScriptAwaits(s)
  \/ \E b \in Batches :
       \E outcome \in [1..Size -> {"throws", "promise", "value", "untracked"}] :
         StartBatch(b, outcome)
  \/ \E m \in Modules : EvaluateModule(m)

Wait == WaitResolved \/ WaitTimedOut \/ WaitFails \/ WaitBreaks

Round == LoopSlice \/ LoopBreaks \/ Check \/ Retain \/ EndTurn \/ Restart

Next ==
  \/ \E r \in Requests : Send(r)
  \/ Handle \/ Wait \/ Round
  \/ \E r \in running : Settle(r)
  \/ \E b \in Batches : Deadline(b)

Spec == Init /\ [][Next]_vars

(* The thread goes on, its waits end at their timeouts at the latest, an   *)
(* isolate can be built, and time passes.  A promise need never settle.    *)
FairSpec ==
  /\ Spec
  /\ WF_vars(Handle \/ Wait \/ Round)
  /\ \A b \in Batches : WF_vars(Deadline(b))

-----------------------------------------------------------------------------
(* Properties.                                                             *)

Places == [cell : Nat \X Nat, call : Scripts \cup Items]

TypeOK ==
  /\ queue \in Seq(Requests)
  /\ called \subseteq Requests
  /\ pc \in {"ready", "wait", "check", "retain", "turn", "down"}
  /\ current \in Scripts \cup {None}
  /\ pc = "wait" <=> current # None
  /\ stopping \in BOOLEAN
  /\ running \subseteq Places
  /\ settled \subseteq Places
  /\ lastId \in Nat
  /\ pending \subseteq Batches
  /\ open \subseteq Places
  /\ CallsOf(open) \subseteq pending \X (1..Size)
  /\ late \subseteq pending
  /\ answer \in [Callers -> Callers \cup {None, Failed, Graceful}]

(* A script of a batch is answered with its own result or an error, in     *)
(* whatever order the promises settle, and through restarts.               *)
BatchOwnAnswer ==
  \A c \in Items : answer[c] \in Callers => answer[c] = c

(* A script that gets the result of another gets it from a script that was *)
(* given up before: it had its answer, and not its own result.             *)
StolenFromAbandoned ==
  \A s \in Scripts : answer[s] \in Callers \ {s} =>
    /\ answer[s] \in Scripts
    /\ answer[answer[s]] \notin {None, answer[s]}

(* A script of a batch whose result is in its cell gets it, if the isolate *)
(* lives: no deadline comes before it.                                     *)
SettledIsSent ==
  [][\A w \in open :
       Filled(w.cell) /\ pc # "down" /\ pc' # "down"
         => answer'[w.call] \in {None, w.call}]_vars

(* Whoever calls is answered, through timeouts, errors and restarts.       *)
RequestOf(c) == IF c \in Items THEN c[1] ELSE c

EveryoneAnswered ==
  \A c \in Callers : RequestOf(c) \in called ~> answer[c] # None

-----------------------------------------------------------------------------
(* The inductive invariants of the proofs.                                 *)

(* '~promises' is for scripts, and the cells of batches carry numbers that *)
(* were given out.                                                         *)
Numbered ==
  /\ \A r \in running \cup settled :
       r.cell[1] <= lastId /\ (r.cell = Shared <=> r.call \in Scripts)
  /\ \A w \in open : w.cell[1] \in 1..lastId

(* The cell a batch waits at is written by nobody else.                    *)
OwnCells ==
  \A w \in open : \A r \in running \cup settled : r.cell = w.cell => r.call = w.call

BatchInv == TypeOK /\ Numbered /\ OwnCells /\ BatchOwnAnswer

(* A script that waits, for the thread or for its promise, was sent once   *)
(* and has no answer.                                                      *)
Unanswered ==
  /\ \A s \in Scripts \ called : answer[s] = None
  /\ \A i \in 1..Len(queue) :
       queue[i] \in called /\ (queue[i] \in Scripts => answer[queue[i]] = None)
  /\ \A i, j \in 1..Len(queue) : queue[i] = queue[j] => i = j
  /\ current # None =>
       /\ current \in called /\ answer[current] = None
       /\ \A i \in 1..Len(queue) : queue[i] # current

(* What may still write '~promises', or is in it while the thread waits,   *)
(* comes from the current script or from one that was given up.            *)
GivenUp(s) == s = current \/ answer[s] \notin {None, s}

SharedCell ==
  \A s \in Scripts :
    /\ In(Shared, s) \in running => GivenUp(s)
    /\ pc = "wait" /\ In(Shared, s) \in settled
         => GivenUp(s) /\ In(Shared, s) \notin running

ScriptInv == Unanswered /\ SharedCell /\ StolenFromAbandoned

(* A batch that was not made yet, or waits for the thread, has no answers  *)
(* and no senders; a script of a batch has one sender, as long as it has   *)
(* no answer; and what was in a cell at the check has been sent.           *)
Fresh(b) == b \notin pending /\ \A i \in 1..Size : answer[<<b, i>>] = None

SendersInv ==
  /\ \A b \in Batches \ called : Fresh(b)
  /\ \A i \in 1..Len(queue) : queue[i] \in Batches => Fresh(queue[i])
  /\ \A w \in open : answer[w.call] = None
  /\ \A v, w \in open : v.call = w.call => v = w
  /\ pc = "retain" => \A w \in open : ~Filled(w.cell)
=============================================================================
