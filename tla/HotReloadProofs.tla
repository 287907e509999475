---------------------------- MODULE HotReloadProofs ----------------------------
(***************************************************************************)
(* Theorems about HotReload, for any import graph, order and number of     *)
(* saves, batches and full builds at a time: an edit is not lost unless it *)
(* races with a rebuild, and a clean one reaches the pages.                *)
(***************************************************************************)
EXTENDS HotReload, SequenceTheorems, TLAPS

-----------------------------------------------------------------------------
(* The invariant: the types of the tables ...                              *)

AnyJob == [at: Steps, code: Code \cup {None},
           cached: [code: Code, timestamp: Nat] \cup {None}]
Batch == UNION {[T -> AnyJob] : T \in SUBSET File}

HasCode == {"bundling", "writing", "storing", "copying", "loading"}

Tables ==
  /\ batches \in Seq(Batch)
  /\ \A b \in DOMAIN batches : \A f \in DOMAIN batches[b] :
       batches[b][f].at \in HasCode => batches[b][f].code # None
  /\ \A r \in DOMAIN runs : runs[r].at # "reading" => runs[r].code # None
  /\ pendingFiles # {} => batchTimer

Rebuilding(f) == \E b \in DOMAIN batches : f \in DOMAIN batches[b]

-----------------------------------------------------------------------------
(* ... what holds of a file no save has raced with ...                     *)

Stale(cached, f) == cached = None \/ ~Fresh(cached, f)

\* What passes for fresh is the edition saved last.
Honest(cached, f) == Stale(cached, f) \/ cached.code.own = version[f]

\* A job for f will not serve an old edition, if bundle is what is on the disk.
Current(job, f, bundle) ==
  /\ job.at = "deciding" => Honest(job.cached, f)
  /\ job.at \in HasCode => job.code.own = version[f]
  /\ job.at \in {"storing", "asking"} => bundle.own = version[f]

\* Nor will a full build.
CurrentRun(run, f) ==
  Order[run.k] = f /\ run.at # "reading" => run.code.own = version[f]

Served(f) ==
  \/ broken[f] # 0 \/ loaded[f] = FirstModule
  \/ loaded[f] # None /\ loaded[f].own = version[f]

Calm(f) ==
  /\ \A b \in DOMAIN batches :
       f \in DOMAIN batches[b] => Current(batches[b][f], f, disk[f])
  /\ \A r \in DOMAIN runs : CurrentRun(runs[r], f)
  /\ Honest(buildCache[f], f)
  /\ f \in pendingFiles \/ Rebuilding(f) \/ Served(f)

-----------------------------------------------------------------------------
(* ... and what holds as long as all goes as intended.                     *)

Sound(f, bundle) == Flat(f) => bundle = Latest(f)

\* The job of a batch builds the file anew.
Intended(job, f, cached) ==
  /\ job.at = "reading" => Stale(cached, f)
  /\ job.at = "deciding" => Stale(job.cached, f)
  /\ job.at # "copying"
  /\ job.at = "bundling" => job.code = Source(f)
  /\ job.at \in {"writing", "storing", "loading"} => Sound(f, job.code)

\* What a full build has written is up to date.
IntendedRun(run) ==
  /\ \A i \in DOMAIN Order : i < run.k => Sound(Order[i], disk[Order[i]])
  /\ run.at = "bundling" => run.code = Source(Order[run.k])
  /\ run.at = "writing" => Sound(Order[run.k], run.code)

\* The full build of the last save comes first, then its batch, alone.
InTurn ==
  /\ last \in File
  /\ \A q, r \in DOMAIN runs : q = r
  /\ DOMAIN runs # {} => Running = {}
  /\ \A b, c \in Running : b = c
  /\ batchTimer => /\ Running = {} /\ pendingFiles = {last} /\ last \notin Route
                   /\ Stale(buildCache[last], last)

AsIntended ==
  /\ InTurn
  /\ \A r \in DOMAIN runs : IntendedRun(runs[r])
  /\ DOMAIN runs = {} => \A f \in File : Sound(f, disk[f])
  /\ \A b \in DOMAIN batches : \A f \in DOMAIN batches[b] :
       Intended(batches[b][f], f, buildCache[f])
  /\ \A f \in Hit(last) \ Route :
       batchTimer \/ Rebuilding(f) \/ loaded[f] = FirstModule \/ Sound(f, loaded[f])

HInv ==
  /\ TypeOK /\ Tables
  /\ \A f \in File \ Route : f \notin raced => Calm(f)
  /\ clean => AsIntended

-----------------------------------------------------------------------------
(* Types.                                                                  *)

LEMMA Bounds ==
  ASSUME TypeOK
  PROVE  /\ saves \in Nat /\ MaxSaves \in Nat /\ 0 .. saves \subseteq 0 .. MaxSaves
         /\ \A f \in File : version[f] \in 0 .. saves
         /\ Job \subseteq AnyJob
<1>1. saves \in Nat /\ MaxSaves \in Nat /\ 0 .. saves \subseteq 0 .. MaxSaves
  BY HotReloadAssumption DEF TypeOK
<1>2. \A f \in File : version[f] \in 0 .. saves
  BY DEF TypeOK
<1>3. 0 .. saves \subseteq Nat
  BY <1>1
<1>4. Job \subseteq AnyJob
  BY <1>3 DEF Job, AnyJob, Cached
<1> QED
  BY <1>1, <1>2, <1>4

LEMMA BelowType ==
  ASSUME NEW f \in File
  PROVE  Below[f] \subseteq File /\ Imports[f] \subseteq File
  BY HotReloadAssumption

LEMMA SourceType ==
  ASSUME TypeOK, NEW f \in File
  PROVE  /\ Latest(f) \in Code /\ Latest(f).own = version[f] /\ Latest(f).rest = Sources(f)
         /\ Source(f) \in Code /\ Source(f).own = version[f]
         /\ Sources(f) \subseteq Edition
<1>1. \A g \in File : version[g] \in 0 .. MaxSaves
  BY Bounds
<1>2. Sources(f) \subseteq Edition
  BY <1>1, BelowType DEF Sources, Edition
<1> QED
  BY <1>1, <1>2 DEF Latest, Source, Code

LEMMA BundledType ==
  ASSUME TypeOK, NEW f \in File, NEW code \in Code
  PROVE  /\ Bundled(f, code) \in Code /\ Bundled(f, code).own = code.own
         /\ Bundled(f, code).rest = IF f \in App THEN Built(f) ELSE Sources(f)
<1>1. ASSUME NEW h \in Imports[f]
      PROVE  {<<h, disk[h].own>>} \cup disk[h].rest \subseteq Edition
  <2>1. h \in File /\ disk[h] \in Code
    BY BelowType DEF TypeOK
  <2> QED
    BY <2>1 DEF Code, Edition
<1>2. Built(f) \subseteq Edition
  BY <1>1 DEF Built
<1>3. Sources(f) \subseteq Edition
  BY SourceType
<1> QED
  BY <1>2, <1>3 DEF Bundled, Code

LEMMA BatchesType ==
  ASSUME Tables
  PROVE  /\ Len(batches) \in Nat /\ DOMAIN batches = 1 .. Len(batches)
         /\ \A b \in DOMAIN batches : batches[b] \in Batch /\ DOMAIN batches[b] \subseteq File
<1>1. Len(batches) \in Nat /\ DOMAIN batches = 1 .. Len(batches)
  BY LenProperties DEF Tables
<1>2. \A b \in DOMAIN batches : batches[b] \in Batch
  BY <1>1, ElementOfSeq DEF Tables
<1>3. \A B \in Batch : DOMAIN B \subseteq File
  BY DEF Batch
<1> QED
  BY <1>1, <1>2, <1>3

LEMMA OrderType ==
  /\ Len(Order) \in Nat /\ DOMAIN Order = 1 .. Len(Order)
  /\ \A i \in DOMAIN Order : Order[i] \in File
<1>1. Order \in Seq(File)
  BY HotReloadAssumption
<1>2. Len(Order) \in Nat /\ DOMAIN Order = 1 .. Len(Order)
  BY <1>1, LenProperties
<1> QED
  BY <1>1, <1>2, ElementOfSeq

-----------------------------------------------------------------------------
(* A flat file is bundled with the latest code of what it imports, if that *)
(* is what is on the disk.                                                 *)

LEMMA FlatSound ==
  ASSUME TypeOK, NEW f \in File, Flat(f),
         f \in App => \A h \in Imports[f] : Sound(h, disk[h])
  PROVE  Bundled(f, Source(f)) = Latest(f)
<1>1. ASSUME f \in App
      PROVE  Built(f) = Sources(f)
  <2>1. ASSUME NEW h \in Imports[f]
        PROVE  {<<h, disk[h].own>>} \cup disk[h].rest
                 = {<<g, version[g]>> : g \in {h} \cup Below[h]}
    <3>1. h \in File /\ h \notin App
      BY <1>1, BelowType DEF Flat
    <3>2. disk[h] = Latest(h)
      BY <1>1, <3>1 DEF Sound, Flat
    <3> QED
      BY <3>1, <3>2, SourceType DEF Sources
  <2>2. Built(f) = UNION {{<<g, version[g]>> : g \in {h} \cup Below[h]} : h \in Imports[f]}
    BY <2>1 DEF Built
  <2>3. Below[f] = UNION {{h} \cup Below[h] : h \in Imports[f]}
    BY HotReloadAssumption
  <2> QED
    BY <2>2, <2>3 DEF Sources
<1>2. Bundled(f, Source(f)).rest = Sources(f)
  BY <1>1, SourceType, BundledType
<1> QED
  BY <1>2 DEF Bundled, Source, Latest

\* What a flat file below app/ imports comes before it.
LEMMA ImportsBefore ==
  ASSUME NEW k \in DOMAIN Order, Order[k] \in App, Flat(Order[k]), NEW h \in Imports[Order[k]]
  PROVE  \E i \in DOMAIN Order : i < k /\ Order[i] = h
<1>1. Order[k] \in File
  BY OrderType
<1>2. h \in File /\ h \notin App
  BY <1>1, BelowType DEF Flat
<1>3. PICK i \in DOMAIN Order : Order[i] = h
  BY <1>2, HotReloadAssumption
<1>4. ~(k < i) /\ i # k
  BY <1>2, <1>3, HotReloadAssumption
<1>5. i \in Nat /\ k \in Nat
  BY OrderType
<1> QED
  BY <1>3, <1>4, <1>5

-----------------------------------------------------------------------------
(* The jobs of a batch.                                                    *)

\* A job goes one step on.
LEMMA StepJobs ==
  ASSUME TypeOK, Tables, NEW b \in DOMAIN batches, NEW f \in DOMAIN batches[b], NEW job \in Job,
         batches' = [batches EXCEPT ![b][f] = job]
  PROVE  /\ batches' \in Seq(Batch) /\ Len(batches') = Len(batches)
         /\ DOMAIN batches' = DOMAIN batches
         /\ \A c \in DOMAIN batches :
              /\ DOMAIN batches'[c] = DOMAIN batches[c]
              /\ \A h \in DOMAIN batches[c] :
                   batches'[c][h] = IF c = b /\ h = f THEN job ELSE batches[c][h]
<1> DEFINE B == [batches[b] EXCEPT ![f] = job]
<1>1. batches[b] \in Batch /\ f \in File
  BY BatchesType
<1>2. job \in AnyJob
  BY Bounds
<1>3. PICK T \in SUBSET File : batches[b] \in [T -> AnyJob]
  BY <1>1 DEF Batch
<1>4. B \in [T -> AnyJob] /\ DOMAIN B = DOMAIN batches[b]
      /\ \A h \in DOMAIN batches[b] : B[h] = IF h = f THEN job ELSE batches[b][h]
  BY <1>2, <1>3
<1>5. B \in Batch
  BY <1>4 DEF Batch
<1>6. batches' = [batches EXCEPT ![b] = B]
  OBVIOUS
<1> HIDE DEF B
<1>7. /\ [batches EXCEPT ![b] = B] \in Seq(Batch)
      /\ Len([batches EXCEPT ![b] = B]) = Len(batches)
      /\ \A c \in 1 .. Len(batches) :
           [batches EXCEPT ![b] = B][c] = IF c = b THEN B ELSE batches[c]
  BY <1>5, BatchesType, ExceptSeq DEF Tables
<1>8. DOMAIN batches' = DOMAIN batches
  BY <1>6
<1> QED
  BY <1>4, <1>6, <1>7, <1>8, BatchesType

\* A job is settled.
LEMMA SettleJobs ==
  ASSUME Tables, NEW b \in DOMAIN batches, NEW f \in DOMAIN batches[b],
         batches' = [batches EXCEPT ![b] = [h \in DOMAIN @ \ {f} |-> @[h]]]
  PROVE  /\ batches' \in Seq(Batch) /\ Len(batches') = Len(batches)
         /\ DOMAIN batches' = DOMAIN batches
         /\ \A c \in DOMAIN batches :
              /\ DOMAIN batches'[c] = IF c = b THEN DOMAIN batches[c] \ {f}
                                               ELSE DOMAIN batches[c]
              /\ \A h \in DOMAIN batches'[c] : batches'[c][h] = batches[c][h]
<1> DEFINE B == [h \in DOMAIN batches[b] \ {f} |-> batches[b][h]]
<1>1. batches[b] \in Batch
  BY BatchesType
<1>2. PICK T \in SUBSET File : batches[b] \in [T -> AnyJob]
  BY <1>1 DEF Batch
<1>3. B \in [T \ {f} -> AnyJob] /\ T \ {f} \in SUBSET File
      /\ DOMAIN B = DOMAIN batches[b] \ {f}
      /\ \A h \in DOMAIN B : B[h] = batches[b][h]
  BY <1>2
<1>4. B \in Batch
  BY <1>3 DEF Batch
<1>5. batches' = [batches EXCEPT ![b] = B]
  OBVIOUS
<1> HIDE DEF B
<1>6. /\ [batches EXCEPT ![b] = B] \in Seq(Batch)
      /\ Len([batches EXCEPT ![b] = B]) = Len(batches)
      /\ \A c \in 1 .. Len(batches) :
           [batches EXCEPT ![b] = B][c] = IF c = b THEN B ELSE batches[c]
  BY <1>4, BatchesType, ExceptSeq DEF Tables
<1>7. DOMAIN batches' = DOMAIN batches
  BY <1>5
<1> QED
  BY <1>3, <1>5, <1>6, <1>7, BatchesType

-----------------------------------------------------------------------------
(* What a step of a job keeps.                                             *)

\* A file that the step is not about.
LEMMA OtherCalm ==
  ASSUME NEW h \in File, Calm(h), version' = version, buildCache'[h] = buildCache[h],
         disk'[h] = disk[h], loaded'[h] = loaded[h], broken'[h] = broken[h],
         h \in pendingFiles => h \in pendingFiles', DOMAIN batches' = DOMAIN batches,
         \A c \in DOMAIN batches :
           /\ h \in DOMAIN batches'[c] <=> h \in DOMAIN batches[c]
           /\ h \in DOMAIN batches[c] => batches'[c][h] = batches[c][h],
         \A r \in DOMAIN runs' : CurrentRun(runs'[r], h)
  PROVE  Calm(h)'
<1>1. Rebuilding(h)' <=> Rebuilding(h)
  BY DEF Rebuilding
<1>2. Served(h)' <=> Served(h)
  BY DEF Served
<1>3. Honest(buildCache[h], h)'
  BY DEF Calm, Honest, Stale, Fresh
<1>4. \A c \in DOMAIN batches' :
        h \in DOMAIN batches'[c] => Current(batches[c][h], h, disk[h])'
  BY DEF Calm, Current, Honest, Stale, Fresh
<1>5. \A r \in DOMAIN runs' : CurrentRun(runs[r], h)'
  BY DEF CurrentRun
<1> QED
  BY <1>1, <1>2, <1>3, <1>4, <1>5 DEF Calm

LEMMA StepKeeps ==
  ASSUME HInv, NEW b \in DOMAIN batches, NEW f \in DOMAIN batches[b], NEW job \in Job,
         NEW from, Step(b, f, from, job), job.at \in HasCode => job.code # None,
         NEW cached \in Cached, NEW bundle \in Code, NEW run \in Code \cup {None, FirstModule},
         buildCache' = [buildCache EXCEPT ![f] = cached],
         disk' = [disk EXCEPT ![f] = bundle],
         loaded' = [loaded EXCEPT ![f] = run],
         f \notin raced \cup Route => /\ Honest(cached, f) /\ Current(job, f, bundle)
                                      /\ bundle = disk[f] \/ bundle.own = version[f],
         clean => Intended(job, f, cached) /\ Sound(f, bundle)
  PROVE  HInv'
<1>1. f \in File
  BY BatchesType DEF HInv
<1>2. /\ UNCHANGED <<saves, edits, version, pendingFiles, batchTimer, runs, raced, last>>
      /\ UNCHANGED <<broken, clean>>
      /\ batches' = [batches EXCEPT ![b][f] = job]
  BY DEF Step, jobVars
<1>3. /\ batches' \in Seq(Batch) /\ Len(batches') = Len(batches)
      /\ DOMAIN batches' = DOMAIN batches
      /\ \A c \in DOMAIN batches :
           /\ DOMAIN batches'[c] = DOMAIN batches[c]
           /\ \A h \in DOMAIN batches[c] :
                batches'[c][h] = IF c = b /\ h = f THEN job ELSE batches[c][h]
  BY <1>2, StepJobs DEF HInv
<1>4. Cached' = Cached /\ Job' = Job
  BY <1>2 DEF Cached, Job
<1>5. /\ buildCache' \in [File -> Cached] /\ disk' \in [File -> Code]
      /\ loaded' \in [File -> Code \cup {None, FirstModule}]
  BY <1>1 DEF HInv, TypeOK
<1>6. \A h \in File :
        /\ buildCache'[h] = IF h = f THEN cached ELSE buildCache[h]
        /\ disk'[h] = IF h = f THEN bundle ELSE disk[h]
        /\ loaded'[h] = IF h = f THEN run ELSE loaded[h]
  BY DEF HInv, TypeOK
<1>7. TypeOK'
  <2>1. \A c \in DOMAIN batches' : \A h \in DOMAIN batches'[c] :
          h \in File /\ batches'[c][h] \in Job
    BY <1>1, <1>3 DEF HInv, TypeOK
  <2>2. broken' \in [File -> 0 .. Len(batches')]
    BY <1>2, <1>3 DEF HInv, TypeOK
  <2>3. \A r \in DOMAIN runs' : runs'[r] \in Run'
    BY <1>2 DEF HInv, TypeOK, Run
  <2> QED
    BY <1>2, <1>4, <1>5, <2>1, <2>2, <2>3 DEF HInv, TypeOK
<1>8. Tables'
  <2>1. \A c \in DOMAIN batches' : \A h \in DOMAIN batches'[c] :
          batches'[c][h].at \in HasCode => batches'[c][h].code # None
    BY <1>3 DEF HInv, Tables
  <2> QED
    BY <1>2, <1>3, <2>1 DEF HInv, Tables
<1>9. ASSUME NEW h \in File \ Route, h \notin raced', h # f
      PROVE  Calm(h)'
  <2>1. Calm(h)
    BY <1>2, <1>9 DEF HInv
  <2>2. \A r \in DOMAIN runs' : CurrentRun(runs'[r], h)
    BY <1>2, <2>1 DEF Calm
  <2>3. \A c \in DOMAIN batches :
          /\ h \in DOMAIN batches'[c] <=> h \in DOMAIN batches[c]
          /\ h \in DOMAIN batches[c] => batches'[c][h] = batches[c][h]
    BY <1>3, <1>9
  <2> QED
    BY <1>2, <1>3, <1>6, <1>9, <2>1, <2>2, <2>3, OtherCalm
<1>10. ASSUME f \notin raced', f \notin Route
       PROVE  Calm(f)'
  <2>1. /\ Calm(f) /\ Honest(cached, f) /\ Current(job, f, bundle)
        /\ bundle = disk[f] \/ bundle.own = version[f]
    BY <1>1, <1>2, <1>10 DEF HInv
  <2>2. Rebuilding(f)'
    BY <1>3 DEF Rebuilding
  <2>3. \A r \in DOMAIN runs' : CurrentRun(runs[r], f)'
    BY <1>2, <2>1 DEF Calm, CurrentRun
  <2>4. Honest(buildCache[f], f)'
    BY <1>1, <1>2, <1>6, <2>1 DEF Honest, Stale, Fresh
  <2>5. ASSUME NEW c \in DOMAIN batches', f \in DOMAIN batches'[c]
        PROVE  Current(batches[c][f], f, disk[f])'
    <3>1. disk'[f] = bundle /\ version'[f] = version[f]
      BY <1>1, <1>2, <1>6
    <3>2. CASE c = b
      <4>1. batches'[c][f] = job
        BY <1>3, <3>2
      <4> QED
        BY <1>2, <2>1, <3>1, <4>1 DEF Current, Honest, Stale, Fresh
    <3>3. CASE c # b
      <4>1. batches'[c][f] = batches[c][f] /\ Current(batches[c][f], f, disk[f])
        BY <1>3, <2>1, <2>5, <3>3 DEF Calm
      <4> QED
        BY <1>2, <2>1, <3>1, <4>1 DEF Current, Honest, Stale, Fresh
    <3> QED
      BY <3>2, <3>3
  <2> QED
    BY <2>2, <2>3, <2>4, <2>5 DEF Calm
<1>11. ASSUME clean'
       PROVE  AsIntended'
  <2>1. AsIntended /\ Intended(job, f, cached) /\ Sound(f, bundle)
    BY <1>2, <1>11 DEF HInv
  <2>2. Running' = Running /\ b \in Running
    BY <1>3 DEF Running
  <2>3. DOMAIN runs = {} /\ ~batchTimer /\ \A c \in DOMAIN batches : f \in DOMAIN batches[c] => c = b
    BY <2>1, <2>2 DEF AsIntended, InTurn, Running
  <2>4. InTurn'
    BY <1>2, <2>1, <2>2, <2>3 DEF AsIntended, InTurn
  <2>5. \A h \in File : Sound(h, disk[h])'
    BY <1>2, <1>6, <2>1, <2>3 DEF AsIntended, Sound, Latest, Sources
  <2>6. ASSUME NEW c \in DOMAIN batches', NEW h \in DOMAIN batches'[c]
        PROVE  Intended(batches[c][h], h, buildCache[h])'
    <3>1. h \in File
      BY <1>3, BatchesType DEF HInv
    <3>2. CASE h = f
      <4>1. batches'[c][h] = job /\ buildCache'[h] = cached
        BY <1>3, <1>6, <2>3, <2>6, <3>1, <3>2
      <4> QED
        BY <1>2, <2>1, <3>2, <4>1
           DEF Intended, Stale, Fresh, Source, Sound, Latest, Sources
    <3>3. CASE h # f
      <4>1. /\ batches'[c][h] = batches[c][h] /\ buildCache'[h] = buildCache[h]
            /\ Intended(batches[c][h], h, buildCache[h])
        BY <1>3, <1>6, <2>1, <2>6, <3>1, <3>3 DEF AsIntended
      <4> QED
        BY <1>2, <4>1 DEF Intended, Stale, Fresh, Source, Sound, Latest, Sources
    <3> QED
      BY <3>2, <3>3
  <2>7. ASSUME NEW h \in Hit(last)' \ Route
        PROVE  (batchTimer \/ Rebuilding(h) \/ loaded[h] = FirstModule \/ Sound(h, loaded[h]))'
    <3>1. h \in Hit(last) \ Route /\ h \in File
      BY <1>2, HotReloadAssumption DEF Hit, Dependents
    <3>2. CASE h = f
      BY <1>3, <3>2 DEF Rebuilding
    <3>3. CASE h # f
      <4>1. loaded'[h] = loaded[h] /\ (Rebuilding(h)' <=> Rebuilding(h))
        BY <1>3, <1>6, <3>1, <3>3 DEF Rebuilding
      <4>2. Rebuilding(h) \/ loaded[h] = FirstModule \/ Sound(h, loaded[h])
        BY <2>1, <2>3, <3>1 DEF AsIntended
      <4> QED
        BY <1>2, <4>1, <4>2 DEF Sound, Latest, Sources
    <3> QED
      BY <3>2, <3>3
  <2> QED
    BY <1>2, <2>3, <2>4, <2>5, <2>6, <2>7 DEF AsIntended
<1> QED
  BY <1>7, <1>8, <1>9, <1>10, <1>11 DEF HInv

LEMMA SettleKeeps ==
  ASSUME HInv, NEW b \in DOMAIN batches, NEW f \in DOMAIN batches[b], NEW from,
         NEW failed \in BOOLEAN, Settle(b, f, from, failed),
         UNCHANGED <<buildCache, disk>>, NEW run \in Code \cup {None, FirstModule},
         loaded' = [loaded EXCEPT ![f] = run],
         ~failed /\ f \notin raced \cup Route => run # None /\ run.own = version[f],
         ~failed /\ clean => Sound(f, run)
  PROVE  HInv'
<1>1. f \in File
  BY BatchesType DEF HInv
<1>2. /\ UNCHANGED <<saves, edits, version, pendingFiles, batchTimer, runs, raced, last>>
      /\ batches' = [batches EXCEPT ![b] = [h \in DOMAIN @ \ {f} |-> @[h]]]
      /\ broken' = [broken EXCEPT ![f] = IF failed /\ b > @ THEN b
                                         ELSE IF ~failed /\ b >= @ THEN 0 ELSE @]
      /\ clean' = (clean /\ ~failed)
  BY DEF Settle, jobVars
<1>3. /\ batches' \in Seq(Batch) /\ Len(batches') = Len(batches)
      /\ DOMAIN batches' = DOMAIN batches
      /\ \A c \in DOMAIN batches :
           /\ DOMAIN batches'[c] = IF c = b THEN DOMAIN batches[c] \ {f}
                                            ELSE DOMAIN batches[c]
           /\ \A h \in DOMAIN batches'[c] : batches'[c][h] = batches[c][h]
  BY <1>2, SettleJobs DEF HInv
<1>4. Cached' = Cached /\ Job' = Job
  BY <1>2 DEF Cached, Job
<1>5. /\ broken \in [File -> 0 .. Len(batches)]
      /\ b \in 1 .. Len(batches) /\ Len(batches) \in Nat
  BY BatchesType DEF HInv, TypeOK
<1>6. /\ broken' \in [File -> 0 .. Len(batches)]
      /\ failed => broken'[f] # 0
      /\ \A h \in File : h # f => broken'[h] = broken[h]
  BY <1>1, <1>2, <1>5
<1>7. \A h \in File : loaded'[h] = IF h = f THEN run ELSE loaded[h]
  BY DEF HInv, TypeOK
<1>8. TypeOK'
  <2>1. \A c \in DOMAIN batches' : \A h \in DOMAIN batches'[c] :
          h \in File /\ batches'[c][h] \in Job
    BY <1>3 DEF HInv, TypeOK
  <2>2. \A r \in DOMAIN runs' : runs'[r] \in Run'
    BY <1>2 DEF HInv, TypeOK, Run
  <2>3. loaded' \in [File -> Code \cup {None, FirstModule}]
    BY <1>1 DEF HInv, TypeOK
  <2>4. clean' \in BOOLEAN
    BY <1>2
  <2>5. broken' \in [File -> 0 .. Len(batches')]
    BY <1>3, <1>6
  <2>6. buildCache' \in [File -> Cached']
    BY <1>4 DEF HInv, TypeOK
  <2> QED
    BY <1>2, <1>4, <2>1, <2>2, <2>3, <2>4, <2>5, <2>6 DEF HInv, TypeOK
<1>9. Tables'
  <2>1. \A c \in DOMAIN batches' : \A h \in DOMAIN batches'[c] :
          batches'[c][h].at \in HasCode => batches'[c][h].code # None
    <3> SUFFICES ASSUME NEW c \in DOMAIN batches', NEW h \in DOMAIN batches'[c]
                 PROVE  batches'[c][h].at \in HasCode => batches'[c][h].code # None
      OBVIOUS
    <3>1. c \in DOMAIN batches /\ h \in DOMAIN batches[c] /\ batches'[c][h] = batches[c][h]
      BY <1>3
    <3> QED
      BY <3>1 DEF HInv, Tables
  <2> QED
    BY <1>2, <1>3, <2>1 DEF HInv, Tables
<1>10. ASSUME NEW h \in File \ Route, h \notin raced', h # f
       PROVE  Calm(h)'
  <2>1. Calm(h)
    BY <1>2, <1>10 DEF HInv
  <2>2. \A r \in DOMAIN runs' : CurrentRun(runs'[r], h)
    BY <1>2, <2>1 DEF Calm
  <2>3. \A c \in DOMAIN batches :
          /\ h \in DOMAIN batches'[c] <=> h \in DOMAIN batches[c]
          /\ h \in DOMAIN batches[c] => batches'[c][h] = batches[c][h]
    BY <1>3, <1>10
  <2> QED
    BY <1>2, <1>3, <1>6, <1>7, <1>10, <2>1, <2>2, <2>3, OtherCalm
<1>11. ASSUME f \notin raced', f \notin Route
       PROVE  Calm(f)'
  <2>1. Calm(f)
    BY <1>1, <1>2, <1>11 DEF HInv
  <2>2. Served(f)'
    <3>1. CASE failed
      BY <1>6, <3>1 DEF Served
    <3>2. CASE ~failed
      BY <1>1, <1>2, <1>7, <1>11, <3>2 DEF Served
    <3> QED
      BY <3>1, <3>2
  <2>3. \A r \in DOMAIN runs' : CurrentRun(runs[r], f)'
    BY <1>2, <2>1 DEF Calm, CurrentRun
  <2>4. Honest(buildCache[f], f)'
    BY <1>2, <2>1 DEF Calm, Honest, Stale, Fresh
  <2>5. ASSUME NEW c \in DOMAIN batches', f \in DOMAIN batches'[c]
        PROVE  Current(batches[c][f], f, disk[f])'
    <3>1. batches'[c][f] = batches[c][f] /\ Current(batches[c][f], f, disk[f])
      BY <1>3, <2>1, <2>5 DEF Calm
    <3> QED
      BY <1>2, <3>1 DEF Current, Honest, Stale, Fresh
  <2> QED
    BY <2>2, <2>3, <2>4, <2>5 DEF Calm
<1>12. ASSUME clean'
       PROVE  AsIntended'
  <2>1. AsIntended /\ Sound(f, run)
    BY <1>2, <1>12 DEF HInv
  <2>2. Running' \subseteq Running /\ b \in Running
    BY <1>3 DEF Running
  <2>3. DOMAIN runs = {} /\ ~batchTimer
    BY <2>1, <2>2 DEF AsIntended, InTurn
  <2>4. InTurn'
    BY <1>2, <2>1, <2>2, <2>3 DEF AsIntended, InTurn
  <2>5. \A h \in File : Sound(h, disk[h])'
    BY <1>2, <2>1, <2>3 DEF AsIntended, Sound, Latest, Sources
  <2>6. ASSUME NEW c \in DOMAIN batches', NEW h \in DOMAIN batches'[c]
        PROVE  Intended(batches[c][h], h, buildCache[h])'
    <3>1. /\ batches'[c][h] = batches[c][h]
          /\ Intended(batches[c][h], h, buildCache[h])
      BY <1>3, <2>1, <2>6 DEF AsIntended
    <3> QED
      BY <1>2, <3>1 DEF Intended, Stale, Fresh, Source, Sound, Latest, Sources
  <2>7. ASSUME NEW h \in Hit(last)' \ Route
        PROVE  (batchTimer \/ Rebuilding(h) \/ loaded[h] = FirstModule \/ Sound(h, loaded[h]))'
    <3>1. h \in Hit(last) \ Route /\ h \in File
      BY <1>2, HotReloadAssumption DEF Hit, Dependents
    <3>2. CASE h = f
      BY <1>2, <1>7, <2>1, <3>1, <3>2 DEF Sound, Latest, Sources
    <3>3. CASE h # f
      <4>1. loaded'[h] = loaded[h] /\ (Rebuilding(h)' <=> Rebuilding(h))
        BY <1>3, <1>7, <3>1, <3>3 DEF Rebuilding
      <4>2. Rebuilding(h) \/ loaded[h] = FirstModule \/ Sound(h, loaded[h])
        BY <2>1, <2>3, <3>1 DEF AsIntended
      <4> QED
        BY <1>2, <4>1, <4>2 DEF Sound, Latest, Sources
    <3> QED
      BY <3>2, <3>3
  <2> QED
    BY <1>2, <2>3, <2>4, <2>5, <2>6, <2>7 DEF AsIntended
<1> QED
  BY <1>8, <1>9, <1>10, <1>11, <1>12 DEF HInv

-----------------------------------------------------------------------------
(* The steps of a job.                                                     *)

\* A job as it is before a step.
LEMMA JobFacts ==
  ASSUME HInv, NEW b \in DOMAIN batches, NEW f \in DOMAIN batches[b]
  PROVE  LET job == batches[b][f] IN
         /\ f \in File /\ job \in Job
         /\ job.at \in HasCode => job.code \in Code
         /\ job.cached \in Cached /\ buildCache[f] \in Cached
         /\ disk[f] \in Code /\ loaded[f] \in Code \cup {None, FirstModule}
         /\ f \notin raced \cup Route =>
              Current(job, f, disk[f]) /\ Honest(buildCache[f], f)
         /\ clean => Intended(job, f, buildCache[f]) /\ \A h \in File : Sound(h, disk[h])
<1>1. f \in File /\ batches[b][f] \in Job
  BY BatchesType DEF HInv, TypeOK
<1>2. batches[b][f].at \in HasCode => batches[b][f].code \in Code
  BY <1>1 DEF HInv, Tables, Job
<1>3. batches[b][f].cached \in Cached
  BY <1>1 DEF Job
<1>4. ASSUME f \notin raced \cup Route
      PROVE  Current(batches[b][f], f, disk[f]) /\ Honest(buildCache[f], f)
  BY <1>1, <1>4 DEF HInv, Calm
<1>5. ASSUME clean
      PROVE  Intended(batches[b][f], f, buildCache[f]) /\ \A h \in File : Sound(h, disk[h])
  BY <1>5 DEF HInv, AsIntended, InTurn, Running
<1> QED
  BY <1>1, <1>2, <1>3, <1>4, <1>5 DEF HInv, TypeOK

\* A step of a job that leaves alone what is loaded.
StepOf(b, f, from, job, cached, bundle) ==
  /\ Step(b, f, from, job)
  /\ job \in Job /\ (job.at \in HasCode => job.code # None)
  /\ cached \in Cached /\ bundle \in Code
  /\ buildCache' = [buildCache EXCEPT ![f] = cached]
  /\ disk' = [disk EXCEPT ![f] = bundle]
  /\ loaded' = loaded
  /\ f \notin raced \cup Route => /\ Honest(cached, f) /\ Current(job, f, bundle)
                                  /\ bundle = disk[f] \/ bundle.own = version[f]
  /\ clean => Intended(job, f, cached) /\ Sound(f, bundle)

LEMMA StepOfKeeps ==
  ASSUME HInv, NEW b \in DOMAIN batches, NEW f \in DOMAIN batches[b],
         NEW from, NEW job, NEW cached, NEW bundle, StepOf(b, f, from, job, cached, bundle)
  PROVE  HInv'
<1>1. loaded' = [loaded EXCEPT ![f] = loaded[f]] /\ loaded[f] \in Code \cup {None, FirstModule}
  BY BatchesType DEF HInv, TypeOK, StepOf
<1>2. /\ Step(b, f, from, job)
      /\ job \in Job /\ (job.at \in HasCode => job.code # None)
      /\ cached \in Cached /\ bundle \in Code
      /\ buildCache' = [buildCache EXCEPT ![f] = cached]
      /\ disk' = [disk EXCEPT ![f] = bundle]
      /\ f \notin raced \cup Route => /\ Honest(cached, f) /\ Current(job, f, bundle)
                                      /\ bundle = disk[f] \/ bundle.own = version[f]
      /\ clean => Intended(job, f, cached) /\ Sound(f, bundle)
  BY DEF StepOf
<1> QED
  BY <1>1, <1>2, StepKeeps

LEMMA JobStepKeeps ==
  ASSUME HInv, NEW b \in DOMAIN batches, NEW f \in DOMAIN batches[b], JobStep(b, f)
  PROVE  HInv'
<1> DEFINE old == batches[b][f]
<1>0. /\ f \in File /\ old \in Job
      /\ old.at \in HasCode => old.code \in Code
      /\ old.cached \in Cached /\ buildCache[f] \in Cached
      /\ disk[f] \in Code /\ loaded[f] \in Code \cup {None, FirstModule}
      /\ f \notin raced \cup Route => Current(old, f, disk[f]) /\ Honest(buildCache[f], f)
      /\ clean => Intended(old, f, buildCache[f]) /\ \A h \in File : Sound(h, disk[h])
  BY JobFacts
<1>00. saves \in Nat /\ None \notin Code /\ TypeOK /\ None \in Cached
  BY Bounds, NoneAssumption DEF HInv, Cached
<1>s. /\ buildCache = [buildCache EXCEPT ![f] = buildCache[f]]
      /\ disk = [disk EXCEPT ![f] = disk[f]]
      /\ loaded = [loaded EXCEPT ![f] = loaded[f]]
  BY <1>00 DEF TypeOK
<1> DEFINE fresh(at, code, cached) == [at |-> at, code |-> code, cached |-> cached]
<1>a. \A at \in Steps, code \in Code \cup {None}, cached \in Cached :
        /\ fresh(at, code, cached) \in Job
        /\ fresh(at, code, cached).at = at
        /\ fresh(at, code, cached).code = code
        /\ fresh(at, code, cached).cached = cached
  BY DEF Job
<1>b. \A at \in Steps : /\ [old EXCEPT !.at = at] \in Job
                        /\ [old EXCEPT !.at = at].at = at
                        /\ [old EXCEPT !.at = at].code = old.code
                        /\ [old EXCEPT !.at = at].cached = old.cached
  BY <1>0 DEF Job
<1> HIDE DEF fresh, old
<1>c. /\ {"deciding", "building", "bundling", "storing", "copying", "asking", "loading",
          "writing"} \subseteq Steps
  BY DEF Steps
<1>1. CASE Read(b, f)
  <2> DEFINE job == fresh("deciding", None, buildCache[f])
  <2>1. /\ Step(b, f, "reading", job) /\ UNCHANGED <<buildCache, disk, loaded>>
    BY <1>1 DEF Read, fresh
  <2>2. job \in Job /\ job.at = "deciding" /\ job.cached = buildCache[f]
    <3>1. "deciding" \in Steps /\ None \in Code \cup {None}
      BY <1>c
    <3> QED
      BY <1>0, <1>a, <3>1
  <2> HIDE DEF job
  <2>3. old.at = "reading"
    BY <2>1 DEF Step, old
  <2>4. f \notin raced \cup Route => Honest(buildCache[f], f) /\ Current(job, f, disk[f])
    BY <1>0, <2>2 DEF Current, HasCode
  <2>5. clean => Intended(job, f, buildCache[f]) /\ Sound(f, disk[f])
    BY <1>0, <2>2, <2>3 DEF Intended
  <2> QED
    BY <1>0, <1>s, <2>1, <2>2, <2>4, <2>5, StepKeeps DEF HasCode
<1>2. CASE Decide(b, f)
  <2>1. /\ UNCHANGED <<buildCache, disk, loaded>>
        /\ \/ /\ old.cached # None /\ Fresh(old.cached, f)
              /\ Step(b, f, "deciding", fresh("copying", old.cached.code, None))
           \/ Step(b, f, "deciding", fresh("building", None, None))
    BY <1>2 DEF Decide, fresh, old
  <2>2. CASE /\ old.cached # None /\ Fresh(old.cached, f)
             /\ Step(b, f, "deciding", fresh("copying", old.cached.code, None))
    <3> DEFINE job == fresh("copying", old.cached.code, None)
    <3>1. old.cached.code \in Code
      BY <1>0, <2>2 DEF Cached
    <3>2. job \in Job /\ job.at = "copying" /\ job.code = old.cached.code
      BY <1>00, <1>a, <1>c, <3>1
    <3>3. Step(b, f, "deciding", job)
      BY <2>2
    <3> HIDE DEF job
    <3>4. old.at = "deciding"
      BY <3>3 DEF Step, old
    <3>5. f \notin raced \cup Route => Honest(buildCache[f], f) /\ Current(job, f, disk[f])
      BY <1>0, <2>2, <3>2, <3>4 DEF Current, Honest, Stale
    <3>6. ~clean
      BY <1>0, <2>2, <3>4 DEF Intended, Stale
    <3>7. job.code # None
      BY <1>00, <3>1, <3>2
    <3> QED
      BY <1>0, <1>s, <2>1, <3>2, <3>3, <3>5, <3>6, <3>7, StepKeeps
  <2>3. CASE Step(b, f, "deciding", fresh("building", None, None))
    <3> DEFINE job == fresh("building", None, None)
    <3>1. job \in Job /\ job.at = "building"
      BY <1>00, <1>a, <1>c
    <3>2. Step(b, f, "deciding", job)
      BY <2>3
    <3> HIDE DEF job
    <3>3. f \notin raced \cup Route => Honest(buildCache[f], f) /\ Current(job, f, disk[f])
      BY <1>0, <3>1 DEF Current, HasCode
    <3>4. clean => Intended(job, f, buildCache[f]) /\ Sound(f, disk[f])
      BY <1>0, <3>1 DEF Intended
    <3> QED
      BY <1>0, <1>s, <2>1, <3>1, <3>2, <3>3, <3>4, StepKeeps DEF HasCode
  <2> QED
    BY <2>1, <2>2, <2>3
<1>3. CASE Build(b, f)
  <2> DEFINE job == fresh("bundling", Source(f), None)
  <2>1. /\ Step(b, f, "building", job) /\ UNCHANGED <<buildCache, disk, loaded>>
    BY <1>3 DEF Build, fresh
  <2>2. Source(f) \in Code /\ Source(f).own = version[f]
    BY <1>0, <1>00, SourceType
  <2>3. job \in Job /\ job.at = "bundling" /\ job.code = Source(f)
    BY <1>00, <1>a, <1>c, <2>2
  <2> HIDE DEF job
  <2>4. f \notin raced \cup Route => Honest(buildCache[f], f) /\ Current(job, f, disk[f])
    BY <1>0, <2>2, <2>3 DEF Current
  <2>5. clean => Intended(job, f, buildCache[f]) /\ Sound(f, disk[f])
    BY <1>0, <2>3 DEF Intended
  <2>6. job.code # None
    BY <1>00, <2>2, <2>3
  <2> QED
    BY <1>0, <1>s, <2>1, <2>3, <2>4, <2>5, <2>6, StepKeeps
<1>4. CASE Bundle(b, f)
  <2> DEFINE job == fresh("writing", Bundled(f, old.code), None)
  <2>1. /\ Step(b, f, "bundling", job) /\ UNCHANGED <<buildCache, disk, loaded>>
    BY <1>4 DEF Bundle, fresh, old
  <2>2. old.at = "bundling" /\ old.code \in Code
    BY <1>0, <2>1 DEF Step, old, HasCode
  <2>3. Bundled(f, old.code) \in Code /\ Bundled(f, old.code).own = old.code.own
    BY <1>0, <1>00, <2>2, BundledType
  <2>4. job \in Job /\ job.at = "writing" /\ job.code = Bundled(f, old.code)
    BY <1>00, <1>a, <1>c, <2>3
  <2> HIDE DEF job
  <2>5. f \notin raced \cup Route => Honest(buildCache[f], f) /\ Current(job, f, disk[f])
    BY <1>0, <2>2, <2>3, <2>4 DEF Current, HasCode
  <2>6. ASSUME clean
        PROVE  Intended(job, f, buildCache[f]) /\ Sound(f, disk[f])
    <3>1. old.code = Source(f) /\ \A h \in File : Sound(h, disk[h])
      BY <1>0, <2>2, <2>6 DEF Intended
    <3>2. Flat(f) => Bundled(f, old.code) = Latest(f)
      BY <1>0, <1>00, <3>1, FlatSound, BelowType
    <3> QED
      BY <1>0, <2>4, <2>6, <3>1, <3>2 DEF Intended, Sound
  <2>7. job.code # None
    BY <1>00, <2>3, <2>4
  <2> QED
    BY <1>0, <1>s, <2>1, <2>4, <2>5, <2>6, <2>7, StepKeeps
<1>5. CASE Write(b, f)
  <2>0. /\ disk' = [disk EXCEPT ![f] = old.code] /\ UNCHANGED <<buildCache, loaded>>
    BY <1>5 DEF Write, old
  <2>1. PICK from \in {"writing", "copying"}, to \in {"storing", "asking"} :
          /\ Step(b, f, from, [old EXCEPT !.at = to])
          /\ from = "copying" <=> to = "asking"
    BY <1>5 DEF Write, old
  <2> DEFINE job == [old EXCEPT !.at = to]
  <2>2. job \in Job /\ job.at = to /\ job.code = old.code
    BY <1>b, <1>c, <2>1
  <2>3. Step(b, f, from, job)
    BY <2>1
  <2> HIDE DEF job
  <2>4. old.at = from /\ old.code \in Code
    BY <1>0, <2>3 DEF Step, old, HasCode
  <2>5. f \notin raced \cup Route => /\ Honest(buildCache[f], f) /\ Current(job, f, old.code)
                                     /\ old.code = disk[f] \/ old.code.own = version[f]
    BY <1>0, <2>1, <2>2, <2>4 DEF Current, HasCode
  <2>6. clean => Intended(job, f, buildCache[f]) /\ Sound(f, old.code)
    BY <1>0, <2>1, <2>2, <2>4 DEF Intended
  <2>7. job.code # None
    BY <1>00, <2>2, <2>4
  <2>8. StepOf(b, f, from, job, buildCache[f], old.code)
    BY <1>0, <1>s, <2>0, <2>2, <2>3, <2>4, <2>5, <2>6, <2>7 DEF StepOf
  <2> QED
    BY <2>8, StepOfKeeps
<1>6. CASE Store(b, f)
  <2> DEFINE job == [old EXCEPT !.at = "asking"]
             cached == [code |-> old.code, timestamp |-> saves]
  <2>1. /\ Step(b, f, "storing", job) /\ UNCHANGED <<disk, loaded>>
        /\ buildCache' = [buildCache EXCEPT ![f] = cached]
    BY <1>6 DEF Store, old
  <2>2. job \in Job /\ job.at = "asking" /\ job.code = old.code
    BY <1>b, <1>c
  <2> HIDE DEF job
  <2>3. old.at = "storing" /\ old.code \in Code
    BY <1>0, <2>1 DEF Step, old, HasCode
  <2>4. cached \in Cached /\ cached.code = old.code
    BY <1>00, <2>3 DEF Cached
  <2> HIDE DEF cached
  <2>5. f \notin raced \cup Route => /\ Honest(cached, f) /\ Current(job, f, disk[f])
                                     /\ disk[f] = disk[f] \/ disk[f].own = version[f]
    BY <1>0, <2>2, <2>3, <2>4 DEF Current, Honest, HasCode
  <2>6. clean => Intended(job, f, cached) /\ Sound(f, disk[f])
    BY <1>0, <2>2 DEF Intended
  <2>7. job.at \in HasCode => job.code # None
    BY <2>2 DEF HasCode
  <2>8. StepOf(b, f, "storing", job, cached, disk[f])
    BY <1>0, <1>s, <2>1, <2>2, <2>4, <2>5, <2>6, <2>7 DEF StepOf
  <2> QED
    BY <2>8, StepOfKeeps
<1>7. CASE Ask(b, f)
  <2> DEFINE job == fresh("loading", disk[f], None)
  <2>1. /\ Step(b, f, "asking", job) /\ UNCHANGED <<buildCache, disk>>
        /\ loaded' = [loaded EXCEPT ![f] = None]
    BY <1>7 DEF Ask, fresh
  <2>2. job \in Job /\ job.at = "loading" /\ job.code = disk[f]
    BY <1>0, <1>00, <1>a, <1>c
  <2> HIDE DEF job
  <2>3. old.at = "asking"
    BY <2>1 DEF Step, old
  <2>4. f \notin raced \cup Route => /\ Honest(buildCache[f], f) /\ Current(job, f, disk[f])
                                     /\ disk[f] = disk[f] \/ disk[f].own = version[f]
    BY <1>0, <2>2, <2>3 DEF Current
  <2>5. clean => Intended(job, f, buildCache[f]) /\ Sound(f, disk[f])
    BY <1>0, <2>2 DEF Intended
  <2>6. job.code # None
    BY <1>0, <1>00, <2>2
  <2>7. /\ disk' = [disk EXCEPT ![f] = disk[f]]
        /\ buildCache' = [buildCache EXCEPT ![f] = buildCache[f]]
    BY <1>s, <2>1
  <2>8. None \in Code \cup {None, FirstModule} /\ disk[f] \in Code /\ buildCache[f] \in Cached
    BY <1>0
  <2> QED
    BY <2>1, <2>2, <2>4, <2>5, <2>6, <2>7, <2>8, StepKeeps
<1>8. CASE Load(b, f)
  <2>1. /\ Settle(b, f, {"loading"}, FALSE) /\ UNCHANGED <<buildCache, disk>>
        /\ loaded' = [loaded EXCEPT ![f] = old.code]
    BY <1>8 DEF Load, old
  <2>2. old.at = "loading" /\ old.code \in Code
    BY <1>0, <2>1 DEF Settle, old, HasCode
  <2>3. f \notin raced \cup Route => old.code # None /\ old.code.own = version[f]
    BY <1>0, <1>00, <2>2 DEF Current, HasCode
  <2>4. clean => Sound(f, old.code)
    BY <1>0, <2>2 DEF Intended
  <2>5. old.code \in Code \cup {None, FirstModule}
    BY <2>2
  <2> QED
    BY <2>1, <2>3, <2>4, <2>5, SettleKeeps
<1>9. CASE JobFails(b, f)
  <2>1. /\ Settle(b, f, {"reading", "building", "bundling", "asking", "loading"}, TRUE)
        /\ UNCHANGED <<buildCache, disk, loaded>>
    BY <1>9 DEF JobFails
  <2> QED
    BY <1>0, <1>s, <2>1, SettleKeeps
<1> QED
  BY <1>1, <1>2, <1>3, <1>4, <1>5, <1>6, <1>7, <1>8, <1>9 DEF JobStep

-----------------------------------------------------------------------------
(* Full builds.                                                            *)

\* A full build goes on as run, or ends, and may write a file.
RunOf(r, run, f, bundle) ==
  /\ run \in Run /\ (run.at # "reading" => run.code # None)
  /\ DOMAIN runs' \subseteq DOMAIN runs
  /\ \A q \in DOMAIN runs' : runs'[q] = IF q = r THEN run ELSE runs[q]
  /\ UNCHANGED <<saves, edits, version, pendingFiles, batchTimer, batches, buildCache,
                 loaded, broken, raced, last>>
  /\ bundle \in Code /\ disk' = [disk EXCEPT ![f] = bundle]
  /\ f \notin raced \cup Route => bundle = disk[f] \/ bundle.own = version[f]
  /\ \A h \in File \ Route : h \notin raced => CurrentRun(run, h)
  /\ clean' \in BOOLEAN /\ (clean' => clean)
  /\ clean' /\ r \in DOMAIN runs' => IntendedRun(run)'
  /\ clean' /\ r \notin DOMAIN runs' => \A h \in File : Sound(h, disk[h])'

LEMMA RunKeeps ==
  ASSUME HInv, NEW r \in DOMAIN runs, NEW run, NEW f \in File, NEW bundle,
         RunOf(r, run, f, bundle)
  PROVE  HInv'
<1> USE DEF RunOf
<1>1. Cached' = Cached /\ Job' = Job /\ Run' = Run
  BY DEF Cached, Job, Run
<1>2. /\ disk' \in [File -> Code]
      /\ \A h \in File : disk'[h] = IF h = f THEN bundle ELSE disk[h]
  BY DEF HInv, TypeOK
<1>3. TypeOK'
  <2>1. \A q \in DOMAIN runs' : runs'[q] \in Run
    BY DEF HInv, TypeOK
  <2> QED
    BY <1>1, <1>2, <2>1 DEF HInv, TypeOK
<1>4. Tables'
  BY DEF HInv, Tables
<1>5. ASSUME NEW h \in File \ Route, h \notin raced'
      PROVE  Calm(h)'
  <2>1. Calm(h) /\ CurrentRun(run, h)
    BY <1>5 DEF HInv
  <2>2. \A q \in DOMAIN runs' : CurrentRun(runs[q], h)'
    BY <2>1 DEF Calm, CurrentRun
  <2>3. ASSUME NEW b \in DOMAIN batches', h \in DOMAIN batches'[b]
        PROVE  Current(batches[b][h], h, disk[h])'
    <3>1. Current(batches[b][h], h, disk[h])
      BY <2>1, <2>3 DEF Calm
    <3>2. disk'[h] = disk[h] \/ disk'[h].own = version[h]
      BY <1>2, <1>5
    <3> QED
      BY <3>1, <3>2 DEF Current, Honest, Stale, Fresh
  <2>4. Honest(buildCache[h], h)'
    BY <2>1 DEF Calm, Honest, Stale, Fresh
  <2>5. h \in pendingFiles' \/ Rebuilding(h)' \/ Served(h)'
    BY <2>1 DEF Calm, Rebuilding, Served
  <2> QED
    BY <2>2, <2>3, <2>4, <2>5 DEF Calm
<1>6. ASSUME clean'
      PROVE  AsIntended'
  <2>1. AsIntended
    BY <1>6 DEF HInv
  <2>2. Running' = Running /\ Running = {} /\ \A q \in DOMAIN runs' : q = r
    BY <2>1 DEF AsIntended, InTurn, Running
  <2>3. InTurn'
    BY <2>1, <2>2 DEF AsIntended, InTurn, Stale, Fresh
  <2>4. ASSUME NEW q \in DOMAIN runs'
        PROVE  IntendedRun(runs[q])'
    <3>1. runs'[q] = run /\ IntendedRun(run)'
      BY <1>6, <2>2
    <3> QED
      BY <3>1 DEF IntendedRun, Sound, Source, Latest, Sources
  <2>5. DOMAIN runs' = {} => \A h \in File : Sound(h, disk[h])'
    BY <1>6
  <2>6. \A b \in DOMAIN batches' : DOMAIN batches'[b] = {}
    BY <2>2 DEF Running
  <2>7. ASSUME NEW h \in Hit(last)' \ Route
        PROVE  (batchTimer \/ Rebuilding(h) \/ loaded[h] = FirstModule \/ Sound(h, loaded[h]))'
    <3>1. h \in Hit(last) \ Route
      BY DEF Hit, Dependents
    <3> QED
      BY <2>1, <3>1 DEF AsIntended, Rebuilding, Sound, Latest, Sources
  <2> QED
    BY <2>3, <2>4, <2>5, <2>6, <2>7 DEF AsIntended
<1> QED
  BY <1>3, <1>4, <1>5, <1>6 DEF HInv

\* A full build as it is before a step.
LEMMA RunFacts ==
  ASSUME HInv, NEW r \in DOMAIN runs
  PROVE  /\ RunFile(r) \in File /\ runs[r] \in Run /\ runs[r].k \in DOMAIN Order
         /\ runs[r].at # "reading" => runs[r].code \in Code
         /\ disk[RunFile(r)] \in Code /\ disk \in [File -> Code]
         /\ \A h \in File \ Route : h \notin raced => CurrentRun(runs[r], h)
         /\ clean => IntendedRun(runs[r])
<1>1. runs[r] \in Run /\ runs[r].k \in DOMAIN Order
  BY DEF HInv, TypeOK, Run
<1>2. RunFile(r) \in File
  BY <1>1, OrderType DEF RunFile
<1>3. runs[r].at # "reading" => runs[r].code \in Code
  BY <1>1 DEF HInv, Tables, Run
<1>4. \A h \in File \ Route : h \notin raced => CurrentRun(runs[r], h)
  BY DEF HInv, Calm
<1>5. clean => IntendedRun(runs[r])
  BY DEF HInv, AsIntended
<1> QED
  BY <1>1, <1>2, <1>3, <1>4, <1>5 DEF HInv, TypeOK

\* What was written before the file a full build is at stays up to date.
LEMMA StillIntended ==
  ASSUME HInv, clean, NEW r \in DOMAIN runs, UNCHANGED version, disk' = disk,
         NEW run \in Run, run.k = runs[r].k,
         run.at = "bundling" => run.code = Source(Order[run.k]),
         run.at = "writing" => Sound(Order[run.k], run.code)
  PROVE  IntendedRun(run)'
<1>1. IntendedRun(runs[r])
  BY RunFacts
<1> QED
  BY <1>1 DEF IntendedRun, Sound, Source, Latest, Sources

LEMMA RunStepKeeps ==
  ASSUME HInv, NEW r \in DOMAIN runs,
         RunReads(r) \/ RunBundles(r) \/ RunWrites(r) \/ RunFails(r)
  PROVE  HInv'
<1> DEFINE old == runs[r]
           f == RunFile(r)
<1>0. /\ f \in File /\ old \in Run /\ old.k \in DOMAIN Order /\ f = Order[old.k]
      /\ old.at # "reading" => old.code \in Code
      /\ disk[f] \in Code /\ disk \in [File -> Code]
      /\ \A h \in File \ Route : h \notin raced => CurrentRun(old, h)
      /\ clean => IntendedRun(old)
  BY RunFacts DEF RunFile
<1>00. TypeOK /\ None \notin Code /\ clean \in BOOLEAN
  BY NoneAssumption DEF HInv, TypeOK
<1>s. disk = [disk EXCEPT ![f] = disk[f]]
  BY <1>0
<1>n. /\ old.k \in Nat /\ old.k \in 1 .. Len(Order) /\ Len(Order) \in Nat
      /\ DOMAIN Order = 1 .. Len(Order)
  BY <1>0, OrderType
<1> DEFINE at(a, k, code) == [at |-> a, k |-> k, code |-> code]
<1>a. \A a \in {"reading", "bundling", "writing"}, k \in DOMAIN Order, code \in Code \cup {None} :
        /\ at(a, k, code) \in Run /\ at(a, k, code).at = a
        /\ at(a, k, code).k = k /\ at(a, k, code).code = code
  BY DEF Run
<1> HIDE DEF at, old, f
<1>1. CASE RunReads(r)
  <2> PICK run : run = at("bundling", old.k, Source(f))
    OBVIOUS
  <2>1. /\ old.at = "reading" /\ runs' = [runs EXCEPT ![r] = run]
        /\ UNCHANGED <<saves, edits, version, pendingFiles, batchTimer, batches, buildCache,
                       loaded, broken, raced, last>>
        /\ clean' = clean /\ disk' = disk
    BY <1>1 DEF RunReads, RunStep, old, f, at
  <2>2. Source(f) \in Code /\ Source(f).own = version[f]
    BY <1>0, <1>00, SourceType
  <2>3. run \in Run /\ run.at = "bundling" /\ run.k = old.k /\ run.code = Source(f)
    BY <1>0, <1>a, <2>2
  <2>4. DOMAIN runs' = DOMAIN runs /\ \A q \in DOMAIN runs' : runs'[q] = IF q = r THEN run ELSE runs[q]
    BY <2>1
  <2>5. \A h \in File \ Route : h \notin raced => CurrentRun(run, h)
    BY <1>0, <2>2, <2>3 DEF CurrentRun
  <2>6. clean' => IntendedRun(run)'
    BY <1>0, <2>1, <2>3, StillIntended DEF old
  <2>7. run.at # "reading" => run.code # None
    BY <1>00, <2>2, <2>3
  <2>8. disk' = [disk EXCEPT ![f] = disk[f]]
    BY <1>s, <2>1
  <2>9. RunOf(r, run, f, disk[f])
    BY <1>0, <1>00, <2>1, <2>3, <2>4, <2>5, <2>6, <2>7, <2>8 DEF RunOf
  <2> QED
    BY <1>0, <2>9, RunKeeps
<1>2. CASE RunBundles(r)
  <2> PICK run : run = at("writing", old.k, Bundled(f, old.code))
    OBVIOUS
  <2>1. /\ old.at = "bundling" /\ runs' = [runs EXCEPT ![r] = run]
        /\ UNCHANGED <<saves, edits, version, pendingFiles, batchTimer, batches, buildCache,
                       loaded, broken, raced, last>>
        /\ clean' = clean /\ disk' = disk
    BY <1>2 DEF RunBundles, RunStep, old, f, at
  <2>2. Bundled(f, old.code) \in Code /\ Bundled(f, old.code).own = old.code.own
    BY <1>0, <1>00, <2>1, BundledType
  <2>3. run \in Run /\ run.at = "writing" /\ run.k = old.k /\ run.code = Bundled(f, old.code)
    BY <1>0, <1>a, <2>2
  <2>4. DOMAIN runs' = DOMAIN runs /\ \A q \in DOMAIN runs' : runs'[q] = IF q = r THEN run ELSE runs[q]
    BY <2>1
  <2>5. \A h \in File \ Route : h \notin raced => CurrentRun(run, h)
    BY <1>0, <2>1, <2>2, <2>3 DEF CurrentRun
  <2>6. ASSUME clean'
        PROVE  IntendedRun(run)'
    <3>1. IntendedRun(old) /\ old.code = Source(f)
      BY <1>0, <2>1, <2>6 DEF IntendedRun
    <3>2. ASSUME Flat(f), f \in App, NEW h \in Imports[f]
          PROVE  Sound(h, disk[h])
      <4>1. PICK i \in DOMAIN Order : i < old.k /\ Order[i] = h
        BY <1>0, <3>2, ImportsBefore
      <4> QED
        BY <3>1, <4>1 DEF IntendedRun
    <3>3. Flat(f) => Bundled(f, old.code) = Latest(f)
      BY <1>0, <1>00, <3>1, <3>2, FlatSound
    <3>4. Sound(Order[run.k], run.code)
      BY <1>0, <2>3, <3>3 DEF Sound
    <3> QED
      BY <2>1, <2>3, <2>6, <3>4, StillIntended DEF old
  <2>7. run.at # "reading" => run.code # None
    BY <1>00, <2>2, <2>3
  <2>8. disk' = [disk EXCEPT ![f] = disk[f]]
    BY <1>s, <2>1
  <2>9. RunOf(r, run, f, disk[f])
    BY <1>0, <1>00, <2>1, <2>3, <2>4, <2>5, <2>6, <2>7, <2>8 DEF RunOf
  <2> QED
    BY <1>0, <2>9, RunKeeps
<1>3. CASE RunWrites(r)
  <2>1. /\ old.at = "writing" /\ disk' = [disk EXCEPT ![f] = old.code]
        /\ UNCHANGED <<saves, edits, version, pendingFiles, batchTimer, batches, buildCache,
                       loaded, broken, raced, last>>
        /\ clean' = clean
    BY <1>3 DEF RunWrites, RunStep, RunEnds, old, f
  <2>2. old.code \in Code
    BY <1>0, <2>1
  <2>3. f \notin raced \cup Route => old.code.own = version[f]
    BY <1>0, <2>1 DEF CurrentRun
  <2>4. ASSUME clean', NEW i \in DOMAIN Order, i < old.k + 1
        PROVE  Sound(Order[i], disk[Order[i]])'
    <3>1. IntendedRun(old) /\ Order[i] \in File /\ i \in Nat
      BY <1>0, <1>n, <2>1, <2>4, OrderType
    <3>2. disk'[Order[i]] = IF Order[i] = f THEN old.code ELSE disk[Order[i]]
      BY <1>0, <2>1, <3>1
    <3>3. Sound(f, old.code)
      BY <1>0, <2>1, <3>1 DEF IntendedRun
    <3>4. Order[i] # f => Sound(Order[i], disk[Order[i]])
      <4>1. i < old.k \/ i = old.k
        BY <1>n, <2>4, <3>1
      <4> QED
        BY <1>0, <3>1, <4>1 DEF IntendedRun
    <3> QED
      BY <2>1, <3>2, <3>3, <3>4 DEF Sound, Latest, Sources
  <2>5. CASE old.k < Len(Order) /\ runs' = [runs EXCEPT ![r] = at("reading", old.k + 1, None)]
    <3> PICK run : run = at("reading", old.k + 1, None)
      OBVIOUS
    <3>1. old.k + 1 \in DOMAIN Order
      BY <1>n, <2>5
    <3>2. run \in Run /\ run.at = "reading" /\ run.k = old.k + 1
      BY <1>a, <3>1
    <3>3. /\ DOMAIN runs' = DOMAIN runs
          /\ \A q \in DOMAIN runs' : runs'[q] = IF q = r THEN run ELSE runs[q]
      BY <2>5
    <3>4. \A h \in File \ Route : h \notin raced => CurrentRun(run, h)
      BY <3>2 DEF CurrentRun
    <3>5. clean' => IntendedRun(run)'
      BY <2>4, <3>2 DEF IntendedRun
    <3>6. RunOf(r, run, f, old.code)
      BY <1>00, <2>1, <2>2, <2>3, <3>2, <3>3, <3>4, <3>5 DEF RunOf
    <3> QED
      BY <1>0, <3>6, RunKeeps
  <2>6. CASE old.k = Len(Order) /\ runs' = [q \in DOMAIN runs \ {r} |-> runs[q]]
    <3> PICK run : run = old
      OBVIOUS
    <3>1. /\ DOMAIN runs' = DOMAIN runs \ {r}
          /\ \A q \in DOMAIN runs' : runs'[q] = IF q = r THEN run ELSE runs[q]
      BY <2>6
    <3>2. ASSUME clean', NEW h \in File
          PROVE  Sound(h, disk[h])'
      <4>1. PICK i \in DOMAIN Order : Order[i] = h
        BY HotReloadAssumption
      <4>2. i < old.k + 1
        BY <1>n, <2>6
      <4> QED
        BY <2>4, <3>2, <4>1, <4>2
    <3>3. run.at # "reading" => run.code # None
      BY <1>00, <2>2
    <3>4. RunOf(r, run, f, old.code)
      BY <1>0, <1>00, <2>1, <2>2, <2>3, <3>1, <3>2, <3>3 DEF RunOf
    <3> QED
      BY <1>0, <3>4, RunKeeps
  <2>7. \/ old.k < Len(Order) /\ runs' = [runs EXCEPT ![r] = at("reading", old.k + 1, None)]
        \/ old.k = Len(Order) /\ runs' = [q \in DOMAIN runs \ {r} |-> runs[q]]
    BY <1>3 DEF RunWrites, RunStep, RunEnds, old, at
  <2> QED
    BY <2>5, <2>6, <2>7
<1>4. CASE RunFails(r)
  <2>1. /\ runs' = [q \in DOMAIN runs \ {r} |-> runs[q]]
        /\ UNCHANGED <<saves, edits, version, pendingFiles, batchTimer, batches, buildCache,
                       loaded, broken, raced, last>>
        /\ clean' = FALSE /\ disk' = disk
    BY <1>4 DEF RunFails, RunEnds
  <2> PICK run : run = old
    OBVIOUS
  <2>2. /\ DOMAIN runs' = DOMAIN runs \ {r}
        /\ \A q \in DOMAIN runs' : runs'[q] = IF q = r THEN run ELSE runs[q]
    BY <2>1
  <2>3. run.at # "reading" => run.code # None
    BY <1>0, <1>00
  <2>4. disk' = [disk EXCEPT ![f] = disk[f]]
    BY <1>s, <2>1
  <2>5. RunOf(r, run, f, disk[f])
    BY <1>0, <1>00, <2>1, <2>2, <2>3, <2>4 DEF RunOf
  <2> QED
    BY <1>0, <2>5, RunKeeps
<1> QED
  BY <1>1, <1>2, <1>3, <1>4

-----------------------------------------------------------------------------
(* Saves.                                                                  *)

LEMMA SavedKeeps ==
  ASSUME HInv, NEW g \in File, Saved(g),
         \/ g \notin Route /\ pendingFiles' = pendingFiles \cup {g} /\ batchTimer' = TRUE
         \/ g \in Route /\ UNCHANGED <<pendingFiles, batchTimer>>
  PROVE  HInv'
<1> DEFINE first == [at |-> "reading", k |-> 1, code |-> None]
<1>1. /\ saves < MaxSaves /\ saves' = saves + 1
      /\ edits' = [edits EXCEPT ![g] = @ + 1]
      /\ version' = [version EXCEPT ![g] = saves + 1]
      /\ runs' = [r \in DOMAIN runs \cup {saves + 1} |->
                    IF r = saves + 1 THEN first ELSE runs[r]]
      /\ raced' = IF Holds(g) THEN raced \cup {g} ELSE raced \ {g}
      /\ last' = g /\ clean' = AtRest
      /\ UNCHANGED <<batches, buildCache, disk, loaded, broken>>
  BY DEF Saved
<1>2. /\ saves \in Nat /\ MaxSaves \in Nat
      /\ version \in [File -> 0 .. saves] /\ edits \in [File -> 0 .. saves]
  BY Bounds DEF HInv, TypeOK
<1>3. \A h \in File : version'[h] = IF h = g THEN saves + 1 ELSE version[h]
  BY <1>1, <1>2
<1>4. /\ saves' \in 0 .. MaxSaves /\ saves' \in Nat /\ 0 .. saves \subseteq 0 .. saves'
      /\ Cached \subseteq Cached'
  <2>1. saves' \in 0 .. MaxSaves /\ saves' \in Nat /\ 0 .. saves \subseteq 0 .. saves'
    BY <1>1, <1>2
  <2> QED
    BY <2>1 DEF Cached
<1>5. first \in Run /\ Run' = Run /\ DOMAIN Order = 1 .. Len(Order) /\ 1 \in DOMAIN Order
  <2>1. DOMAIN Order = 1 .. Len(Order) /\ Len(Order) \in Nat
    BY OrderType
  <2>2. PICK i \in DOMAIN Order : Order[i] = g
    BY HotReloadAssumption
  <2>3. 1 \in DOMAIN Order
    BY <2>1, <2>2
  <2> QED
    BY <2>1, <2>3 DEF Run
<1>6. /\ DOMAIN runs' = DOMAIN runs \cup {saves + 1} /\ saves + 1 \notin DOMAIN runs
      /\ runs'[saves + 1] = first /\ \A r \in DOMAIN runs : runs'[r] = runs[r]
  <2>1. DOMAIN runs \subseteq 1 .. saves
    BY DEF HInv, TypeOK
  <2>2. saves + 1 \notin DOMAIN runs
    BY <1>2, <2>1
  <2> QED
    BY <1>1, <2>2
<1>7. first.at = "reading" /\ first.k = 1
  OBVIOUS
<1> HIDE DEF first
<1>8. TypeOK'
  <2>1. version' \in [File -> 0 .. saves'] /\ edits' \in [File -> 0 .. saves']
    BY <1>1, <1>2
  <2>2. \A c \in DOMAIN batches' : \A h \in DOMAIN batches'[c] :
          h \in File /\ batches'[c][h] \in Job'
    <3>1. Job \subseteq Job'
      BY <1>4 DEF Job
    <3> QED
      BY <1>1, <3>1 DEF HInv, TypeOK
  <2>3. buildCache' \in [File -> Cached']
    BY <1>1, <1>4 DEF HInv, TypeOK
  <2>4. pendingFiles' \subseteq File /\ batchTimer' \in BOOLEAN
    BY DEF HInv, TypeOK
  <2>5. DOMAIN runs' \subseteq 1 .. saves'
    <3>1. DOMAIN runs \subseteq 1 .. saves
      BY DEF HInv, TypeOK
    <3> QED
      BY <1>1, <1>2, <1>6, <3>1
  <2>6. \A r \in DOMAIN runs' : runs'[r] \in Run'
    BY <1>5, <1>6 DEF HInv, TypeOK
  <2>7. clean' \in BOOLEAN /\ last' \in File \cup {None} /\ raced' \subseteq File
    BY <1>1 DEF HInv, TypeOK, AtRest
  <2>8. /\ disk' \in [File -> Code] /\ loaded' \in [File -> Code \cup {None, FirstModule}]
        /\ broken' \in [File -> 0 .. Len(batches')]
    BY <1>1 DEF HInv, TypeOK
  <2> QED
    BY <1>4, <2>1, <2>2, <2>3, <2>4, <2>5, <2>6, <2>7, <2>8 DEF TypeOK
<1>9. Tables'
  <2>1. \A r \in DOMAIN runs' : runs'[r].at # "reading" => runs'[r].code # None
    BY <1>6, <1>7 DEF HInv, Tables
  <2>2. pendingFiles' # {} => batchTimer'
    BY DEF HInv, Tables
  <2> QED
    BY <1>1, <2>1, <2>2 DEF HInv, Tables
<1>10. ASSUME NEW h \in File \ Route, h \notin raced', h # g
       PROVE  Calm(h)'
  <2>1. Calm(h) /\ version'[h] = version[h]
    BY <1>1, <1>3, <1>10 DEF HInv
  <2>2. \A r \in DOMAIN runs' : CurrentRun(runs[r], h)'
    BY <1>6, <1>7, <2>1 DEF Calm, CurrentRun
  <2>3. \A b \in DOMAIN batches' :
          h \in DOMAIN batches'[b] => Current(batches[b][h], h, disk[h])'
    BY <1>1, <2>1 DEF Calm, Current, Honest, Stale, Fresh
  <2>4. Honest(buildCache[h], h)'
    BY <1>1, <2>1 DEF Calm, Honest, Stale, Fresh
  <2>5. h \in pendingFiles' \/ Rebuilding(h)' \/ Served(h)'
    BY <1>1, <2>1 DEF Calm, Rebuilding, Served
  <2> QED
    BY <2>2, <2>3, <2>4, <2>5 DEF Calm
<1>11. ASSUME g \notin raced', g \notin Route
       PROVE  Calm(g)'
  <2>1. ~Holds(g) /\ g \in pendingFiles' /\ version'[g] = saves + 1
    BY <1>1, <1>3, <1>11
  <2>2. ASSUME NEW cached \in Cached
        PROVE  cached = None \/ ~(cached.timestamp >= saves + 1)
    BY <1>2, <2>2 DEF Cached
  <2>3. buildCache[g] \in Cached
    BY DEF HInv, TypeOK
  <2>4. Honest(buildCache[g], g)'
    BY <1>1, <2>1, <2>2, <2>3 DEF Honest, Stale, Fresh
  <2>5. ASSUME NEW b \in DOMAIN batches', g \in DOMAIN batches'[b]
        PROVE  Current(batches[b][g], g, disk[g])'
    <3>1. batches[b][g] \in Job /\ batches[b][g].cached \in Cached
      BY <1>1, <2>5 DEF HInv, TypeOK, Job
    <3>2. batches[b][g].at \in {"reading", "deciding", "building"}
      BY <1>1, <2>1, <2>5 DEF Holds
    <3> QED
      BY <1>1, <2>1, <2>2, <3>1, <3>2 DEF Current, Honest, Stale, Fresh, HasCode
  <2>6. \A r \in DOMAIN runs' : CurrentRun(runs[r], g)'
    BY <1>6, <1>7, <2>1 DEF CurrentRun, Holds
  <2> QED
    BY <2>1, <2>4, <2>5, <2>6 DEF Calm
<1>12. ASSUME clean'
       PROVE  AsIntended'
  <2>1. /\ pendingFiles = {} /\ ~batchTimer /\ Running = {} /\ DOMAIN runs = {}
    BY <1>1, <1>12 DEF AtRest
  <2>2. /\ Running' = {} /\ DOMAIN runs' = {saves + 1}
        /\ \A b \in DOMAIN batches' : DOMAIN batches'[b] = {}
    BY <1>1, <1>6, <2>1 DEF Running
  <2>3. batchTimer' => pendingFiles' = {g} /\ g \notin Route
    BY <2>1
  <2>4. Stale(buildCache[g], g)'
    <3>1. buildCache[g] \in Cached
      BY DEF HInv, TypeOK
    <3>2. version'[g] = saves + 1
      BY <1>3
    <3> QED
      BY <1>1, <1>2, <3>1, <3>2 DEF Stale, Fresh, Cached
  <2>5. InTurn'
    BY <1>1, <2>2, <2>3, <2>4 DEF InTurn
  <2>6. \A i \in DOMAIN Order : ~(i < 1)
    BY OrderType
  <2>7. ASSUME NEW r \in DOMAIN runs'
        PROVE  IntendedRun(runs[r])'
    <3>1. runs'[r].at = "reading" /\ runs'[r].k = 1
      BY <1>6, <1>7, <2>2
    <3> QED
      BY <2>6, <3>1 DEF IntendedRun
  <2>8. ASSUME NEW h \in Hit(last)' \ Route
        PROVE  batchTimer'
    BY <1>1, <2>8 DEF Hit
  <2> QED
    BY <2>2, <2>5, <2>7, <2>8 DEF AsIntended
<1> QED
  BY <1>8, <1>9, <1>10, <1>11, <1>12 DEF HInv

-----------------------------------------------------------------------------
(* A batch starts.                                                         *)

LEMMA BatchKeeps ==
  ASSUME HInv, BatchStarts
  PROVE  HInv'
<1> DEFINE pages == Dependents(pendingFiles)
           all == pendingFiles \cup pages
           first == [at |-> "reading", code |-> None, cached |-> None]
           new == [f \in all |-> first]
           n == Len(batches) + 1
<1>1. /\ buildCache' = [f \in File |-> IF f \in pages THEN None ELSE buildCache[f]]
      /\ batches' = Append(batches, new)
      /\ pendingFiles' = {} /\ batchTimer' = FALSE
      /\ clean' = (clean /\ DOMAIN runs = {})
      /\ UNCHANGED <<saves, edits, version, runs, disk, loaded, broken, raced, last>>
      /\ batchTimer
  BY DEF BatchStarts, Started
<1>2. pendingFiles \subseteq File /\ pages \subseteq File
  BY HotReloadAssumption DEF HInv, TypeOK, Dependents
<1>3. first \in Job /\ first \in AnyJob /\ first.at = "reading"
  BY DEF Job, AnyJob, Steps, Cached
<1>4. new \in Batch /\ DOMAIN new = all /\ \A f \in all : new[f] = first
  <2>1. new \in [all -> AnyJob] /\ all \in SUBSET File
    BY <1>2, <1>3
  <2> QED
    BY <2>1 DEF Batch
<1>5. \A f \in File : f \in all <=> f \in pendingFiles \/ f \in pages
  OBVIOUS
<1>6. all \subseteq File
  BY <1>2
<1> HIDE DEF all, first, new
<1>7. /\ batches' \in Seq(Batch) /\ Len(batches') = n
      /\ DOMAIN batches' = DOMAIN batches \cup {n} /\ n \notin DOMAIN batches
      /\ batches'[n] = new
      /\ \A c \in DOMAIN batches : batches'[c] = batches[c]
      /\ Len(batches) \in Nat
  <2>1. batches \in Seq(Batch) /\ Len(batches) \in Nat /\ DOMAIN batches = 1 .. Len(batches)
    BY BatchesType DEF HInv, Tables
  <2>2. /\ Append(batches, new) \in Seq(Batch) /\ Len(Append(batches, new)) = n
        /\ \A c \in 1 .. Len(batches) : Append(batches, new)[c] = batches[c]
        /\ Append(batches, new)[n] = new
    BY <1>4, <2>1, AppendProperties
  <2>3. DOMAIN batches' = 1 .. n
    BY <1>1, <2>2, LenProperties
  <2> QED
    BY <1>1, <2>1, <2>2, <2>3
<1>8. /\ Cached' = Cached /\ Job' = Job /\ Run' = Run
      /\ \A f \in File : buildCache'[f] = IF f \in pages THEN None ELSE buildCache[f]
      /\ \A f \in File : buildCache'[f] = None \/ buildCache'[f] = buildCache[f]
  BY <1>1 DEF Cached, Job, Run
<1>9. TypeOK'
  <2>1. \A c \in DOMAIN batches' : \A h \in DOMAIN batches'[c] :
          h \in File /\ batches'[c][h] \in Job
    <3> SUFFICES ASSUME NEW c \in DOMAIN batches', NEW h \in DOMAIN batches'[c]
                 PROVE  h \in File /\ batches'[c][h] \in Job
      OBVIOUS
    <3>1. CASE c = n
      BY <1>3, <1>4, <1>6, <1>7, <3>1
    <3>2. CASE c \in DOMAIN batches
      BY <1>7, <3>2 DEF HInv, TypeOK
    <3> QED
      BY <1>7, <3>1, <3>2
  <2>2. buildCache' \in [File -> Cached]
    <3>1. None \in Cached /\ buildCache \in [File -> Cached]
      BY DEF HInv, TypeOK, Cached
    <3> QED
      BY <1>1, <3>1
  <2>3. broken' \in [File -> 0 .. Len(batches')]
    <3>1. broken \in [File -> 0 .. Len(batches)] /\ 0 .. Len(batches) \subseteq 0 .. n
      BY <1>7 DEF HInv, TypeOK
    <3> QED
      BY <1>1, <1>7, <3>1
  <2>4. clean' \in BOOLEAN
    BY <1>1 DEF HInv, TypeOK
  <2> QED
    BY <1>1, <1>8, <2>1, <2>2, <2>3, <2>4 DEF HInv, TypeOK
<1>10. Tables'
  <2>1. \A c \in DOMAIN batches' : \A f \in DOMAIN batches'[c] :
          batches'[c][f].at \in HasCode => batches'[c][f].code # None
    BY <1>3, <1>4, <1>7 DEF HInv, Tables, HasCode
  <2> QED
    BY <1>1, <1>7, <2>1 DEF HInv, Tables
<1>11. ASSUME NEW f \in File \ Route, f \notin raced'
       PROVE  Calm(f)'
  <2>1. Calm(f)
    BY <1>1, <1>11 DEF HInv
  <2>2. \A r \in DOMAIN runs' : CurrentRun(runs[r], f)'
    BY <1>1, <2>1 DEF Calm, CurrentRun
  <2>3. Honest(buildCache[f], f)'
    BY <1>1, <1>8, <2>1 DEF Calm, Honest, Stale, Fresh
  <2>4. ASSUME NEW c \in DOMAIN batches', f \in DOMAIN batches'[c]
        PROVE  Current(batches[c][f], f, disk[f])'
    <3>1. CASE c = n
      <4>1. batches'[c][f].at = "reading"
        BY <1>3, <1>4, <1>7, <2>4, <3>1
      <4> QED
        BY <4>1 DEF Current, HasCode
    <3>2. CASE c \in DOMAIN batches
      <4>1. Current(batches[c][f], f, disk[f]) /\ batches'[c][f] = batches[c][f]
        BY <1>7, <2>1, <2>4, <3>2 DEF Calm
      <4> QED
        BY <1>1, <4>1 DEF Current, Honest, Stale, Fresh
    <3> QED
      BY <1>7, <3>1, <3>2
  <2>5. Rebuilding(f)' \/ Served(f)'
    <3>1. CASE f \in all
      BY <1>4, <1>7, <3>1 DEF Rebuilding
    <3>2. CASE f \notin all
      <4>1. Rebuilding(f) \/ Served(f)
        BY <1>5, <1>11, <2>1, <3>2 DEF Calm
      <4>2. Rebuilding(f) => Rebuilding(f)'
        BY <1>7 DEF Rebuilding
      <4>3. Served(f) => Served(f)'
        BY <1>1 DEF Served
      <4> QED
        BY <4>1, <4>2, <4>3
    <3> QED
      BY <3>1, <3>2
  <2> QED
    BY <2>2, <2>3, <2>4, <2>5 DEF Calm
<1>12. ASSUME clean'
       PROVE  AsIntended'
  <2>1. AsIntended /\ DOMAIN runs = {}
    BY <1>1, <1>12 DEF HInv
  <2>2. /\ last \in File \ Route /\ pendingFiles = {last} /\ Running = {}
        /\ Stale(buildCache[last], last)
    BY <1>1, <2>1 DEF AsIntended, InTurn
  <2>3. \A c \in DOMAIN batches : DOMAIN batches[c] = {}
    BY <2>2 DEF Running
  <2>4. \A c \in DOMAIN batches' : DOMAIN batches'[c] # {} => c = n
    BY <1>7, <2>3
  <2>5. InTurn'
    BY <1>1, <2>1, <2>2, <2>4 DEF InTurn, Running
  <2>6. \A h \in File : Sound(h, disk[h])'
    BY <1>1, <2>1 DEF AsIntended, Sound, Latest, Sources
  <2>7. ASSUME NEW c \in DOMAIN batches', NEW f \in DOMAIN batches'[c]
        PROVE  Intended(batches[c][f], f, buildCache[f])'
    <3>1. c = n /\ f \in all /\ batches'[c][f] = first /\ f \in File
      BY <1>4, <1>6, <1>7, <2>4, <2>7
    <3>2. Stale(buildCache[f], f)'
      <4>1. CASE f \in pages
        BY <1>8, <3>1, <4>1 DEF Stale
      <4>2. CASE f \notin pages
        <5>1. f = last /\ buildCache'[f] = buildCache[f]
          BY <1>5, <1>8, <2>2, <3>1, <4>2
        <5> QED
          BY <1>1, <2>2, <5>1 DEF Stale, Fresh
      <4> QED
        BY <4>1, <4>2
    <3> QED
      BY <1>3, <3>1, <3>2 DEF Intended
  <2>8. ASSUME NEW f \in Hit(last)' \ Route
        PROVE  Rebuilding(f)'
    <3>1. f \in {last} \cup Dependents({last})
      BY <1>1, <2>2 DEF Hit
    <3>2. f \in all
      BY <2>2, <3>1 DEF all
    <3> QED
      BY <1>4, <1>7, <3>2 DEF Rebuilding
  <2> QED
    BY <1>1, <2>1, <2>5, <2>6, <2>7, <2>8 DEF AsIntended
<1> QED
  BY <1>1, <1>9, <1>10, <1>11, <1>12 DEF HInv

-----------------------------------------------------------------------------
(* A registration is loaded, or nothing happens.                           *)

LEMMA LoadedKeeps ==
  ASSUME HInv,
         UNCHANGED <<saves, edits, version, pendingFiles, batchTimer, batches, buildCache,
                     runs, disk, broken, raced, last, clean>>,
         loaded' \in [File -> Code \cup {None, FirstModule}],
         \A h \in File : loaded'[h] = loaded[h] \/ loaded'[h] = FirstModule
  PROVE  HInv'
<1>1. Cached' = Cached /\ Job' = Job /\ Run' = Run
  BY DEF Cached, Job, Run
<1>2. TypeOK'
  BY <1>1 DEF HInv, TypeOK
<1>3. Tables'
  BY DEF HInv, Tables
<1>4. ASSUME NEW h \in File \ Route, h \notin raced'
      PROVE  Calm(h)'
  <2>1. Calm(h)
    BY <1>4 DEF HInv
  <2>2. \A r \in DOMAIN runs' : CurrentRun(runs[r], h)'
    BY <2>1 DEF Calm, CurrentRun
  <2>3. Honest(buildCache[h], h)'
    BY <2>1 DEF Calm, Honest, Stale, Fresh
  <2>4. \A b \in DOMAIN batches' :
          h \in DOMAIN batches'[b] => Current(batches[b][h], h, disk[h])'
    BY <2>1 DEF Calm, Current, Honest, Stale, Fresh
  <2>5. h \in pendingFiles' \/ Rebuilding(h)' \/ Served(h)'
    BY <2>1 DEF Calm, Rebuilding, Served
  <2> QED
    BY <2>2, <2>3, <2>4, <2>5 DEF Calm
<1>5. ASSUME clean'
      PROVE  AsIntended'
  <2>1. AsIntended
    BY <1>5 DEF HInv
  <2>2. InTurn'
    BY <2>1 DEF AsIntended, InTurn, Running, Stale, Fresh
  <2>3. \A r \in DOMAIN runs' : IntendedRun(runs[r])'
    BY <2>1 DEF AsIntended, IntendedRun, Source, Sound, Latest, Sources
  <2>4. DOMAIN runs' = {} => \A h \in File : Sound(h, disk[h])'
    BY <2>1 DEF AsIntended, Sound, Latest, Sources
  <2>5. \A b \in DOMAIN batches' : \A h \in DOMAIN batches'[b] :
          Intended(batches[b][h], h, buildCache[h])'
    BY <2>1 DEF AsIntended, Intended, Stale, Fresh, Source, Sound, Latest, Sources
  <2>6. ASSUME NEW h \in Hit(last)' \ Route
        PROVE  (batchTimer \/ Rebuilding(h) \/ loaded[h] = FirstModule \/ Sound(h, loaded[h]))'
    <3>1. h \in Hit(last) \ Route /\ h \in File
      BY HotReloadAssumption DEF Hit, Dependents
    <3>2. batchTimer \/ Rebuilding(h) \/ loaded[h] = FirstModule \/ Sound(h, loaded[h])
      BY <2>1, <3>1 DEF AsIntended
    <3>3. (batchTimer' <=> batchTimer) /\ (Rebuilding(h)' <=> Rebuilding(h))
      BY DEF Rebuilding
    <3>4. loaded'[h] = loaded[h] \/ loaded'[h] = FirstModule
      BY <3>1
    <3> QED
      BY <3>2, <3>3, <3>4 DEF Sound, Latest, Sources
  <2> QED
    BY <2>2, <2>3, <2>4, <2>5, <2>6 DEF AsIntended
<1> QED
  BY <1>2, <1>3, <1>4, <1>5 DEF HInv

LEMMA RegisterKeeps ==
  ASSUME HInv, NEW f \in Registered, Register(f)
  PROVE  HInv'
<1>1. /\ loaded' = [loaded EXCEPT ![f] = FirstModule]
      /\ UNCHANGED <<saves, edits, version, pendingFiles, batchTimer, batches, buildCache,
                     runs, disk, broken, raced, last, clean>>
  BY DEF Register
<1>2. f \in File /\ loaded \in [File -> Code \cup {None, FirstModule}]
  BY HotReloadAssumption DEF HInv, TypeOK
<1>3. /\ loaded' \in [File -> Code \cup {None, FirstModule}]
      /\ \A h \in File : loaded'[h] = loaded[h] \/ loaded'[h] = FirstModule
  BY <1>1, <1>2
<1> QED
  BY <1>1, <1>3, LoadedKeeps

LEMMA StutterKeeps ==
  ASSUME HInv, UNCHANGED vars
  PROVE  HInv'
<1>1. /\ loaded' = loaded
      /\ UNCHANGED <<saves, edits, version, pendingFiles, batchTimer, batches, buildCache,
                     runs, disk, broken, raced, last, clean>>
  BY DEF vars
<1>2. loaded' \in [File -> Code \cup {None, FirstModule}]
  BY <1>1 DEF HInv, TypeOK
<1> QED
  BY <1>1, <1>2, LoadedKeeps

-----------------------------------------------------------------------------
(* The invariant holds.                                                    *)

LEMMA InitHInv ==
  ASSUME Init
  PROVE  HInv
<1>1. /\ saves = 0 /\ edits = [f \in File |-> 0] /\ version = [f \in File |-> 0]
      /\ pendingFiles = {} /\ batchTimer = FALSE /\ batches = <<>> /\ runs = <<>>
      /\ buildCache = [f \in File |-> None]
      /\ disk = [f \in File |-> Latest(f)] /\ loaded = [f \in File |-> Latest(f)]
      /\ broken = [f \in File |-> 0] /\ raced = {} /\ last = None /\ clean = FALSE
  BY DEF Init
<1>2. MaxSaves \in Nat /\ 0 \in 0 .. MaxSaves
  BY HotReloadAssumption
<1>3. ASSUME NEW f \in File
      PROVE  Latest(f) \in Code /\ Latest(f).own = version[f]
  <2>1. Sources(f) \subseteq Edition
    BY <1>1, <1>2, BelowType DEF Sources, Edition
  <2> QED
    BY <1>1, <1>2, <2>1 DEF Latest, Code
<1>4. batches \in Seq(Batch) /\ DOMAIN batches = {} /\ Len(batches) = 0 /\ DOMAIN runs = {}
  BY <1>1
<1>5. TypeOK
  <2>1. /\ saves \in 0 .. MaxSaves
        /\ version \in [File -> 0 .. saves] /\ edits \in [File -> 0 .. saves]
    BY <1>1, <1>2
  <2>2. /\ pendingFiles \subseteq File /\ raced \subseteq File
        /\ broken \in [File -> 0 .. Len(batches)]
    BY <1>1, <1>4
  <2>3. buildCache \in [File -> Cached]
    BY <1>1 DEF Cached
  <2>4. disk \in [File -> Code] /\ loaded \in [File -> Code \cup {None, FirstModule}]
    BY <1>1, <1>3
  <2>5. batchTimer \in BOOLEAN /\ clean \in BOOLEAN /\ last \in File \cup {None}
    BY <1>1
  <2> QED
    BY <1>4, <2>1, <2>2, <2>3, <2>4, <2>5 DEF TypeOK
<1>6. Tables
  BY <1>1, <1>4 DEF Tables
<1>7. ASSUME NEW f \in File
      PROVE  Calm(f)
  <2>1. Served(f)
    BY <1>1, <1>3, NoneAssumption DEF Served
  <2>2. Honest(buildCache[f], f)
    BY <1>1 DEF Honest, Stale
  <2> QED
    BY <1>4, <2>1, <2>2 DEF Calm
<1> QED
  BY <1>1, <1>5, <1>6, <1>7 DEF HInv

LEMMA HotReloadInvariant == Spec => []HInv
<1>1. Init => HInv
  BY InitHInv
<1>2. ASSUME HInv, Next
      PROVE  HInv'
  <2>1. ASSUME NEW f \in File, Save(f) \/ SaveRoute(f)
        PROVE  HInv'
    BY <1>2, <2>1, SavedKeeps DEF Save, SaveRoute
  <2>2. ASSUME BatchStarts
        PROVE  HInv'
    BY <1>2, <2>2, BatchKeeps
  <2>3. ASSUME Rebuild
        PROVE  HInv'
    BY <1>2, <2>3, JobStepKeeps DEF Rebuild, Running
  <2>4. ASSUME BuildAll
        PROVE  HInv'
    BY <1>2, <2>4, RunStepKeeps DEF BuildAll
  <2>5. ASSUME NEW f \in Registered, Register(f)
        PROVE  HInv'
    BY <1>2, <2>5, RegisterKeeps
  <2> QED
    BY <1>2, <2>1, <2>2, <2>3, <2>4, <2>5 DEF Next
<1>3. HInv /\ [Next]_vars => HInv'
  BY <1>2, StutterKeeps
<1> QED
  BY <1>1, <1>3, PTL DEF Spec

-----------------------------------------------------------------------------

(***************************************************************************)
(* The tables of the coordinator, the builders and the server keep their   *)
(* types: what is built, cached, on the disk and run is made of editions   *)
(* there were, and no time in the build cache is ahead of the clock.       *)
(***************************************************************************)
THEOREM HotReloadTypeCorrect == Spec => []TypeOK
  BY HotReloadInvariant, PTL DEF HInv

(***************************************************************************)
(* An edit is not lost, for any import graph and any number of saves,      *)
(* batches and full builds at a time: when all is quiet the server renders *)
(* the edition of a file that was saved last, unless its rebuild failed,   *)
(* the save raced with a rebuild or a registration came after the reload.  *)
(***************************************************************************)
THEOREM EditsAreServed == Spec => []StaleOnlyIfRaced
<1>1. ASSUME HInv, AtRest, NEW f \in File \ Route, f \notin raced
      PROVE  Served(f)
  <2>1. Calm(f)
    BY <1>1 DEF HInv
  <2>2. f \notin pendingFiles /\ ~Rebuilding(f)
    BY <1>1 DEF AtRest, Running, Rebuilding
  <2> QED
    BY <2>1, <2>2 DEF Calm
<1>2. HInv => StaleOnlyIfRaced
  BY <1>1 DEF StaleOnlyIfRaced, Served
<1> QED
  BY <1>2, HotReloadInvariant, PTL

(***************************************************************************)
(* An edit reaches the pages: of a file saved at rest, with its full build *)
(* over before its batch starts and nothing failing, all that is built is  *)
(* up to date with all it imports, and so is what the server renders of    *)
(* the file and its known dependents, for any import graph and any order   *)
(* with the files below app/ last.  A file below app/ that imports another *)
(* is left out.                                                            *)
(***************************************************************************)
THEOREM EditsReachPages == Spec => []CleanEditsReachPages
<1>1. ASSUME HInv, AtRest, clean, NEW f \in File, Flat(f)
      PROVE  /\ disk[f] = Latest(f)
             /\ f \in Hit(last) \ Route => loaded[f] \in {Latest(f), FirstModule}
  <2>1. AsIntended /\ ~batchTimer /\ DOMAIN runs = {} /\ ~Rebuilding(f)
    BY <1>1 DEF HInv, AtRest, Running, Rebuilding
  <2> QED
    BY <1>1, <2>1 DEF AsIntended, Sound
<1>2. HInv => CleanEditsReachPages
  BY <1>1 DEF CleanEditsReachPages
<1> QED
  BY <1>2, HotReloadInvariant, PTL
=============================================================================
