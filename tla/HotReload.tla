------------------------------- MODULE HotReload -------------------------------
(***************************************************************************)
(* Hot reload of server components.  A save of a file starts three things  *)
(* on the development server's one thread, whose tasks interleave at every *)
(* await: the coordinator of hmr-coordinator.ts puts it into a batch that  *)
(* is rebuilt when saves have paused, the plugin of server-build.ts builds *)
(* all files anew, and vite/index.ts registers the file with the Rust      *)
(* server.  A file below app/ is bundled with the built files of what it   *)
(* imports, any other file with the sources.  An edition of a file is the  *)
(* time of its save; what is built is the edition of the file itself and   *)
(* those of the files that came into the bundle.                           *)
(***************************************************************************)
EXTENDS Naturals, Sequences, FiniteSets

CONSTANTS
  File,        \* the server components
  App,         \* the files below app/
  Route,       \* its page, layout, loading, error and not-found files
  Imports,     \* what the bundler follows the imports of a file to
  Below,       \* all a bundle of the file holds, beside the file
  Importers,   \* fileImporters: who imports a file, as found at the start
  Order,       \* serverComponents: those outside app/ are built first
  MaxEdits,    \* bound: the saves of each file
  MaxSaves,    \* bound: the saves in all
  MaxRunning,  \* bound: the batches and the full builds at a time
  Registered,  \* bound: the files whose registrations are considered
  FirstModule, \* the module a file was first registered with
  None

ASSUME HotReloadAssumption ==
  /\ Route \subseteq App /\ App \subseteq File
  /\ Imports \in [File -> SUBSET File]
  /\ Below \in [File -> SUBSET File]
  /\ \A f \in File : Below[f] = UNION {{h} \cup Below[h] : h \in Imports[f]}
  /\ Importers \in [File -> SUBSET File]
  /\ \A f, g \in File : g \in Importers[f] => f \in Imports[g]
  /\ Order \in Seq(File)
  /\ \A f \in File : \E i \in DOMAIN Order : Order[i] = f
  /\ \A i, j \in DOMAIN Order : i < j /\ Order[i] \in App => Order[j] \in App
  /\ Registered \subseteq File
  /\ MaxEdits \in [File -> Nat] /\ MaxSaves \in Nat /\ MaxRunning \in Nat \ {0}

VARIABLES
  saves,         \* the saves so far, which are the ticks of the clock
  edits,         \* the saves of each file
  version,       \* the time each file was saved at last
  pendingFiles,  \* pendingFiles
  batchTimer,    \* whether batchTimer is set
  batches,       \* of each batch the jobs that are not settled
  buildCache,    \* buildCache: what was built of a file, and when
  runs,          \* the full builds under way, by the save that started them
  disk,          \* the bundles in the output directory
  loaded,        \* what the server renders of a file, None if it was dropped
  broken,        \* the newest batch in which the rebuild of a file failed,
                 \* 0 if it or a newer one has since succeeded
  raced,         \* the files last saved while a rebuild held an older edition
  last,          \* the file saved last
  clean          \* it was saved at rest, and what followed went as intended

vars == <<saves, edits, version, pendingFiles, batchTimer, batches, buildCache,
          runs, disk, loaded, broken, raced, last, clean>>
jobVars == <<saves, edits, version, pendingFiles, batchTimer, runs, raced, last>>

Edition == File \X (0 .. MaxSaves)
Code == [own: 0 .. MaxSaves, rest: SUBSET Edition]

ASSUME NoneAssumption == None \notin Code /\ FirstModule \notin Code

Sources(f) == {<<g, version[g]>> : g \in Below[f]}
Latest(f) == [own |-> version[f], rest |-> Sources(f)]

\* The files that import one of S, however indirectly, and S.
Closed(T) == \A f \in T : Importers[f] \subseteq T
Reached(S) ==
  {f \in File : \A T \in SUBSET File : S \subseteq T /\ Closed(T) => f \in T}

\* collectDependentPageComponents
Dependents(changed) == (Reached(changed) \cap App) \ changed

Steps == {"reading", "deciding", "building", "bundling", "writing", "storing",
          "copying", "asking", "loading"}

Init ==
  /\ saves = 0
  /\ edits = [f \in File |-> 0]
  /\ version = [f \in File |-> 0]
  /\ pendingFiles = {}
  /\ batchTimer = FALSE
  /\ batches = <<>>
  /\ buildCache = [f \in File |-> None]
  /\ runs = <<>>
  /\ disk = [f \in File |-> Latest(f)]
  /\ loaded = [f \in File |-> Latest(f)]
  /\ broken = [f \in File |-> 0]
  /\ raced = {}
  /\ last = None
  /\ clean = FALSE

Running == {b \in DOMAIN batches : DOMAIN batches[b] # {}}
Room == Cardinality(Running) + Cardinality(DOMAIN runs) < MaxRunning
AtRest == pendingFiles = {} /\ ~batchTimer /\ Running = {} /\ DOMAIN runs = {}

-----------------------------------------------------------------------------
(* A save.                                                                 *)

\* A rebuild of f has read the file and still has its code to pass on.
Holds(f) ==
  \/ \E b \in DOMAIN batches : /\ f \in DOMAIN batches[b]
                               /\ batches[b][f].at \notin {"reading", "deciding", "building"}
  \/ \E r \in DOMAIN runs : Order[runs[r].k] = f /\ runs[r].at # "reading"

\* What every save does: the build plugin builds all there was at the start.
Saved(g) ==
  /\ saves < MaxSaves /\ edits[g] < MaxEdits[g] /\ Room
  /\ saves' = saves + 1
  /\ edits' = [edits EXCEPT ![g] = @ + 1]
  /\ version' = [version EXCEPT ![g] = saves + 1]
  /\ runs' = [r \in DOMAIN runs \cup {saves + 1} |->
                IF r = saves + 1 THEN [at |-> "reading", k |-> 1, code |-> None]
                                 ELSE runs[r]]
  /\ raced' = IF Holds(g) THEN raced \cup {g} ELSE raced \ {g}
  /\ last' = g
  /\ clean' = AtRest
  /\ UNCHANGED <<batches, buildCache, disk, loaded, broken>>

\* Mutated: the timer that was cleared is only set again for a new file.
SaveOnce(g) ==
  /\ g \notin Route
  /\ Saved(g)
  /\ pendingFiles' = pendingFiles \cup {g}
  /\ batchTimer' = (g \notin pendingFiles)

\* handleServerComponentUpdate
Save(g) ==
  /\ g \notin Route
  /\ Saved(g)
  /\ pendingFiles' = pendingFiles \cup {g}
  /\ batchTimer' = TRUE

\* A route file does not get to the coordinator.
SaveRoute(g) ==
  /\ g \in Route
  /\ Saved(g)
  /\ UNCHANGED <<pendingFiles, batchTimer>>

-----------------------------------------------------------------------------
(* The coordinator: a batch, and the jobs of it, rebuildComponent and      *)
(* notifyRustServer for one file.                                          *)

Started(files) ==
  Append(batches, [f \in files |-> [at |-> "reading", code |-> None, cached |-> None]])

\* Mutated: what was built of the dependent pages stays in the cache.
BatchStartsCached ==
  /\ batchTimer /\ Room
  /\ batches' = Started(pendingFiles \cup Dependents(pendingFiles))
  /\ pendingFiles' = {}
  /\ batchTimer' = FALSE
  /\ clean' = (clean /\ DOMAIN runs = {})
  /\ UNCHANGED <<saves, edits, version, buildCache, runs, disk,
                 loaded, broken, raced, last>>

\* The callback of batchTimer, up to its first await.  As intended the full
\* build of the last save is over by then.
BatchStarts ==
  /\ batchTimer /\ Room
  /\ LET pages == Dependents(pendingFiles) IN
       /\ buildCache' = [f \in File |-> IF f \in pages THEN None ELSE buildCache[f]]
       /\ batches' = Started(pendingFiles \cup pages)
  /\ pendingFiles' = {}
  /\ batchTimer' = FALSE
  /\ clean' = (clean /\ DOMAIN runs = {})
  /\ UNCHANGED <<saves, edits, version, runs, disk, loaded,
                 broken, raced, last>>

Step(b, f, from, job) ==
  /\ f \in DOMAIN batches[b]
  /\ batches[b][f].at = from
  /\ batches' = [batches EXCEPT ![b][f] = job]
  /\ UNCHANGED <<jobVars, broken, clean>>

\* The job is settled.  When the last one is, the browser is told.
Settle(b, f, from, failed) ==
  /\ f \in DOMAIN batches[b]
  /\ batches[b][f].at \in from
  /\ batches' = [batches EXCEPT ![b] = [h \in DOMAIN @ \ {f} |-> @[h]]]
  /\ broken' = [broken EXCEPT ![f] = IF failed /\ b > @ THEN b
                                    ELSE IF ~failed /\ b >= @ THEN 0 ELSE @]
  /\ clean' = (clean /\ ~failed)
  /\ UNCHANGED jobVars

\* readFile, and what the cache holds by then
Read(b, f) ==
  /\ Step(b, f, "reading",
          [at |-> "deciding", code |-> None, cached |-> buildCache[f]])
  /\ UNCHANGED <<buildCache, disk, loaded>>

\* Mutated: times are compared as if they were less exact.
FreshEnough(cached, f) == cached.timestamp + 1 >= version[f]

\* What is cached was built after the last save.
Fresh(cached, f) == cached.timestamp >= version[f]

\* stat, and the comparison of times and of dependencies, which are the same
\* of the same edition
Decide(b, f) ==
  LET cached == batches[b][f].cached IN
  /\ \/ /\ cached # None /\ Fresh(cached, f)
        /\ Step(b, f, "deciding",
                [at |-> "copying", code |-> cached.code, cached |-> None])
     \/ /\ cached # None /\ Fresh(cached, f) => cached.code.own # version[f]
        /\ Step(b, f, "deciding", [at |-> "building", code |-> None, cached |-> None])
  /\ UNCHANGED <<buildCache, disk, loaded>>

\* buildSingleComponent reads the file ...
Source(f) == [own |-> version[f], rest |-> {}]

Build(b, f) ==
  /\ Step(b, f, "building", [at |-> "bundling", code |-> Source(f), cached |-> None])
  /\ UNCHANGED <<buildCache, disk, loaded>>

\* ... and the bundler what it imports: use-transformed-server-components
\* has a file below app/ take what is built of it.
Built(f) == UNION {{<<h, disk[h].own>>} \cup disk[h].rest : h \in Imports[f]}
Bundled(f, code) ==
  [code EXCEPT !.rest = IF f \in App THEN Built(f) ELSE Sources(f)]

Bundle(b, f) ==
  /\ Step(b, f, "bundling",
          [at |-> "writing", code |-> Bundled(f, batches[b][f].code), cached |-> None])
  /\ UNCHANGED <<buildCache, disk, loaded>>

\* writeFile: of what was built, or of what was cached
Write(b, f) ==
  /\ \/ Step(b, f, "writing", [batches[b][f] EXCEPT !.at = "storing"])
     \/ Step(b, f, "copying", [batches[b][f] EXCEPT !.at = "asking"])
  /\ disk' = [disk EXCEPT ![f] = batches[b][f].code]
  /\ UNCHANGED <<buildCache, loaded>>

\* Mutated: the time is rounded up.
StoreAhead(b, f) ==
  /\ Step(b, f, "storing", [batches[b][f] EXCEPT !.at = "asking"])
  /\ buildCache' = [buildCache EXCEPT
                      ![f] = [code |-> batches[b][f].code, timestamp |-> saves + 1]]
  /\ UNCHANGED <<disk, loaded>>

\* buildCache.set: the time is now, whenever the file was read.
Store(b, f) ==
  /\ Step(b, f, "storing", [batches[b][f] EXCEPT !.at = "asking"])
  /\ buildCache' = [buildCache EXCEPT
                      ![f] = [code |-> batches[b][f].code, timestamp |-> saves]]
  /\ UNCHANGED <<disk, loaded>>

\* handle_reload_component reads the bundle and drops the component ...
Ask(b, f) ==
  /\ Step(b, f, "asking", [at |-> "loading", code |-> disk[f], cached |-> None])
  /\ loaded' = [loaded EXCEPT ![f] = None]
  /\ UNCHANGED <<buildCache, disk>>

\* ... and loads what it has read.
Load(b, f) ==
  /\ Settle(b, f, {"loading"}, FALSE)
  /\ loaded' = [loaded EXCEPT ![f] = batches[b][f].code]
  /\ UNCHANGED <<buildCache, disk>>

\* A file that cannot be read or built, a server that is not there or cannot
\* load what was built: the job catches the error.
JobFails(b, f) ==
  /\ Settle(b, f, {"reading", "building", "bundling", "asking", "loading"}, TRUE)
  /\ UNCHANGED <<buildCache, disk, loaded>>

JobStep(b, f) ==
  \/ Read(b, f) \/ Decide(b, f) \/ Build(b, f) \/ Bundle(b, f)
  \/ Write(b, f) \/ Store(b, f) \/ Ask(b, f) \/ Load(b, f) \/ JobFails(b, f)

Rebuild == \E b \in Running : \E f \in DOMAIN batches[b] : JobStep(b, f)

-----------------------------------------------------------------------------
(* A full build, buildServerComponents: one file after the other.          *)

RunStep(r, from, run) ==
  /\ runs[r].at = from
  /\ runs' = [runs EXCEPT ![r] = run]
  /\ UNCHANGED <<saves, edits, version, pendingFiles, batchTimer, batches, buildCache,
                 loaded, broken, raced, last, clean>>

RunEnds(r) ==
  /\ runs' = [q \in DOMAIN runs \ {r} |-> runs[q]]
  /\ UNCHANGED <<saves, edits, version, pendingFiles, batchTimer, batches, buildCache,
                 loaded, broken, raced, last>>

RunFile(r) == Order[runs[r].k]

RunReads(r) ==
  /\ RunStep(r, "reading",
             [at |-> "bundling", k |-> runs[r].k, code |-> Source(RunFile(r))])
  /\ UNCHANGED disk

RunBundles(r) ==
  /\ RunStep(r, "bundling",
             [at |-> "writing", k |-> runs[r].k, code |-> Bundled(RunFile(r), runs[r].code)])
  /\ UNCHANGED disk

RunWrites(r) ==
  /\ disk' = [disk EXCEPT ![RunFile(r)] = runs[r].code]
  /\ \/ /\ runs[r].k < Len(Order)
        /\ RunStep(r, "writing", [at |-> "reading", k |-> runs[r].k + 1, code |-> None])
     \/ /\ runs[r].k = Len(Order) /\ runs[r].at = "writing"
        /\ RunEnds(r)
        /\ UNCHANGED clean

\* A file cannot be built: those after it are not.
RunFails(r) ==
  /\ RunEnds(r)
  /\ clean' = FALSE
  /\ UNCHANGED disk

BuildAll == \E r \in DOMAIN runs :
              RunReads(r) \/ RunBundles(r) \/ RunWrites(r) \/ RunFails(r)

-----------------------------------------------------------------------------
(* Registrations.                                                          *)

\* A save of the file starts one, and that of a client component, or one that
\* fails, those of all files outside app/, and each takes its time: one may
\* end at any moment.  register_component has the module imported by a
\* specifier that is always the same, which gives the module the file was
\* registered with first.
Register(f) ==
  /\ loaded' = [loaded EXCEPT ![f] = FirstModule]
  /\ UNCHANGED <<saves, edits, version, pendingFiles, batchTimer, batches, buildCache,
                 runs, disk, broken, raced, last, clean>>

-----------------------------------------------------------------------------

Next ==
  \/ \E f \in File : Save(f) \/ SaveRoute(f)
  \/ BatchStarts \/ Rebuild \/ BuildAll
  \/ \E f \in Registered : Register(f)

Spec == Init /\ [][Next]_vars

(***************************************************************************)
(* Timers fire and what is awaited is settled; nobody has to save a file.  *)
(***************************************************************************)
FairSpec == Spec /\ WF_vars(BatchStarts) /\ WF_vars(Rebuild) /\ WF_vars(BuildAll)

-----------------------------------------------------------------------------

Cached == [code: Code, timestamp: 0 .. saves] \cup {None}
Job == [at: Steps, code: Code \cup {None}, cached: Cached]
Run == [at: {"reading", "bundling", "writing"}, k: DOMAIN Order, code: Code \cup {None}]

TypeOK ==
  /\ saves \in 0 .. MaxSaves
  /\ version \in [File -> 0 .. saves] /\ edits \in [File -> 0 .. saves]
  /\ pendingFiles \subseteq File
  /\ batchTimer \in BOOLEAN
  /\ \A b \in DOMAIN batches : \A f \in DOMAIN batches[b] :
       f \in File /\ batches[b][f] \in Job
  /\ buildCache \in [File -> Cached]
  /\ DOMAIN runs \subseteq 1 .. saves /\ \A r \in DOMAIN runs : runs[r] \in Run
  /\ disk \in [File -> Code]
  /\ loaded \in [File -> Code \cup {None, FirstModule}]
  /\ broken \in [File -> 0 .. Len(batches)] /\ raced \subseteq File
  /\ last \in File \cup {None} /\ clean \in BOOLEAN

(***************************************************************************)
(* An edit is not lost: when all is quiet the server renders the edition   *)
(* of a file that was saved last, unless its rebuild failed, it was saved  *)
(* while a rebuild held an older edition, or a registration came after the *)
(* reload.  So the next save repairs what a race has left, whatever the    *)
(* cache, the output directory and other builds hold of the file.  Route   *)
(* files, which the router reloads in its own way, are left out.           *)
(***************************************************************************)
StaleOnlyIfRaced ==
  AtRest => \A f \in File \ Route :
    \/ broken[f] # 0 \/ f \in raced \/ loaded[f] = FirstModule
    \/ loaded[f] # None /\ loaded[f].own = version[f]

\* The files a save of f has rebuilt, and loaded.
Hit(f) == IF f \in File \ Route THEN {f} \cup Dependents({f}) ELSE {}

\* Nothing of what it takes from the output directory is below app/.
Flat(f) == f \in App => Imports[f] \cap App = {}

(***************************************************************************)
(* An edit reaches the pages: of a file saved at rest, with its full build *)
(* done before its batch starts and nothing failing, the output directory  *)
(* has the latest code of every file with all that file imports, which the *)
(* server renders of the file and of the components the import graph knows *)
(* to depend on it.  Not promised where a file below app/ takes another    *)
(* one's build, which may come later in the order.                         *)
(***************************************************************************)
CleanEditsReachPages ==
  AtRest /\ clean => \A f \in File : Flat(f) =>
    /\ disk[f] = Latest(f)
    /\ f \in Hit(last) \ Route => loaded[f] \in {Latest(f), FirstModule}

(***************************************************************************)
(* No save waits for ever: its batch starts and ends, though every later   *)
(* save puts it off, and so does its full build, however the jobs end.     *)
(***************************************************************************)
ReloadsEnd == []<>AtRest

=============================================================================
