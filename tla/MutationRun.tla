---------------------------- MODULE MutationRun ----------------------------
(***************************************************************************)
(* A project and the runs of irradiate over it, one after the other.       *)
(*                                                                         *)
(* pipeline::run is a sequence of phases: generate the mutants, let a      *)
(* type checker remove some, collect the test statistics or replay them,   *)
(* schedule, execute, verify the survivors, patch the sources of decorated *)
(* functions one by one, and report.  Between and during the runs somebody *)
(* edits the project, and a run may be killed after any of its steps.      *)
(* What a run leaves behind is what the next one reads: mutants/, the      *)
(* function map, stats.json, its fingerprint and the result cache.         *)
(*                                                                         *)
(* One mutant stands for each function and is named by it: a plain         *)
(* function gets a trampoline, a decorated one a patch of the source.  A   *)
(* verdict carries what it measured: the version of the function that ran  *)
(* mutated (Original when none did) and of the tests.                      *)
(***************************************************************************)
EXTENDS Naturals, Sequences, FiniteSets

CONSTANTS
    Plain,       \* functions mutated through a trampoline
    Decorated,   \* functions mutated by patching their source
    Versions,    \* the versions a function's text can have
    Tests,       \* the tests of the project
    TestVersions,\* the versions the test files can have
    Reach,       \* the tests that call a function, for every text and version of the tests
    Hashed,      \* functions under a source path that is a directory, not one file
    TestsHashed, \* tests_dir is a directory, not one file
    Settings,    \* the combinations of options runs are started with
    Verdict,     \* what a run of a mutant's tests can end in
    Edited,      \* bound: the functions whose text is edited
    MaxEdits,    \* bound on the edits of the project
    MaxRuns,     \* bound on the runs
    None         \* no value

Funcs == Plain \union Decorated

\* The project as it can be seen at one moment.
Seen == [text : [Funcs -> Versions], tests : TestVersions]

Options == {"diff", "no_stats", "covered_only", "no_cache", "isolate", "verify",
            "filter", "operators", "type_check", "no_source_patch"}

ASSUME FuncsAssumption ==
    Plain \intersect Decorated = {} /\ Edited \subseteq Funcs /\ Hashed \subseteq Funcs
ASSUME SettingsAssumption == Settings \subseteq SUBSET Options
ASSUME VerdictAssumption ==
    {"killed", "survived"} \subseteq Verdict
    /\ Verdict \subseteq {"killed", "survived", "timeout", "error"}
ASSUME VersionsAssumption ==
    1 \in Versions /\ Versions \subseteq Nat \ {0} /\ 1 \in TestVersions
ASSUME BoundsAssumption == MaxEdits \in Nat /\ MaxRuns \in Nat
ASSUME ReachAssumption == Reach \in [Seen -> [Funcs -> SUBSET Tests]]

VARIABLES
    \* the project
    text,        \* the version of each function
    tests,       \* the version of the test files
    edits,       \* edits made so far
    \* files
    made,        \* mutants/: the text each function was generated from
    patched,     \* the function whose patch sits in mutants/, None without one
    fmap,        \* mutated_functions.json: the functions the stats plugin watches
    stats,       \* stats.json
    print,       \* stats_fingerprint
    cache,       \* .irradiate/cache
    \* the run in progress
    pc,          \* its phase
    cfg,         \* its options
    todo,        \* the mutants left for the trampoline phase
    patches,     \* the source patches left
    used,        \* the TestStats it schedules by
    loaded,      \* what its pre-spawned workers imported
    keys,        \* covered_work: the cache key of each mutant to execute
    results,     \* the verdicts so far
    disturbed,   \* the project was edited while the run was in progress
    runs         \* runs started so far

project == <<text, tests, edits>>
files == <<made, patched, fmap, stats, print, cache>>
run == <<cfg, todo, patches, used, loaded, keys, results, disturbed, runs>>
vars == <<project, files, pc, run>>

Original == 0    \* the version measured when no mutation was active

----------------------------------------------------------------------------
(* Types *)

Measured == [text : Versions \union {Original}, tests : TestVersions]
Key == [f : Funcs, text : Versions, ids : SUBSET Tests, tests : TestVersions]

\* One entry of the cache; disturbed records that its run was edited under.
Entry == [key : Key, st : Verdict, of : Measured, disturbed : BOOLEAN]

\* stats_fingerprint: the versions its hash tells apart.
Prints == [text : [Hashed -> Versions],
           tests : IF TestsHashed THEN TestVersions ELSE {None}]

\* stats.json: good unless exit_status or fail_validated say otherwise, scope the
\* map it was collected with.  stamped, disturbed and borrowed are history: its
\* fingerprint was saved, the project was edited before that, a collection that
\* never wrote the file was content with it.
Stats == [of : Seen, scope : SUBSET Funcs, good : BOOLEAN,
          stamped : BOOLEAN, disturbed : BOOLEAN, borrowed : BOOLEAN]

\* of is None where nothing was measured; disturbed comes with a cached entry.
Result == [f : Funcs, st : Verdict \union {"no_tests", "type_check"},
           of : Measured \union {None}, disturbed : BOOLEAN,
           via : {"unrun", "cache", "run", "patch", "patch_cache", "type_check"}]

Phases == {"idle", "type_check", "stats", "stamp", "inspect", "schedule", "execute",
           "verify", "patches", "patch_in_place", "results"}

TypeOK ==
    /\ text \in [Funcs -> Versions]
    /\ tests \in TestVersions
    /\ edits \in 0 .. MaxEdits
    /\ made \in [Funcs -> Versions]
    /\ patched \in Decorated \union {None}
    /\ fmap \subseteq Plain
    /\ stats \in Stats \union {None}
    /\ print \in Prints \union {None}
    /\ cache \subseteq Entry
    /\ pc \in Phases
    /\ cfg \in Settings \union {{}}
    /\ todo \subseteq Funcs
    /\ patches \subseteq Decorated
    /\ used \in Stats \union {None}
    /\ loaded \in Seen \union {None}
    /\ DOMAIN keys \subseteq Funcs /\ \A f \in DOMAIN keys : keys[f] \in Key
    /\ results \subseteq Result
    /\ disturbed \in BOOLEAN
    /\ runs \in 0 .. MaxRuns
----------------------------------------------------------------------------
(* The project as it stands *)

Now == [text |-> text, tests |-> tests]

\* A mutant: the fingerprint leaves the tests out.
FingerprintOfSources(seen) == [text |-> [f \in Hashed |-> seen.text[f]], tests |-> None]

\* compute_stats_fingerprint hashes the .py files in the source and test directories;
\* collect_py_files lists nothing for a path that is a file.
FingerprintOf(seen) == [text |-> [f \in Hashed |-> seen.text[f]],
                        tests |-> IF TestsHashed THEN seen.tests ELSE None]

\* What a verdict on f measures when seen holds and the text v of f runs.
MeasuredOn(v, seen) == [text |-> v, tests |-> seen.tests]

\* The functions a run mutates; --diff keeps those changed since the first version.
Touched(options) == {f \in Funcs : "diff" \in options => text[f] # 1}

----------------------------------------------------------------------------
(* Edits and the beginning and end of a run *)

Init ==
    /\ text = [f \in Funcs |-> 1]
    /\ tests = 1
    /\ edits = 0
    /\ made = [f \in Funcs |-> 1]
    /\ patched = None
    /\ fmap = {}
    /\ stats = None
    /\ print = None
    /\ cache = {}
    /\ pc = "idle"
    /\ cfg = {}
    /\ todo = {}
    /\ patches = {}
    /\ used = None
    /\ loaded = None
    /\ keys = <<>>
    /\ results = {}
    /\ disturbed = FALSE
    /\ runs = 0

\* Somebody edits or reverts a function or the tests.
Edit ==
    /\ edits < MaxEdits
    /\ edits' = edits + 1
    /\ \/ \E f \in Edited : \E v \in Versions \ {text[f]} :
            text' = [text EXCEPT ![f] = v] /\ UNCHANGED tests
       \/ \E v \in TestVersions \ {tests} : tests' = v /\ UNCHANGED text
    /\ disturbed' = (pc # "idle")
    /\ stats' = IF pc = "stamp" /\ stats # None THEN [stats EXCEPT !.disturbed = TRUE]
                ELSE stats
    /\ UNCHANGED <<made, patched, fmap, print, cache, pc, cfg, todo, patches, used,
                   loaded, keys, results, runs>>

\* The process ends; what it held in memory is gone.
RunOver ==
    /\ pc' = "idle"
    /\ cfg' = {}
    /\ todo' = {}
    /\ patches' = {}
    /\ used' = None
    /\ loaded' = None
    /\ keys' = <<>>
    /\ results' = {}
    /\ disturbed' = FALSE
    /\ UNCHANGED <<project, runs>>

\* run is killed; the plugin may have been halfway through stats.json, which
\* then does not parse and is as good as none.
Crash ==
    /\ pc # "idle"
    /\ RunOver
    /\ stats' \in IF pc = "stats" THEN {stats, None} ELSE {stats}
    /\ UNCHANGED <<made, patched, fmap, print, cache>>

\* Every file under mutants/ is rewritten, the function map only if a function has
\* a trampoline.  The mutants to test start as descriptors_by_name, source patches
\* included; the mutant filter and the sample narrow that list only, the operator
\* filter both.  A run left without mutants ends here.
Generate ==
    /\ pc = "idle" /\ runs < MaxRuns
    /\ runs' = runs + 1
    /\ made' = text
    /\ patched' = None
    /\ \E options \in Settings :
       LET plain == Touched(options) \intersect Plain
           sp == IF "no_source_patch" \in options THEN {}
                 ELSE Touched(options) \intersect Decorated
           all == plain \union sp
       IN /\ fmap' = IF plain = {} THEN fmap ELSE plain
          /\ \E named \in IF "filter" \in options THEN SUBSET all ELSE {all},
                kept \in IF "operators" \in options THEN SUBSET all ELSE {all} :
             IF named = {} \/ (named \union sp) \intersect kept = {}
             THEN pc' = "idle" /\ UNCHANGED <<cfg, todo, patches>>
             ELSE /\ pc' = "type_check"
                  /\ cfg' = options
                  /\ todo' = named \intersect kept
                  /\ patches' = sp \intersect kept
    /\ UNCHANGED <<project, stats, print, cache, used, loaded, keys, results, disturbed>>

\* A mutant: what the type checker settled is tested all the same.
TypeCheckOnly ==
    /\ pc = "type_check"
    /\ pc' = "stats"
    /\ \E caught \in IF "type_check" \in cfg THEN SUBSET (todo \intersect Plain) ELSE {{}} :
          results' = {[f |-> f, st |-> "type_check", of |-> None,
                       disturbed |-> FALSE, via |-> "type_check"] : f \in caught}
    /\ UNCHANGED <<project, files, cfg, todo, patches, used, loaded, keys, disturbed, runs>>

\* phase_type_check: mutants of trampolined files that do not type-check are
\* settled; without a checker, or when it fails, nothing happens.
TypeCheck ==
    /\ pc = "type_check"
    /\ pc' = "stats"
    /\ \E caught \in IF "type_check" \in cfg THEN SUBSET (todo \intersect Plain) ELSE {{}} :
          /\ todo' = todo \ caught
          /\ results' = {[f |-> f, st |-> "type_check", of |-> None,
                          disturbed |-> FALSE, via |-> "type_check"] : f \in caught}
    /\ UNCHANGED <<project, files, cfg, patches, used, loaded, keys, disturbed, runs>>

----------------------------------------------------------------------------
(* Phase 2: statistics *)

\* Workers that boot while the statistics are collected import the tests now.
PreSpawned == IF {"isolate", "no_stats"} \intersect cfg = {} THEN Now ELSE None

\* A mutant: statistics are replayed whatever has changed.
AnyStats == stats # None

\* load_cached_stats
Replayable == stats # None /\ print = FingerprintOf(Now)

ValidateOnly ==
    /\ pc = "stats" /\ "no_stats" \in cfg
    /\ pc' = "schedule"
    /\ UNCHANGED <<project, files, run>>

ReplayStats ==
    /\ pc = "stats" /\ "no_stats" \notin cfg /\ Replayable
    /\ used' = stats
    /\ loaded' = PreSpawned
    /\ pc' = "inspect"
    /\ UNCHANGED <<project, files, cfg, todo, patches, keys, results, disturbed, runs>>

\* The plugin writes stats.json when pytest's session finishes, whatever its exit code.
CollectStats ==
    /\ pc = "stats" /\ "no_stats" \notin cfg /\ ~Replayable
    /\ \E good \in BOOLEAN :
          stats' = [of |-> Now, scope |-> fmap, good |-> good,
                    stamped |-> FALSE, disturbed |-> FALSE, borrowed |-> FALSE]
    /\ used' = stats'
    /\ loaded' = PreSpawned
    /\ pc' = "stamp"
    /\ UNCHANGED <<project, made, patched, fmap, print, cache, cfg, todo, patches, keys,
                   results, disturbed, runs>>

\* TestStats::default, in place of a stats.json that is not there.
NoStats == [of |-> Now, scope |-> {}, good |-> TRUE,
            stamped |-> FALSE, disturbed |-> FALSE, borrowed |-> TRUE]

\* pytest ends without writing: an older stats.json is loaded in its place.
CollectNothing ==
    /\ pc = "stats" /\ "no_stats" \notin cfg /\ ~Replayable
    /\ stats' = IF stats = None THEN None ELSE [stats EXCEPT !.borrowed = TRUE]
    /\ used' = IF stats = None THEN NoStats ELSE stats'
    /\ loaded' = PreSpawned
    /\ pc' = "stamp"
    /\ UNCHANGED <<project, made, patched, fmap, print, cache, cfg, todo, patches, keys,
                   results, disturbed, runs>>

\* A mutant: the fingerprint is saved though the collection failed.
StatsFailStamped ==
    /\ pc \in {"stats", "stamp"}
    /\ RunOver
    /\ print' = FingerprintOf(Now)
    /\ UNCHANGED <<made, patched, fmap, stats, cache>>

\* The clean run, the forced-fail run or the collection fails or times out; the
\* collection may have written its file.
StatsFail ==
    /\ pc \in {"stats", "stamp"}
    /\ RunOver
    /\ UNCHANGED files

\* save_stats_fingerprint hashes the project as it is after the collection.
Stamp ==
    /\ pc = "stamp"
    /\ print' = FingerprintOf(Now)
    /\ stats' = IF stats = None THEN None ELSE [stats EXCEPT !.stamped = TRUE]
    /\ used' = IF stats = None THEN used ELSE stats'
    /\ pc' = "inspect"
    /\ UNCHANGED <<project, made, patched, fmap, cache, cfg, todo, patches, loaded, keys,
                   results, disturbed, runs>>

\* The tests tests_by_function lists for a function: nothing was recorded for a
\* function outside the map.
Recorded(s, f) == IF f \in s.scope THEN Reach[s.of][f] ELSE {}

\* phase_stats refuses statistics of a failed session, or that name no function
\* while there are mutants.
Inspect ==
    /\ pc = "inspect"
    /\ IF used.good /\ (todo # {} => \E f \in Funcs : Recorded(used, f) # {})
       THEN pc' = "schedule" /\ UNCHANGED <<project, run>>
       ELSE RunOver
    /\ UNCHANGED files
----------------------------------------------------------------------------
(* Phases 3 and 4: schedule, execute, verify *)

\* A patch's name is no function key, so statistics have no tests for it.
\* Without statistics every test is run; discovery may come back empty.
TestIds(f, discovered) ==
    IF used = None THEN discovered
    ELSE IF f \in Plain THEN Recorded(used, f) ELSE {}

\* Mutants: the key forgets the text of the function, or the files of its tests.
KeyOfTests(f, ids) == [f |-> f, text |-> 1, ids |-> ids,
                       tests |-> IF ids = {} THEN 1 ELSE tests]
KeyOfText(f, ids) == [f |-> f, text |-> made[f], ids |-> ids, tests |-> 1]

\* build_cache_key: the function's text and mutation, the test ids and the files
\* they are in, which for no ids is no file at all.
KeyOf(f, ids) == [f |-> f, text |-> made[f], ids |-> ids,
                  tests |-> IF ids = {} THEN 1 ELSE tests]

\* A mutant: entries are looked up by the name of the function.
CachedByName(key) == {e \in cache : "no_cache" \notin cfg /\ e.key.f = key.f}

Cached(key) == {e \in cache : "no_cache" \notin cfg /\ e.key = key}

Replayed(f, e, how) == [f |-> f, st |-> e.st, of |-> e.of,
                        disturbed |-> e.disturbed, via |-> how]

\* store_entry leaves an entry alone that is there already.
Stored(entries) ==
    IF "no_cache" \in cfg THEN cache
    ELSE cache \union {e \in entries : \A old \in cache : old.key # e.key}

\* The mutants phase_execute has no tests for.
Uncovered(discovered) == {f \in todo : TestIds(f, discovered) = {}}

\* Those whose verdict it takes from the cache.
Hits(discovered) ==
    {f \in todo \ Uncovered(discovered) : Cached(KeyOf(f, TestIds(f, discovered))) # {}}

Untested(f) == [f |-> f, st |-> "no_tests", of |-> None, disturbed |-> FALSE, via |-> "unrun"]

\* phase_execute up to the execution; --covered-only drops what has no tests.
Schedule ==
    /\ pc = "schedule"
    /\ \E discovered \in IF used = None THEN {Tests, {}} ELSE {{}} :
       LET dropped == IF used # None /\ "covered_only" \in cfg THEN todo ELSE {}
       IN /\ keys' = [f \in todo \ (Uncovered(discovered) \union Hits(discovered)) |->
                         KeyOf(f, TestIds(f, discovered))]
          /\ results' = results
               \union {Untested(f) : f \in Uncovered(discovered) \ dropped}
               \union UNION {{Replayed(f, e, "cache")
                               : e \in Cached(KeyOf(f, TestIds(f, discovered)))}
                             : f \in Hits(discovered)}
    /\ pc' = "execute"
    /\ UNCHANGED <<project, files, cfg, todo, patches, used, loaded, disturbed, runs>>

\* What a run of f's tests measures in the trampoline phase: the name of a patch is
\* no variant of any trampoline, so its tests run the original.
PoolMeasures(f) ==
    MeasuredOn(IF f \in Plain THEN made[f] ELSE Original,
               IF loaded = None THEN Now ELSE loaded)

\* Every scheduled mutant is executed, then every verdict stored.  Without a
\* mutation the tests do not fail.
Execute ==
    /\ pc = "execute"
    /\ \E st \in [DOMAIN keys -> Verdict] :
          /\ \A f \in DOMAIN keys : PoolMeasures(f).text = Original => st[f] # "killed"
          /\ cache' = Stored({[key |-> keys[f], st |-> st[f], of |-> PoolMeasures(f),
                               disturbed |-> disturbed] : f \in DOMAIN keys})
          /\ results' = results \union
               {[f |-> f, st |-> st[f], of |-> PoolMeasures(f), disturbed |-> FALSE,
                 via |-> "run"] : f \in DOMAIN keys}
    /\ pc' = "verify"
    /\ UNCHANGED <<project, made, patched, fmap, stats, print, cfg, todo, patches, used,
                   loaded, keys, disturbed, runs>>

\* The pool or an isolated run fails: the run ends with its verdicts unstored.
ExecuteFails ==
    /\ pc \in {"execute", "verify"}
    /\ RunOver
    /\ UNCHANGED files

\* A mutant: everything the run executed is tested again.
Executed == {r \in results : r.f \in DOMAIN keys}

Survivors == {r \in results : r.st = "survived" /\ r.f \in DOMAIN keys}

Corrected(r) == [r EXCEPT !.st = "killed", !.of = MeasuredOn(made[r.f], Now)]

CorrectedEntry(r) == [key |-> keys[r.f], st |-> "killed",
                      of |-> MeasuredOn(made[r.f], Now), disturbed |-> disturbed]

\* A mutant: a correction is stored the way a first verdict is.
StoredAgain(flipped) == Stored({CorrectedEntry(r) : r \in flipped})

\* force_update_entry puts the correction in the place of the entry.
Amended(flipped) ==
    IF "no_cache" \in cfg THEN cache
    ELSE {e \in cache : \A r \in flipped : e.key # keys[r.f]}
           \union {CorrectedEntry(r) : r \in flipped}

\* phase_verify_survivors tests again, in isolation, what survived in this run; a
\* kill replaces the verdict and the cached entry.
Verify ==
    /\ pc = "verify"
    /\ pc' = "patches"
    /\ \E flipped \in IF "verify" \in cfg /\ "isolate" \notin cfg
                     THEN SUBSET {r \in Survivors : r.f \in Plain} ELSE {{}} :
          /\ results' = (results \ flipped) \union {Corrected(r) : r \in flipped}
          /\ cache' = Amended(flipped)
    /\ UNCHANGED <<project, made, patched, fmap, stats, print, cfg, todo, patches, used,
                   loaded, keys, disturbed, runs>>

----------------------------------------------------------------------------
(* Phase 5: source patches *)

\* A patch that no run is needed for: its function has no tests, or a verdict is cached.
SettlePatch(f) ==
    /\ pc = "patches" /\ f \in patches
    /\ patches' = patches \ {f}
    /\ IF used # None /\ "covered_only" \in cfg
       THEN results' = results \union
              {[f |-> f, st |-> "no_tests", of |-> None, disturbed |-> FALSE,
                via |-> "patch"]}
       ELSE \E e \in Cached(KeyOf(f, {})) :
              results' = results \union {Replayed(f, e, "patch_cache")}
    /\ UNCHANGED <<project, files, pc, cfg, todo, used, loaded, keys, disturbed, runs>>

\* Back the file up and write the patched original over it.
PutPatch(f) ==
    /\ pc = "patches" /\ f \in patches
    /\ used = None \/ "covered_only" \notin cfg
    /\ Cached(KeyOf(f, {})) = {}
    /\ patched' = f
    /\ pc' = "patch_in_place"
    /\ UNCHANGED <<project, made, fmap, stats, print, cache, run>>

\* The tests of the whole directory are run on the patch, the file is restored and
\* the verdict stored.
RunPatch(f) ==
    /\ pc = "patch_in_place" /\ patched = f
    /\ patched' = None
    /\ patches' = patches \ {f}
    /\ pc' = "patches"
    /\ \E st \in Verdict :
          /\ cache' = Stored({[key |-> KeyOf(f, {}), st |-> st,
                               of |-> MeasuredOn(text[f], Now), disturbed |-> disturbed]})
          /\ results' = results \union
               {[f |-> f, st |-> st, of |-> MeasuredOn(text[f], Now),
                 disturbed |-> FALSE, via |-> "patch"]}
    /\ UNCHANGED <<project, made, fmap, stats, print, cfg, todo, used, loaded, keys,
                   disturbed, runs>>

\* A mutant: the patches go on after one that failed.
PatchFailsQuietly ==
    /\ pc = "patch_in_place"
    /\ pc' = "patches"
    /\ patches' = patches \ {patched}
    /\ UNCHANGED <<project, files, cfg, todo, used, loaded, keys, results, disturbed, runs>>

\* The subprocess cannot be started or awaited: a failed start leaves the patch in place.
PatchFails ==
    /\ pc = "patch_in_place"
    /\ RunOver
    /\ patched' \in {patched, None}
    /\ UNCHANGED <<made, fmap, stats, print, cache>>

PatchesDone ==
    /\ pc = "patches" /\ patches = {}
    /\ pc' = "results"
    /\ UNCHANGED <<project, files, run>>

\* phase_results reports what there is; the run is over.
Finish ==
    /\ pc = "results"
    /\ RunOver
    /\ UNCHANGED files

----------------------------------------------------------------------------

Statistics == ValidateOnly \/ ReplayStats \/ CollectStats \/ CollectNothing \/ StatsFail
              \/ Stamp \/ Inspect

Patching == \/ \E f \in Decorated : SettlePatch(f) \/ PutPatch(f) \/ RunPatch(f)
            \/ PatchFails \/ PatchesDone

Progress == TypeCheck \/ Statistics \/ Schedule \/ Execute \/ ExecuteFails \/ Verify
            \/ Patching \/ Finish

\* Between runs nothing need happen; when the bounds are used up nothing can.
Rest == pc = "idle" /\ runs = MaxRuns /\ UNCHANGED vars

Next == Edit \/ Generate \/ Progress \/ Crash \/ Rest

Spec == Init /\ [][Next]_vars

----------------------------------------------------------------------------
(* Properties *)

\* A cached verdict on a plain mutant was measured on the text and the tests its key
\* stands for (build_cache_key before the run, store_entry after it), unless the
\* project was edited in between.
EntriesMeasureTheirKeys ==
    \A e \in cache : e.key.f \in Plain /\ ~e.disturbed =>
        e.of.text = e.key.text /\ e.of.tests = e.key.tests

\* The report of a run under which nobody edited the project.
Reported == IF pc = "results" /\ ~disturbed THEN {r \in results : ~r.disturbed} ELSE {}

\* Whatever was replayed, run or corrected, and whatever earlier runs crashed over:
\* the report's verdict on a plain mutant was measured on the project's present
\* text and tests, unless the project was edited under the run that measured it.
VerdictsAreCurrent ==
    \A r \in Reported : r.f \in Plain /\ r.of # None =>
        r.of.text = text[r.f] /\ r.of.tests = tests

\* A verdict of the patch phase, cached or not, was measured with the patch in place on
\* the present text: never on the original, never on another version.
PatchesAreMeasured ==
    \A r \in Reported : r.via \in {"patch", "patch_cache"} /\ r.of # None =>
        r.of.text = text[r.f]

\* The split of phase_execute into untested, cached and executed mutants, and the type
\* checker's before it, lose and repeat nothing: every plain mutant has one verdict,
\* or none because --covered-only dropped it.
EveryMutantOnce ==
    pc = "results" =>
        \A f \in todo \intersect Plain :
            LET of == {r \in results : r.f = f}
            IN \/ Cardinality(of) = 1
               \/ of = {} /\ used # None /\ "covered_only" \in cfg /\ Recorded(used, f) = {}

\* Statistics whose fingerprint was saved for their own, undisturbed collection.
Sound(s) == s.stamped /\ ~s.disturbed /\ ~s.borrowed

\* The fingerprint on disk is the one of the project the statistics on disk were
\* collected on, across crashes between the two files and collections that fail.
FingerprintMatchesStats ==
    stats # None /\ Sound(stats) => print = FingerprintOf(stats.of)

\* What is given as a single file, which the fingerprint leaves out, is as it was when
\* the statistics were collected.
SingleFilesUnchanged(s) ==
    /\ \A f \in Funcs \ Hashed : s.of.text[f] = text[f]
    /\ ~TestsHashed => s.of.tests = tests

\* "No tests" is said of a plain function only if no test of the present project calls
\* it, whichever edits of the text and of the tests came in between, as long as the
\* statistics are sound and watched the function.  The comment of
\* compute_stats_fingerprint (stats.rs:83) claims as much for single files, of which
\* collect_py_files reads none: SingleFilesUnchanged excepts them.
UntestedIsUnreached ==
    used # None /\ Sound(used) /\ SingleFilesUnchanged(used) =>
        \A r \in Reported : r.st = "no_tests" /\ r.f \in Plain \intersect used.scope =>
            Reach[Now][r.f] = {}

\* No patch is left in mutants/ while other mutants are generated, executed or patched,
\* also after a run that died with one in place.
OnePatchAtATime == pc \notin {"idle", "patch_in_place"} => patched = None

\* The cache ends up with the verdict the report gives, corrections included.
CacheAgreesWithReport ==
    pc = "results" /\ "no_cache" \notin cfg =>
        \A r \in results : r.via = "run" =>
            \E e \in cache : e.key = keys[r.f] /\ e.st = r.st /\ e.of = r.of

\* INV-2 and INV-5 of apply_verification_corrections: verification turns survivors
\* into kills and touches nothing else.
CorrectionsOnlyKill ==
    [][pc = "verify" /\ pc' = "patches" =>
        /\ \A r \in results : r.st # "survived" => r \in results'
        /\ \A r \in results' \ results :
              r.st = "killed" /\ \E old \in results \ results' :
                                     old.f = r.f /\ old.st = "survived"]_vars

\* What src/docs/internals/architecture.md says of every verdict: when the test code
\* changes, the old result is never looked up.
PatchVerdictsFollowTests ==
    \A r \in Reported : r.via \in {"patch", "patch_cache"} /\ r.of # None =>
        r.of.tests = tests
=============================================================================
