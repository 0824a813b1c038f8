------------------------- MODULE MutationRun_proofs -------------------------
(***************************************************************************)
(* What a report and the files between runs can be relied on for, for any  *)
(* project, options, number of edits and number of runs.                   *)
(*                                                                         *)
(* A verdict passes through a run's memory (what its workers imported, the *)
(* cache keys it computed), the cache and the report, while the project    *)
(* may be edited at every step.  RunInv says of each of these what it is   *)
(* of, and its parts need each other: an entry measures its key because    *)
(* the key in memory is of the project (InMemory), a replayed verdict is   *)
(* current because its entry measures its key (Entries), a correction hits *)
(* the right entry because no two results of a run share a key (Agreed).   *)
(***************************************************************************)
EXTENDS MutationRun, FiniteSetTheorems, TLAPS

USE FuncsAssumption DEF Funcs

----------------------------------------------------------------------------
(* Types *)

LEMMA FirstTests == 1 \in TestVersions
  BY VersionsAssumption

LEMMA ReachTyped ==
  ASSUME NEW s \in Seen, NEW f \in Funcs
  PROVE  Reach[s][f] \in SUBSET Tests
  BY ReachAssumption

\* What a run reads and computes has the types of the state it is put into.
LEMMA NowTyped == TypeOK => Now \in Seen
  BY DEF TypeOK, Now, Seen

LEMMA PrintTyped == ASSUME NEW s \in Seen PROVE FingerprintOf(s) \in Prints
  <1>1. s.text \in [Funcs -> Versions] /\ s.tests \in TestVersions
    BY DEF Seen
  <1>2. [f \in Hashed |-> s.text[f]] \in [Hashed -> Versions]
    BY <1>1
  <1> QED BY <1>1, <1>2 DEF FingerprintOf, Prints

LEMMA TestIdsTyped ==
  ASSUME TypeOK, NEW f \in Funcs, NEW discovered \in SUBSET Tests
  PROVE  TestIds(f, discovered) \in SUBSET Tests
  <1>1. CASE used = None
    BY <1>1 DEF TestIds
  <1>2. CASE used # None
    <2>1. used.of \in Seen
      BY <1>2 DEF TypeOK, Stats
    <2> QED BY <1>2, <2>1, ReachTyped DEF TestIds, Recorded
  <1> QED BY <1>1, <1>2

LEMMA KeyTyped ==
  ASSUME TypeOK, NEW f \in Funcs, NEW ids \in SUBSET Tests
  PROVE  KeyOf(f, ids) \in Key
  BY FirstTests DEF TypeOK, KeyOf, Key

LEMMA MeasuredTyped ==
  ASSUME TypeOK, NEW f \in Funcs
  PROVE  /\ PoolMeasures(f) \in Measured
         /\ MeasuredOn(made[f], Now) \in Measured
         /\ MeasuredOn(text[f], Now) \in Measured
  BY NowTyped DEF TypeOK, PoolMeasures, MeasuredOn, Measured, Seen

LEMMA NoKeys == keys = <<>> => DOMAIN keys = {}
  OBVIOUS

LEMMA InitTyped == Init => TypeOK
  <1> SUFFICES ASSUME Init PROVE TypeOK
    OBVIOUS
  <1>1. 0 \in 0 .. MaxEdits /\ 0 \in 0 .. MaxRuns
    BY BoundsAssumption
  <1>2. [f \in Funcs |-> 1] \in [Funcs -> Versions]
    BY VersionsAssumption
  <1> QED BY <1>1, <1>2, FirstTests, NoKeys DEF Init, TypeOK, Phases

LEMMA RunOverTyped ==
  ASSUME TypeOK, RunOver, made' = made, fmap' = fmap,
         patched' \in Decorated \union {None},
         stats' \in Stats \union {None}, print' \in Prints \union {None}, cache' = cache
  PROVE  TypeOK'
  <1>1. DOMAIN keys' = {}
    BY DEF RunOver
  <1> QED BY <1>1 DEF TypeOK, RunOver, project, Phases

LEMMA StepTyped == TypeOK /\ [Next]_vars => TypeOK'
  <1> SUFFICES ASSUME TypeOK, [Next]_vars PROVE TypeOK'
    OBVIOUS
  <1>1. CASE Edit
    <2>1. text' \in [Funcs -> Versions] /\ tests' \in TestVersions
      BY <1>1 DEF Edit, TypeOK
    <2>2. edits' \in 0 .. MaxEdits
      BY <1>1, BoundsAssumption DEF Edit, TypeOK
    <2>3. stats' \in Stats \union {None}
      BY <1>1 DEF Edit, TypeOK, Stats
    <2> QED BY <1>1, <2>1, <2>2, <2>3 DEF Edit, TypeOK
  <1>2. CASE Generate
    <2>1. runs' \in 0 .. MaxRuns
      BY <1>2, BoundsAssumption DEF Generate, TypeOK
    <2>2. fmap' \subseteq Plain /\ pc' \in Phases /\ cfg' \in Settings \union {{}}
          /\ todo' \subseteq Funcs /\ patches' \subseteq Decorated
      <3>1. PICK options \in Settings :
               LET plain == Touched(options) \intersect Plain
                   sp == IF "no_source_patch" \in options THEN {}
                         ELSE Touched(options) \intersect Decorated
                   all == plain \union sp
               IN /\ fmap' = IF plain = {} THEN fmap ELSE plain
                  /\ \E named \in SUBSET all, kept \in SUBSET all :
                       \/ pc' = "idle" /\ UNCHANGED <<cfg, todo, patches>>
                       \/ /\ pc' = "type_check"
                          /\ cfg' = options
                          /\ todo' = named \intersect kept
                          /\ patches' = sp \intersect kept
        BY <1>2 DEF Generate
      <3> QED BY <3>1 DEF TypeOK, Phases
    <2> QED BY <1>2, <2>1, <2>2 DEF Generate, TypeOK, project
  <1>3. CASE TypeCheck
    <2>1. PICK caught \in SUBSET (todo \intersect Plain) :
            /\ todo' = todo \ caught
            /\ results' = {[f |-> f, st |-> "type_check", of |-> None,
                            disturbed |-> FALSE, via |-> "type_check"] : f \in caught}
      BY <1>3 DEF TypeCheck
    <2>2. \A f \in Funcs : [f |-> f, st |-> "type_check", of |-> None,
                            disturbed |-> FALSE, via |-> "type_check"] \in Result
      BY DEF Result
    <2> QED BY <1>3, <2>1, <2>2 DEF TypeCheck, TypeOK, Phases, project, files
  <1>4. CASE ValidateOnly
    BY <1>4 DEF ValidateOnly, TypeOK, Phases, project, files, run
  <1>5. CASE ReplayStats
    BY <1>5, NowTyped DEF ReplayStats, TypeOK, Phases, project, files, PreSpawned
  <1>6. CASE CollectStats
    BY <1>6, NowTyped DEF CollectStats, TypeOK, Phases, project, PreSpawned, Stats
  <1>7. CASE CollectNothing
    BY <1>7, NowTyped DEF CollectNothing, NoStats, TypeOK, Phases, project, PreSpawned, Stats
  <1>8. CASE StatsFail \/ ExecuteFails \/ Finish
    BY <1>8, RunOverTyped DEF StatsFail, ExecuteFails, Finish, files, TypeOK
  <1>9. CASE Stamp
    BY <1>9, NowTyped, PrintTyped DEF Stamp, TypeOK, Phases, project, Stats
  <1>10. CASE Inspect
    <2>1. CASE RunOver
      BY <1>10, <2>1, RunOverTyped DEF Inspect, files, TypeOK
    <2>2. CASE ~RunOver
      BY <1>10, <2>2 DEF Inspect, files, project, run, TypeOK, Phases
    <2> QED BY <2>1, <2>2
  <1>11. CASE Schedule
    <2>1. PICK discovered \in {Tests, {}} :
            /\ keys' = [f \in todo \ (Uncovered(discovered) \union Hits(discovered)) |->
                         KeyOf(f, TestIds(f, discovered))]
            /\ results' \subseteq results
                 \union {Untested(f) : f \in Uncovered(discovered)}
                 \union UNION {{Replayed(f, e, "cache")
                                 : e \in Cached(KeyOf(f, TestIds(f, discovered)))}
                               : f \in Hits(discovered)}
      BY <1>11 DEF Schedule
    <2>2. todo \subseteq Funcs
      BY DEF TypeOK
    <2>3. \A f \in todo : KeyOf(f, TestIds(f, discovered)) \in Key
      BY <2>2, KeyTyped, TestIdsTyped
    <2>4. DOMAIN keys' \subseteq Funcs /\ \A f \in DOMAIN keys' : keys'[f] \in Key
      BY <2>1, <2>2, <2>3
    <2>5. \A f \in Funcs, e \in cache : Replayed(f, e, "cache") \in Result
      BY DEF TypeOK, Entry, Replayed, Result
    <2>6. \A f \in Funcs : Untested(f) \in Result
      BY DEF Result, Untested
    <2>7. results' \subseteq Result
      BY <2>1, <2>2, <2>5, <2>6 DEF TypeOK, Cached, Uncovered, Hits
    <2> QED BY <1>11, <2>4, <2>7 DEF Schedule, TypeOK, Phases, project, files
  <1>12. CASE Execute
    <2>1. PICK st \in [DOMAIN keys -> Verdict] :
            /\ cache' = Stored({[key |-> keys[f], st |-> st[f], of |-> PoolMeasures(f),
                                 disturbed |-> disturbed] : f \in DOMAIN keys})
            /\ results' = results \union
                 {[f |-> f, st |-> st[f], of |-> PoolMeasures(f), disturbed |-> FALSE,
                   via |-> "run"] : f \in DOMAIN keys}
      BY <1>12 DEF Execute
    <2>2. \A f \in DOMAIN keys :
            /\ [key |-> keys[f], st |-> st[f], of |-> PoolMeasures(f),
                disturbed |-> disturbed] \in Entry
            /\ [f |-> f, st |-> st[f], of |-> PoolMeasures(f), disturbed |-> FALSE,
                via |-> "run"] \in Result
      BY MeasuredTyped DEF TypeOK, Entry, Result
    <2>3. cache' \subseteq Entry /\ results' \subseteq Result
      BY <2>1, <2>2 DEF Stored, TypeOK
    <2> QED BY <1>12, <2>3 DEF Execute, TypeOK, Phases, project
  <1>13. CASE Verify
    <2>1. PICK flipped \in SUBSET Survivors :
            /\ results' = (results \ flipped) \union {Corrected(r) : r \in flipped}
            /\ cache' = Amended(flipped)
      BY <1>13 DEF Verify
    <2>2. ASSUME NEW r \in flipped PROVE Corrected(r) \in Result /\ CorrectedEntry(r) \in Entry
      <3>1. r \in Result /\ r.f \in DOMAIN keys
        BY DEF Survivors, TypeOK
      <3>2. MeasuredOn(made[r.f], Now) \in Measured
        BY <3>1, MeasuredTyped DEF Result
      <3> QED BY <3>1, <3>2, VerdictAssumption
              DEF TypeOK, Corrected, CorrectedEntry, Result, Entry
    <2>3. cache' \subseteq Entry /\ results' \subseteq Result
      BY <2>1, <2>2 DEF Amended, TypeOK
    <2> QED BY <1>13, <2>3 DEF Verify, TypeOK, Phases, project
  <1>14. ASSUME NEW f \in Decorated, SettlePatch(f) PROVE TypeOK'
    <2>1. \A e \in cache : Replayed(f, e, "patch_cache") \in Result
      BY DEF TypeOK, Entry, Replayed, Result
    <2>2. [f |-> f, st |-> "no_tests", of |-> None, disturbed |-> FALSE,
           via |-> "patch"] \in Result
      BY DEF Result
    <2>3. PICK r \in Result : results' = results \union {r}
      BY <1>14, <2>1, <2>2 DEF SettlePatch, Cached
    <2> QED BY <1>14, <2>3 DEF SettlePatch, TypeOK, project, files
  <1>15. ASSUME NEW f \in Decorated, PutPatch(f) PROVE TypeOK'
    BY <1>15 DEF PutPatch, TypeOK, Phases, project, run
  <1>16. ASSUME NEW f \in Decorated, RunPatch(f) PROVE TypeOK'
    <2>1. PICK st \in Verdict :
            /\ cache' = Stored({[key |-> KeyOf(f, {}), st |-> st,
                                 of |-> MeasuredOn(text[f], Now), disturbed |-> disturbed]})
            /\ results' = results \union
                 {[f |-> f, st |-> st, of |-> MeasuredOn(text[f], Now),
                   disturbed |-> FALSE, via |-> "patch"]}
      BY <1>16 DEF RunPatch
    <2>2. KeyOf(f, {}) \in Key
      BY KeyTyped
    <2>3. MeasuredOn(text[f], Now) \in Measured
      BY MeasuredTyped
    <2>4. [key |-> KeyOf(f, {}), st |-> st, of |-> MeasuredOn(text[f], Now),
           disturbed |-> disturbed] \in Entry
      BY <2>2, <2>3 DEF Entry, TypeOK
    <2>5. [f |-> f, st |-> st, of |-> MeasuredOn(text[f], Now), disturbed |-> FALSE,
           via |-> "patch"] \in Result
      BY <2>3 DEF Result
    <2>6. cache' \subseteq Entry /\ results' \subseteq Result
      BY <2>1, <2>4, <2>5 DEF Stored, TypeOK
    <2> QED BY <1>16, <2>6 DEF RunPatch, TypeOK, Phases, project
  <1>17. CASE PatchFails
    BY <1>17, RunOverTyped DEF PatchFails, TypeOK
  <1>18. CASE PatchesDone
    BY <1>18 DEF PatchesDone, TypeOK, Phases, project, files, run
  <1>19. CASE Crash
    BY <1>19, RunOverTyped DEF Crash, TypeOK
  <1>20. CASE UNCHANGED vars
    BY <1>20 DEF vars, project, files, run, TypeOK
  <1> QED
    BY <1>1, <1>2, <1>3, <1>4, <1>5, <1>6, <1>7, <1>8, <1>9, <1>10, <1>11, <1>12, <1>13,
       <1>14, <1>15, <1>16, <1>17, <1>18, <1>19, <1>20
       DEF Next, Progress, Statistics, Patching, Rest

\* Every variable of a run and every file it leaves has its type in every state.
THEOREM RunTypeCorrect == Spec => []TypeOK
  BY InitTyped, StepTyped, PTL DEF Spec
----------------------------------------------------------------------------
(* The inductive invariant *)

\* The phases before the cache keys are made, and after their mutants have run.
Before == {"idle", "type_check", "stats", "stamp", "inspect", "schedule"}
After == {"verify", "patches", "patch_in_place", "results"}

\* What a run has in memory is of the project as it stands, unless it was edited.
InMemory ==
  /\ pc = "idle" => ~disturbed /\ used = None /\ loaded = None /\ results = {}
  /\ pc \in Before => DOMAIN keys = {}
  /\ pc # "idle" /\ ~disturbed => made = text /\ (loaded = None \/ loaded = Now)
  /\ \A f \in DOMAIN keys :
       /\ f \in todo /\ keys[f].f = f /\ keys[f].text = made[f] /\ keys[f].ids # {}
       /\ ~disturbed => keys[f].tests = tests

\* Between the collection and the stamp the statistics are of the project, unless it
\* was edited or they are older; those a run goes by have the project's fingerprint.
Gathered ==
  /\ FingerprintMatchesStats
  /\ pc = "stamp" /\ stats # None /\ ~stats.disturbed /\ ~stats.borrowed => stats.of = Now
  /\ used # None /\ Sound(used) /\ ~disturbed =>
       FingerprintOf(used.of) = FingerprintOf(Now)

\* No two entries have one key; one without tests is of a patch of the text in its key.
Entries ==
  /\ EntriesMeasureTheirKeys
  /\ \A e \in cache : e.key.ids = {} /\ ~e.disturbed => e.of.text = e.key.text
  /\ \A e1, e2 \in cache : e1.key = e2.key => e1 = e2

\* What is reported of a mutant was measured on the project as it stands.
Current ==
  ~disturbed =>
    \A r \in results : ~r.disturbed /\ r.of # None =>
      /\ r.f \in Plain => r.of.text = text[r.f] /\ r.of.tests = tests
      /\ r.via \in {"patch", "patch_cache"} => r.of.text = text[r.f]

\* Only the type checker has spoken before the statistics are used.
Unspoken == pc \in Before => \A r \in results : r.st = "type_check" /\ r.f \notin todo
                                               /\ r.via = "type_check"

\* "No tests" is said by the statistics the run goes by.
Unreached ==
  used # None /\ Sound(used) /\ SingleFilesUnchanged(used) /\ ~disturbed =>
    \A r \in results : r.st = "no_tests" /\ r.f \in Plain \intersect used.scope =>
      Reach[Now][r.f] = {}

\* What is executed is not in the cache; then it is, with the verdict of the report.
Agreed ==
  /\ pc = "execute" =>
       /\ \A r \in results : r.via # "run" /\ r.f \notin DOMAIN keys
       /\ "no_cache" \notin cfg => \A f \in DOMAIN keys, e \in cache : e.key # keys[f]
  /\ pc = "verify" =>
       /\ \A r \in results : r.f \in DOMAIN keys => r.via = "run"
       /\ \A r1, r2 \in results : r1.via = "run" /\ r2.via = "run" /\ r1.f = r2.f => r1 = r2
  /\ pc \in After =>
       \A r \in results : r.via = "run" =>
         /\ r.f \in DOMAIN keys
         /\ "no_cache" \notin cfg => \E e \in cache : e.key = keys[r.f] /\ e.st = r.st /\ e.of = r.of

Of(f) == {r \in results : r.f = f}
Dropped(f) == Of(f) = {} /\ used # None /\ "covered_only" \in cfg /\ Recorded(used, f) = {}

\* A mutant is to be executed, has one verdict or was dropped.
Split ==
  /\ pc = "execute" => \A f \in (todo \intersect Plain) \ DOMAIN keys :
                         Dropped(f) \/ \E r : Of(f) = {r}
  /\ pc \in After => \A f \in todo \intersect Plain : Dropped(f) \/ \E r : Of(f) = {r}

RunInv == InMemory /\ Gathered /\ Entries /\ Current /\ Unspoken /\ Unreached /\ Agreed /\ Split

----------------------------------------------------------------------------
(* The kinds of steps *)

\* Statistics are replayed, collected, stamped or accepted.
Gathers ==
  /\ pc \in {"stats", "stamp", "inspect"} /\ pc' \in {"stamp", "inspect", "schedule"}
  /\ UNCHANGED <<project, made, patched, fmap, cache, cfg, todo, patches, keys, results,
                 disturbed, runs>>
  /\ loaded' = loaded \/ loaded' = PreSpawned

\* The run goes on to another patch, or to the end.
Moves ==
  /\ pc = "patches" /\ pc' \in {"patch_in_place", "results"}
  /\ pc' = "results" => patched' = patched
  /\ UNCHANGED <<project, made, fmap, stats, print, cache, run>>

\* The run is over, however it ends.
Ends == /\ RunOver
        /\ UNCHANGED <<made, fmap, print, cache>>
        /\ stats' \in {stats, None}

LEMMA GathersSteps ==
  ValidateOnly \/ ReplayStats \/ CollectStats \/ CollectNothing \/ Stamp
    \/ (Inspect /\ ~RunOver) => Gathers
  BY DEF ValidateOnly, ReplayStats, CollectStats, CollectNothing, Stamp, Inspect, Gathers,
         project, files, run

LEMMA EndsSteps ==
  StatsFail \/ ExecuteFails \/ Finish \/ Crash \/ PatchFails \/ (Inspect /\ RunOver) => Ends
  BY DEF StatsFail, ExecuteFails, Finish, Crash, PatchFails, Inspect, Ends, files

LEMMA StepKinds ==
  ASSUME [Next]_vars
  PROVE  \/ Edit \/ Generate \/ TypeCheck \/ Gathers \/ Schedule \/ Execute \/ Verify
         \/ (\E f \in Decorated : SettlePatch(f) \/ RunPatch(f))
         \/ Moves \/ Ends \/ UNCHANGED vars
  <1>1. ASSUME NEW f \in Decorated, PutPatch(f) PROVE Moves
    BY <1>1 DEF PutPatch, Moves
  <1>2. PatchesDone => Moves
    BY DEF PatchesDone, Moves, files
  <1>3. Statistics => Gathers \/ Ends
    BY GathersSteps, EndsSteps DEF Statistics
  <1>4. Patching => (\E f \in Decorated : SettlePatch(f) \/ RunPatch(f)) \/ Moves \/ Ends
    BY <1>1, <1>2, EndsSteps DEF Patching
  <1>5. ExecuteFails \/ Finish \/ Crash => Ends
    BY EndsSteps
  <1> QED
    BY <1>3, <1>4, <1>5 DEF Next, Progress, Rest

----------------------------------------------------------------------------
(* Memory *)

\* What a run holds in memory stays true to the project until it is edited.
LEMMA InMemoryStep == TypeOK /\ InMemory /\ [Next]_vars => InMemory'
  <1> SUFFICES ASSUME TypeOK, InMemory, [Next]_vars PROVE InMemory'
    OBVIOUS
  <1>1. CASE Edit
    BY <1>1 DEF Edit, InMemory, Before
  <1>2. CASE Generate
    <2>1. pc = "idle" /\ DOMAIN keys = {} /\ ~disturbed /\ loaded = None /\ used = None
          /\ results = {}
      BY <1>2 DEF Generate, InMemory, Before
    <2>2. pc' \in {"idle", "type_check"} /\ made' = text'
          /\ UNCHANGED <<keys, disturbed, loaded, used, results>>
      BY <1>2 DEF Generate, project
    <2> QED BY <2>1, <2>2 DEF InMemory, Before
  <1>3. CASE TypeCheck
    BY <1>3 DEF TypeCheck, InMemory, Before, project, files, Now
  <1>4. CASE Gathers
    BY <1>4 DEF Gathers, InMemory, Before, project, Now, PreSpawned
  <1>5. CASE Schedule
    <2>1. PICK discovered :
            keys' = [f \in todo \ (Uncovered(discovered) \union Hits(discovered)) |->
                      KeyOf(f, TestIds(f, discovered))]
      BY <1>5 DEF Schedule
    <2>2. \A f \in DOMAIN keys' :
            /\ f \in todo /\ keys'[f].f = f /\ keys'[f].text = made[f]
            /\ keys'[f].ids # {} /\ keys'[f].tests = tests
      BY <2>1 DEF Uncovered, KeyOf
    <2>3. pc = "schedule" /\ pc' = "execute"
          /\ UNCHANGED <<text, tests, made, todo, loaded, disturbed>>
      BY <1>5 DEF Schedule, project, files
    <2> QED BY <2>2, <2>3 DEF InMemory, Before, Now
  <1>6. CASE Execute \/ Verify
    BY <1>6 DEF Execute, Verify, InMemory, Before, project, Now
  <1>7. ASSUME NEW f \in Decorated, SettlePatch(f) \/ RunPatch(f) PROVE InMemory'
    BY <1>7 DEF SettlePatch, RunPatch, InMemory, Before, project, files, Now
  <1>8. CASE Moves
    BY <1>8 DEF Moves, InMemory, Before, project, run, Now
  <1>9. CASE Ends
    <2>1. DOMAIN keys' = {}
      BY <1>9 DEF Ends, RunOver
    <2> QED BY <1>9, <2>1 DEF Ends, RunOver, InMemory
  <1>10. CASE UNCHANGED vars
    BY <1>10 DEF vars, project, files, run, InMemory, Before, Now
  <1> QED
    BY <1>1, <1>2, <1>3, <1>4, <1>5, <1>6, <1>7, <1>8, <1>9, <1>10, StepKinds

----------------------------------------------------------------------------
(* Statistics *)

LEMMA GatheredStep ==
  TypeOK /\ InMemory /\ Gathered /\ [Next]_vars => Gathered'
  <1> SUFFICES ASSUME TypeOK, InMemory, Gathered, [Next]_vars PROVE Gathered'
    OBVIOUS
  <1> USE DEF FingerprintMatchesStats, Sound
  <1>0. ASSUME UNCHANGED <<text, tests>> PROVE FingerprintOf(Now)' = FingerprintOf(Now)
    BY <1>0 DEF FingerprintOf, Now
  <1>1. CASE Edit
    BY <1>1 DEF Edit, Gathered, InMemory, TypeOK, Stats, Now
  <1>2. CASE Generate
    BY <1>2 DEF Generate, Gathered, project, Now
  <1>3. CASE TypeCheck
    BY <1>3 DEF TypeCheck, Gathered, project, files, Now
  <1>4. CASE ValidateOnly
    BY <1>4 DEF ValidateOnly, Gathered, project, files, run, Now
  <1>5. CASE ReplayStats
    BY <1>5 DEF ReplayStats, Replayable, Gathered, project, files, Now
  <1>6. CASE CollectStats
    BY <1>6 DEF CollectStats, Gathered, project, Now
  <1>7. CASE CollectNothing
    BY <1>7 DEF CollectNothing, NoStats, Gathered, project, Now, TypeOK, Stats
  <1>8. CASE Stamp
    BY <1>8 DEF Stamp, Gathered, project, Now, TypeOK, Stats
  <1>9. CASE Inspect /\ ~RunOver
    BY <1>9 DEF Inspect, Gathered, project, files, run, Now
  <1>10. CASE Schedule \/ Execute \/ Verify
    BY <1>10 DEF Schedule, Execute, Verify, Gathered, project, files, Now
  <1>11. ASSUME NEW f \in Decorated, SettlePatch(f) \/ PutPatch(f) \/ RunPatch(f)
         PROVE  Gathered'
    BY <1>11 DEF SettlePatch, PutPatch, RunPatch, Gathered, project, files, run, Now
  <1>12. CASE PatchesDone
    BY <1>12 DEF PatchesDone, Gathered, project, files, run, Now
  <1>13. CASE Ends
    BY <1>13 DEF Ends, RunOver, Gathered
  <1>14. CASE UNCHANGED vars
    BY <1>14 DEF vars, project, files, run, Gathered, Now
  <1>15. Statistics => \/ ValidateOnly \/ ReplayStats \/ CollectStats \/ CollectNothing
                        \/ Stamp \/ (Inspect /\ ~RunOver) \/ Ends
    BY EndsSteps DEF Statistics
  <1>16. /\ ExecuteFails \/ Finish \/ Crash => Ends
         /\ Patching => \/ \E f \in Decorated : SettlePatch(f) \/ PutPatch(f) \/ RunPatch(f)
                        \/ PatchesDone \/ Ends
    BY EndsSteps DEF Patching
  <1> QED
    BY <1>1, <1>2, <1>3, <1>4, <1>5, <1>6, <1>7, <1>8, <1>9, <1>10, <1>11, <1>12, <1>13,
       <1>14, <1>15, <1>16 DEF Next, Progress, Rest

----------------------------------------------------------------------------
(* The cache *)

\* Storing keeps the entries one per key.
LEMMA StoredEntries ==
  ASSUME NEW new, Entries,
         \A e \in new :
           /\ e.key.f \in Plain /\ ~e.disturbed => e.of.text = e.key.text /\ e.of.tests = e.key.tests
           /\ e.key.ids = {} /\ ~e.disturbed => e.of.text = e.key.text,
         \A e1, e2 \in new : e1.key = e2.key => e1 = e2,
         cache' = Stored(new)
  PROVE  Entries'
  BY DEF Entries, EntriesMeasureTheirKeys, Stored

LEMMA EntriesStep ==
  TypeOK /\ InMemory /\ Agreed /\ Entries /\ [Next]_vars => Entries'
  <1> SUFFICES ASSUME TypeOK, InMemory, Agreed, Entries, [Next]_vars PROVE Entries'
    OBVIOUS
  <1>1. ASSUME cache' = cache PROVE Entries'
    BY <1>1 DEF Entries, EntriesMeasureTheirKeys
  <1>2. CASE Execute
    <2>1. PICK st :
            cache' = Stored({[key |-> keys[f], st |-> st[f], of |-> PoolMeasures(f),
                              disturbed |-> disturbed] : f \in DOMAIN keys})
      BY <1>2 DEF Execute
    <2>2. ASSUME NEW f \in DOMAIN keys
          PROVE  /\ keys[f].f = f /\ keys[f].ids # {}
                 /\ f \in Plain /\ ~disturbed => PoolMeasures(f).text = keys[f].text
                                               /\ PoolMeasures(f).tests = keys[f].tests
      BY <1>2 DEF Execute, InMemory, PoolMeasures, MeasuredOn, Now
    <2>3. DEFINE new == {[key |-> keys[f], st |-> st[f], of |-> PoolMeasures(f),
                          disturbed |-> disturbed] : f \in DOMAIN keys}
    <2>4. \A e \in new :
           /\ e.key.f \in Plain /\ ~e.disturbed => e.of.text = e.key.text /\ e.of.tests = e.key.tests
           /\ e.key.ids = {} /\ ~e.disturbed => e.of.text = e.key.text
      BY <2>2
    <2>5. \A e1, e2 \in new : e1.key = e2.key => e1 = e2
      BY <2>2
    <2> HIDE DEF new
    <2> QED BY <2>1, <2>4, <2>5, StoredEntries DEF new
  <1>3. CASE Verify
    <2>1. PICK flipped \in SUBSET Survivors :
            /\ \A r \in flipped : r.f \in Plain
            /\ cache' = Amended(flipped)
      BY <1>3 DEF Verify
    <2>2. \A r \in flipped : r \in results /\ r.f \in DOMAIN keys
      BY <2>1 DEF Survivors
    <2>3. \A r \in flipped :
            /\ CorrectedEntry(r).key = keys[r.f]
            /\ keys[r.f].f = r.f /\ keys[r.f].ids # {}
            /\ CorrectedEntry(r).disturbed = disturbed
            /\ ~disturbed => CorrectedEntry(r).of.text = keys[r.f].text
                            /\ CorrectedEntry(r).of.tests = keys[r.f].tests
      BY <2>2 DEF CorrectedEntry, MeasuredOn, InMemory, Now
    <2>4. \A r1, r2 \in flipped : r1.f = r2.f => r1 = r2
      BY <1>3, <2>2 DEF Agreed, Verify
    <2>5. \A r1, r2 \in flipped :
            CorrectedEntry(r1).key = CorrectedEntry(r2).key => CorrectedEntry(r1) = CorrectedEntry(r2)
      BY <2>3, <2>4
    <2>6. \A e \in cache' : e \in cache \/ \E r \in flipped : e = CorrectedEntry(r)
      BY <1>1, <2>1 DEF Amended
    <2>7. CASE cache' = cache
      BY <1>1, <2>7
    <2>8. CASE cache' # cache
      <3>1. \A e1, e2 \in cache' : e1.key = e2.key => e1 = e2
        BY <2>3, <2>5, <2>1, <2>8, <2>6 DEF Entries, Amended
      <3>2. \A e \in cache' : e.key.f \in Plain /\ ~e.disturbed =>
              e.of.text = e.key.text /\ e.of.tests = e.key.tests
        BY <2>3, <2>6, <2>8, <2>1 DEF Entries, EntriesMeasureTheirKeys
      <3>3. \A e \in cache' : e.key.ids = {} /\ ~e.disturbed => e.of.text = e.key.text
        BY <2>3, <2>6, <2>8, <2>1 DEF Entries
      <3> QED BY <3>1, <3>2, <3>3 DEF Entries, EntriesMeasureTheirKeys
    <2> QED BY <2>7, <2>8
  <1>4. ASSUME NEW f \in Decorated, RunPatch(f) PROVE Entries'
    <2>1. PICK st :
            cache' = Stored({[key |-> KeyOf(f, {}), st |-> st,
                              of |-> MeasuredOn(text[f], Now), disturbed |-> disturbed]})
      BY <1>4 DEF RunPatch
    <2>2. ~disturbed => made = text
      BY <1>4 DEF RunPatch, InMemory
    <2>3. KeyOf(f, {}).f \notin Plain /\ (~disturbed => KeyOf(f, {}).text = text[f])
      BY <2>2, FuncsAssumption DEF KeyOf
    <2>4. MeasuredOn(text[f], Now).text = text[f]
      BY DEF MeasuredOn
    <2> QED BY <2>1, <2>3, <2>4, StoredEntries
  <1>5. ASSUME NEW f \in Decorated, SettlePatch(f) PROVE cache' = cache
    BY <1>5 DEF SettlePatch, files
  <1>6. Edit \/ Generate \/ TypeCheck \/ Gathers \/ Schedule \/ Moves \/ Ends \/ UNCHANGED vars
        => cache' = cache
    BY DEF Edit, Generate, TypeCheck, Gathers, Schedule, Moves, Ends, vars, files
  <1> QED BY <1>1, <1>2, <1>3, <1>4, <1>5, <1>6, StepKinds

----------------------------------------------------------------------------
(* The report *)

\* Where the results of a schedule come from.
LEMMA Scheduled ==
  ASSUME Schedule
  PROVE  \E discovered \in IF used = None THEN {Tests, {}} ELSE {{}} :
           /\ DOMAIN keys' = todo \ (Uncovered(discovered) \union Hits(discovered))
           /\ \A f \in DOMAIN keys' : keys'[f] = KeyOf(f, TestIds(f, discovered))
           /\ \A r \in results' :
                \/ r \in results
                \/ \E f \in Uncovered(discovered) : r = Untested(f)
                \/ \E f \in Hits(discovered), e \in cache :
                     /\ TestIds(f, discovered) # {}
                     /\ e.key = KeyOf(f, TestIds(f, discovered))
                     /\ r = Replayed(f, e, "cache")
  <1>1. PICK discovered \in IF used = None THEN {Tests, {}} ELSE {{}} :
          /\ keys' = [f \in todo \ (Uncovered(discovered) \union Hits(discovered)) |->
                       KeyOf(f, TestIds(f, discovered))]
          /\ results' \subseteq results
               \union {Untested(f) : f \in Uncovered(discovered)}
               \union UNION {{Replayed(f, e, "cache")
                               : e \in Cached(KeyOf(f, TestIds(f, discovered)))}
                             : f \in Hits(discovered)}
    BY DEF Schedule
  <1>2. \A f \in Hits(discovered) : TestIds(f, discovered) # {}
    BY DEF Hits, Uncovered
  <1>3. \A f : Cached(KeyOf(f, TestIds(f, discovered))) \subseteq
               {e \in cache : e.key = KeyOf(f, TestIds(f, discovered))}
    BY DEF Cached
  <1> QED BY <1>1, <1>2, <1>3

LEMMA CurrentStep ==
  TypeOK /\ InMemory /\ Entries /\ Current /\ [Next]_vars => Current'
  <1> SUFFICES ASSUME TypeOK, InMemory, Entries, Current, [Next]_vars, ~disturbed'
               PROVE  Current'
    BY DEF Current
  <1>1. ASSUME results' \subseteq results, UNCHANGED <<text, tests, disturbed>> PROVE Current'
    BY <1>1 DEF Current
  <1>2. CASE Edit
    <2>1. results' = {}
      BY <1>2 DEF Edit, InMemory
    <2> QED BY <2>1 DEF Current
  <1>3. CASE TypeCheck
    <2>1. \A r \in results' : r.of = None
      BY <1>3 DEF TypeCheck
    <2> QED BY <2>1 DEF Current
  <1>4. CASE Schedule
    <2>1. PICK discovered :
            \A r \in results' :
              \/ r \in results
              \/ \E f \in Uncovered(discovered) : r = Untested(f)
              \/ \E f \in Hits(discovered), e \in cache :
                   /\ TestIds(f, discovered) # {}
                   /\ e.key = KeyOf(f, TestIds(f, discovered))
                   /\ r = Replayed(f, e, "cache")
      BY <1>4, Scheduled
    <2>2. UNCHANGED <<text, tests, disturbed>> /\ made = text
      BY <1>4 DEF Schedule, project, InMemory
    <2>3. ASSUME NEW f, NEW e \in cache, NEW ids, ids # {}, e.key = KeyOf(f, ids),
                 f \in Plain, ~e.disturbed
          PROVE  e.of.text = text[f] /\ e.of.tests = tests
      BY <2>2, <2>3 DEF Entries, EntriesMeasureTheirKeys, KeyOf
    <2>4. ASSUME NEW r \in results', ~r.disturbed, r.of # None
          PROVE  /\ r.f \in Plain => r.of.text = text[r.f] /\ r.of.tests = tests
                 /\ r.via \in {"patch", "patch_cache"} => r.of.text = text[r.f]
      <3>1. CASE r \in results
        BY <2>2, <2>4, <3>1 DEF Current
      <3>2. ASSUME NEW f, r = Untested(f) PROVE FALSE
        BY <2>4, <3>2 DEF Untested
      <3>3. ASSUME NEW f, NEW e \in cache, TestIds(f, discovered) # {},
                   e.key = KeyOf(f, TestIds(f, discovered)), r = Replayed(f, e, "cache")
            PROVE  /\ r.f \in Plain => r.of.text = text[r.f] /\ r.of.tests = tests
                   /\ r.via \notin {"patch", "patch_cache"}
        <4>1. r.f = f /\ r.of = e.of /\ r.disturbed = e.disturbed /\ r.via = "cache"
          BY <3>3 DEF Replayed
        <4> QED BY <2>3, <2>4, <3>3, <4>1
      <3> QED BY <2>1, <3>1, <3>2, <3>3
    <2> QED BY <2>2, <2>4 DEF Current
  <1>5. CASE Execute
    <2>1. \A r \in results' :
            \/ r \in results
            \/ \E f \in DOMAIN keys : r.f = f /\ r.of = PoolMeasures(f) /\ r.via = "run"
      BY <1>5 DEF Execute
    <2>2. UNCHANGED <<text, tests, disturbed>> /\ made = text /\ (loaded = None \/ loaded = Now)
      BY <1>5 DEF Execute, project, InMemory
    <2>3. \A f \in Plain : PoolMeasures(f).text = text[f] /\ PoolMeasures(f).tests = tests
      BY <2>2 DEF PoolMeasures, MeasuredOn, Now
    <2> QED BY <2>1, <2>2, <2>3 DEF Current
  <1>6. CASE Verify
    <2>1. \A r \in results' :
            \/ r \in results
            \/ \E q \in results : q.f \in DOMAIN keys /\ q.f \in Plain /\ q.st = "survived"
                                   /\ r = Corrected(q)
      BY <1>6 DEF Verify, Survivors
    <2>2. UNCHANGED <<text, tests, disturbed>> /\ made = text
      BY <1>6 DEF Verify, project, InMemory
    <2>3. ASSUME NEW q \in results
          PROVE  /\ Corrected(q).f = q.f
                 /\ Corrected(q).of.text = text[q.f] /\ Corrected(q).of.tests = tests
      <3>1. q \in Result
        BY DEF TypeOK
      <3> QED BY <2>2, <3>1 DEF Corrected, MeasuredOn, Now, Result
    <2> QED BY <2>1, <2>2, <2>3 DEF Current
  <1>7. ASSUME NEW f \in Decorated, SettlePatch(f) PROVE Current'
    <2>1. UNCHANGED <<text, tests, disturbed>> /\ made = text
      BY <1>7 DEF SettlePatch, project, InMemory
    <2>2. \A r \in results' : \/ r \in results
                             \/ r.of = None
                             \/ \E e \in cache : e.key = KeyOf(f, {}) /\ r = Replayed(f, e, "patch_cache")
      BY <1>7 DEF SettlePatch, Cached
    <2>3. \A e \in cache : e.key = KeyOf(f, {}) /\ ~e.disturbed => e.of.text = text[f]
      BY <2>1 DEF Entries, KeyOf
    <2> QED BY <2>1, <2>2, <2>3, FuncsAssumption DEF Current, Replayed
  <1>8. ASSUME NEW f \in Decorated, RunPatch(f) PROVE Current'
    <2>1. \A r \in results' : r \in results \/ (r.f = f /\ r.of = MeasuredOn(text[f], Now))
      BY <1>8 DEF RunPatch
    <2>2. UNCHANGED <<text, tests, disturbed>>
      BY <1>8 DEF RunPatch, project
    <2> QED BY <2>1, <2>2, FuncsAssumption DEF Current, MeasuredOn
  <1>9. Generate \/ Gathers \/ Moves \/ UNCHANGED vars
        => results' \subseteq results /\ UNCHANGED <<text, tests, disturbed>>
    BY DEF Generate, Gathers, Moves, vars, project, run
  <1>10. CASE Ends
    BY <1>10 DEF Ends, RunOver, Current
  <1> QED
    BY <1>1, <1>2, <1>3, <1>4, <1>5, <1>6, <1>7, <1>8, <1>9, <1>10, StepKinds

LEMMA UnspokenStep ==
  TypeOK /\ InMemory /\ Unspoken /\ [Next]_vars => Unspoken'
  <1> SUFFICES ASSUME TypeOK, InMemory, Unspoken, [Next]_vars PROVE Unspoken'
    OBVIOUS
  <1>1. CASE Edit \/ Gathers \/ UNCHANGED vars
    BY <1>1 DEF Edit, Gathers, vars, run, Unspoken, Before
  <1>2. CASE Generate
    <2>1. results' = {}
      BY <1>2 DEF Generate, InMemory
    <2> QED BY <2>1 DEF Unspoken
  <1>3. CASE TypeCheck
    BY <1>3 DEF TypeCheck, Unspoken
  <1>4. pc' \notin Before \/ results' = {} => Unspoken'
    BY DEF Unspoken
  <1>5. Schedule \/ Execute \/ Verify \/ Moves => pc' \notin Before
    BY DEF Schedule, Execute, Verify, Moves, Before
  <1>6. \A f \in Decorated : SettlePatch(f) \/ RunPatch(f) => pc' \notin Before
    BY DEF SettlePatch, RunPatch, Before
  <1>7. Ends => results' = {}
    BY DEF Ends, RunOver
  <1> QED BY <1>1, <1>2, <1>3, <1>4, <1>5, <1>6, <1>7, StepKinds

\* What the fingerprint and the single files agree on is the project.
LEMMA SameSeen ==
  ASSUME TypeOK, used # None, SingleFilesUnchanged(used),
         FingerprintOf(used.of) = FingerprintOf(Now)
  PROVE  used.of = Now
  <1> DEFINE s == used.of
  <1>1. s.text \in [Funcs -> Versions] /\ text \in [Funcs -> Versions]
        /\ s = [text |-> s.text, tests |-> s.tests]
    BY DEF Seen, Stats, TypeOK
  <1>2. [f \in Hashed |-> s.text[f]] = [f \in Hashed |-> text[f]]
    BY DEF FingerprintOf, Now
  <1>3. ASSUME NEW f \in Funcs PROVE s.text[f] = text[f]
    <2>1. CASE f \in Hashed
      BY <1>2, <2>1
    <2>2. CASE f \notin Hashed
      BY <2>2 DEF SingleFilesUnchanged
    <2> QED BY <2>1, <2>2
  <1>4. s.text = text
    BY <1>1, <1>3
  <1>5. s.tests = tests
    BY DEF FingerprintOf, SingleFilesUnchanged, Now
  <1> QED BY <1>1, <1>4, <1>5 DEF Now

LEMMA UnreachedStep ==
  TypeOK /\ InMemory /\ Gathered /\ Unspoken /\ Unreached /\ [Next]_vars => Unreached'
  <1> SUFFICES ASSUME TypeOK, InMemory, Gathered, Unspoken, Unreached, [Next]_vars
               PROVE  Unreached'
    OBVIOUS
  <1>1. ASSUME \A r \in results' : r.st = "no_tests" /\ r.f \in Plain => r \in results,
               UNCHANGED <<text, tests, used, disturbed>>
        PROVE  Unreached'
    BY <1>1 DEF Unreached, SingleFilesUnchanged, Now
  <1>2. ASSUME \A r \in results' : r.st # "no_tests" PROVE Unreached'
    BY <1>2 DEF Unreached
  <1>3. CASE Edit \/ Ends
    BY <1>3 DEF Edit, Ends, RunOver, InMemory, Unreached
  <1>4. CASE Generate \/ Moves \/ UNCHANGED vars
    BY <1>1, <1>4 DEF Generate, Moves, vars, run, project
  <1>5. CASE TypeCheck
    BY <1>2, <1>5 DEF TypeCheck
  <1>6. CASE Gathers
    BY <1>2, <1>6 DEF Gathers, Unspoken, Before
  <1>7. CASE Schedule
    <2>1. PICK discovered \in IF used = None THEN {Tests, {}} ELSE {{}} :
            \A r \in results' :
              \/ r \in results
              \/ \E f \in Uncovered(discovered) : r = Untested(f)
              \/ \E f \in Hits(discovered), e \in cache : r = Replayed(f, e, "cache")
      BY <1>7, Scheduled
    <2>2. UNCHANGED <<text, tests, used, disturbed>> /\ pc \in Before
      BY <1>7 DEF Schedule, project, Before
    <2>3. \A r \in results : r.st # "no_tests"
      BY <2>2 DEF Unspoken
    <2>4. \A f : \A e \in cache : Replayed(f, e, "cache").st # "no_tests"
      BY VerdictAssumption DEF Replayed, TypeOK, Entry
    <2>5. ASSUME used # None, Sound(used), SingleFilesUnchanged(used), ~disturbed,
                 NEW f \in Uncovered(discovered), f \in Plain \intersect used.scope
          PROVE  Reach[Now][f] = {}
      <3>1. used.of = Now
        BY <2>5, SameSeen DEF Gathered
      <3>2. Recorded(used, f) = {}
        BY <2>5 DEF Uncovered, TestIds
      <3> QED BY <2>5, <3>1, <3>2 DEF Recorded
    <2>6. \A f : Untested(f).f = f
      BY DEF Untested
    <2>7. ASSUME used # None, Sound(used), SingleFilesUnchanged(used), ~disturbed,
                 NEW r \in results', r.st = "no_tests", r.f \in Plain \intersect used.scope
          PROVE  Reach[Now][r.f] = {}
      <3>1. PICK f \in Uncovered(discovered) : r = Untested(f)
        BY <2>1, <2>3, <2>4, <2>7
      <3> QED BY <2>5, <2>6, <2>7, <3>1
    <2> QED BY <2>2, <2>7 DEF Unreached, SingleFilesUnchanged, Now
  <1>8. CASE Execute
    <2>1. \A r \in results' : r \in results \/ r.st \in Verdict
      BY <1>8 DEF Execute
    <2> QED BY <1>1, <1>8, <2>1, VerdictAssumption DEF Execute, project
  <1>9. CASE Verify
    <2>1. \A r \in results' : r \in results \/ \E q \in results : r = Corrected(q)
      BY <1>9 DEF Verify, Survivors
    <2>2. \A q \in results : Corrected(q).st = "killed"
      BY DEF Corrected, TypeOK, Result
    <2> QED BY <1>1, <1>9, <2>1, <2>2 DEF Verify, project
  <1>10. ASSUME NEW f \in Decorated, SettlePatch(f) \/ RunPatch(f) PROVE Unreached'
    <2>1. \A r \in results' : r \in results \/ r.f = f
      <3>1. SettlePatch(f) => \A r \in results' : r \in results \/ r.f = f
        BY DEF SettlePatch, Replayed
      <3>2. RunPatch(f) => \A r \in results' : r \in results \/ r.f = f
        BY DEF RunPatch
      <3> QED BY <1>10, <3>1, <3>2
    <2> QED BY <1>1, <1>10, <2>1, FuncsAssumption DEF SettlePatch, RunPatch, project
  <1> QED
    BY <1>3, <1>4, <1>5, <1>6, <1>7, <1>8, <1>9, <1>10, StepKinds

----------------------------------------------------------------------------
(* The report and the cache *)

LEMMA AgreedStep ==
  TypeOK /\ InMemory /\ Unspoken /\ Agreed /\ [Next]_vars => Agreed'
  <1> SUFFICES ASSUME TypeOK, InMemory, Unspoken, Agreed, [Next]_vars PROVE Agreed'
    OBVIOUS
  <1>1. pc' \in Before => Agreed'
    BY DEF Agreed, Before, After
  <1>2. CASE Edit
    BY <1>2 DEF Edit, Agreed
  <1>3. Generate \/ TypeCheck \/ Gathers \/ Ends => pc' \in Before
    BY DEF Generate, TypeCheck, Gathers, Ends, RunOver, Before
  <1>4. CASE Schedule
    <2>1. PICK discovered :
            /\ DOMAIN keys' = todo \ (Uncovered(discovered) \union Hits(discovered))
            /\ \A f \in DOMAIN keys' : keys'[f] = KeyOf(f, TestIds(f, discovered))
            /\ \A r \in results' :
                 \/ r \in results
                 \/ \E f \in Uncovered(discovered) : r = Untested(f)
                 \/ \E f \in Hits(discovered), e \in cache :
                      /\ TestIds(f, discovered) # {}
                      /\ e.key = KeyOf(f, TestIds(f, discovered))
                      /\ r = Replayed(f, e, "cache")
      BY <1>4, Scheduled
    <2>2. pc = "schedule" /\ pc' = "execute" /\ UNCHANGED <<cache, cfg, todo>>
      BY <1>4 DEF Schedule, files
    <2>3. \A r \in results : r.f \notin todo /\ r.via = "type_check"
      BY <2>2 DEF Unspoken, Before
    <2>4. \A r \in results' : r.via # "run" /\ r.f \notin DOMAIN keys'
      BY <2>1, <2>3 DEF Untested, Replayed
    <2>5. ASSUME NEW f \in DOMAIN keys', NEW e \in cache, "no_cache" \notin cfg
          PROVE  e.key # keys'[f]
      <3>1. f \in todo \ Uncovered(discovered) /\ f \notin Hits(discovered)
        BY <2>1
      <3>2. Cached(keys'[f]) = {}
        BY <2>1, <3>1 DEF Hits
      <3> QED BY <2>5, <3>2 DEF Cached
    <2> QED BY <2>2, <2>4, <2>5 DEF Agreed, After
  <1>5. CASE Execute
    <2>1. PICK st :
            /\ cache' = Stored({[key |-> keys[f], st |-> st[f], of |-> PoolMeasures(f),
                                 disturbed |-> disturbed] : f \in DOMAIN keys})
            /\ results' = results \union
                 {[f |-> f, st |-> st[f], of |-> PoolMeasures(f), disturbed |-> FALSE,
                   via |-> "run"] : f \in DOMAIN keys}
      BY <1>5 DEF Execute
    <2>2. pc = "execute" /\ pc' = "verify" /\ UNCHANGED <<cfg, keys>>
      BY <1>5 DEF Execute
    <2>3. \A r \in results' :
            \/ r \in results /\ r.via # "run" /\ r.f \notin DOMAIN keys
            \/ \E f \in DOMAIN keys :
                 r = [f |-> f, st |-> st[f], of |-> PoolMeasures(f), disturbed |-> FALSE,
                      via |-> "run"]
      BY <2>1, <2>2 DEF Agreed
    <2>4. \A r \in results' : (r.f \in DOMAIN keys => r.via = "run")
                            /\ (r.via = "run" => r.f \in DOMAIN keys)
      BY <2>3
    <2>5. \A r1, r2 \in results' : r1.via = "run" /\ r2.via = "run" /\ r1.f = r2.f => r1 = r2
      <3>1. ASSUME NEW r \in results', r.via = "run"
            PROVE  r = [f |-> r.f, st |-> st[r.f], of |-> PoolMeasures(r.f),
                        disturbed |-> FALSE, via |-> "run"]
        BY <2>3, <3>1
      <3> QED BY <3>1
    <2>6. ASSUME NEW r \in results', r.via = "run", "no_cache" \notin cfg
          PROVE  \E e \in cache' : e.key = keys[r.f] /\ e.st = r.st /\ e.of = r.of
      <3>1. PICK f \in DOMAIN keys :
              r = [f |-> f, st |-> st[f], of |-> PoolMeasures(f), disturbed |-> FALSE,
                   via |-> "run"]
        BY <2>3, <2>6
      <3>2. DEFINE e == [key |-> keys[f], st |-> st[f], of |-> PoolMeasures(f),
                         disturbed |-> disturbed]
      <3>3. \A old \in cache : old.key # e.key
        BY <2>2, <2>6 DEF Agreed
      <3>4. e \in cache'
        BY <2>1, <2>6, <3>3 DEF Stored
      <3> QED BY <3>1, <3>4
    <2> QED BY <2>2, <2>4, <2>5, <2>6 DEF Agreed, After
  <1>6. CASE Verify
    <2>1. PICK flipped \in SUBSET Survivors :
            /\ results' = (results \ flipped) \union {Corrected(r) : r \in flipped}
            /\ cache' = Amended(flipped)
      BY <1>6 DEF Verify
    <2>2. pc = "verify" /\ pc' = "patches" /\ UNCHANGED <<cfg, keys>>
      BY <1>6 DEF Verify
    <2>3. \A r \in flipped : r \in results /\ r.f \in DOMAIN keys /\ r.via = "run"
      BY <2>1, <2>2 DEF Survivors, Agreed
    <2>4. \A r \in flipped :
            /\ Corrected(r).f = r.f /\ Corrected(r).st = "killed" /\ Corrected(r).via = "run"
            /\ Corrected(r).of = MeasuredOn(made[r.f], Now)
      BY <2>3 DEF Corrected, TypeOK, Result
    <2>5. ASSUME NEW r \in results', r.via = "run"
          PROVE  /\ r.f \in DOMAIN keys
                 /\ "no_cache" \notin cfg =>
                      \E e \in cache' : e.key = keys[r.f] /\ e.st = r.st /\ e.of = r.of
      <3>1. CASE r \in results /\ r \notin flipped
        <4>1. r.f \in DOMAIN keys
          BY <2>2, <2>5, <3>1 DEF Agreed, After
        <4>2. ASSUME "no_cache" \notin cfg
              PROVE  \E e \in cache' : e.key = keys[r.f] /\ e.st = r.st /\ e.of = r.of
          <5>1. PICK e \in cache : e.key = keys[r.f] /\ e.st = r.st /\ e.of = r.of
            BY <2>2, <2>5, <3>1, <4>2 DEF Agreed, After
          <5>2. ASSUME NEW q \in flipped PROVE e.key # keys[q.f]
            <6>1. q.f # r.f
              BY <2>2, <2>3, <2>5, <3>1 DEF Agreed
            <6> QED BY <2>3, <4>1, <5>1, <6>1 DEF InMemory
          <5> QED BY <2>1, <4>2, <5>1, <5>2 DEF Amended
        <4> QED BY <4>1, <4>2
      <3>2. CASE \E q \in flipped : r = Corrected(q)
        <4>1. PICK q \in flipped : r = Corrected(q)
          BY <3>2
        <4>2. "no_cache" \notin cfg => CorrectedEntry(q) \in cache'
          BY <2>1 DEF Amended
        <4> QED BY <2>3, <2>4, <4>1, <4>2 DEF CorrectedEntry
      <3> QED BY <2>1, <3>1, <3>2
    <2> QED BY <2>2, <2>5 DEF Agreed
  <1>7. ASSUME NEW f \in Decorated, SettlePatch(f) \/ RunPatch(f) PROVE Agreed'
    <2>1. \A r \in results' : r \in results \/ r.via # "run"
      <3>1. SettlePatch(f) => \A r \in results' : r \in results \/ r.via # "run"
        BY DEF SettlePatch, Replayed
      <3>2. RunPatch(f) => \A r \in results' : r \in results \/ r.via # "run"
        BY DEF RunPatch
      <3> QED BY <1>7, <3>1, <3>2
    <2>2. cache \subseteq cache'
      BY <1>7 DEF SettlePatch, RunPatch, Stored, files
    <2>3. pc \in After /\ pc' = "patches" /\ UNCHANGED <<cfg, keys>>
      BY <1>7 DEF SettlePatch, RunPatch, After
    <2> QED BY <2>1, <2>2, <2>3 DEF Agreed
  <1>8. CASE Moves
    BY <1>8 DEF Moves, run, Agreed, After
  <1>9. CASE UNCHANGED vars
    BY <1>9 DEF vars, files, run, Agreed
  <1> QED
    BY <1>1, <1>2, <1>3, <1>4, <1>5, <1>6, <1>7, <1>8, <1>9, StepKinds

----------------------------------------------------------------------------
(* No mutant is lost or repeated *)

LEMMA SplitStep ==
  TypeOK /\ InMemory /\ Entries /\ Unspoken /\ Agreed /\ Split /\ [Next]_vars => Split'
  <1> SUFFICES ASSUME TypeOK, InMemory, Entries, Unspoken, Agreed, Split, [Next]_vars
               PROVE  Split'
    OBVIOUS
  <1>1. pc' \in Before => Split'
    BY DEF Split, Before, After
  <1>2. Generate \/ TypeCheck \/ Gathers \/ Ends => pc' \in Before
    BY DEF Generate, TypeCheck, Gathers, Ends, RunOver, Before
  <1>3. CASE Edit \/ UNCHANGED vars
    BY <1>3 DEF Edit, vars, run, Split, Of, Dropped, Recorded
  <1>4. CASE Schedule
    <2>1. PICK discovered \in IF used = None THEN {Tests, {}} ELSE {{}} :
            LET dropped == IF used # None /\ "covered_only" \in cfg THEN todo ELSE {}
            IN /\ keys' = [f \in todo \ (Uncovered(discovered) \union Hits(discovered)) |->
                              KeyOf(f, TestIds(f, discovered))]
               /\ results' = results
                    \union {Untested(f) : f \in Uncovered(discovered) \ dropped}
                    \union UNION {{Replayed(f, e, "cache")
                                    : e \in Cached(KeyOf(f, TestIds(f, discovered)))}
                                  : f \in Hits(discovered)}
      BY <1>4 DEF Schedule
    <2>2. pc = "schedule" /\ pc' = "execute" /\ UNCHANGED <<used, cfg, todo>>
      BY <1>4 DEF Schedule
    <2>3. \A r \in results : r.f \notin todo
      BY <2>2 DEF Unspoken, Before
    <2>4. \A f : Untested(f).f = f /\ \A e : Replayed(f, e, "cache").f = f
      BY DEF Untested, Replayed
    <2>5. Uncovered(discovered) \subseteq todo /\ Hits(discovered) \subseteq todo
          /\ Uncovered(discovered) \intersect Hits(discovered) = {}
      BY DEF Uncovered, Hits
    <2>6. ASSUME NEW f \in Uncovered(discovered), f \in Plain
          PROVE  Dropped(f)' \/ \E r : Of(f)' = {r}
      <3>1. CASE used # None /\ "covered_only" \in cfg
        <4>1. Of(f)' = {}
          BY <2>1, <2>3, <2>4, <2>5, <3>1 DEF Of
        <4>2. Recorded(used, f)' = {}
          BY <2>2, <2>6, <3>1 DEF Uncovered, TestIds, Recorded
        <4> QED BY <2>2, <3>1, <4>1, <4>2 DEF Dropped
      <3>2. CASE ~(used # None /\ "covered_only" \in cfg)
        <4>1. Of(f)' = {Untested(f)}
          BY <2>1, <2>3, <2>4, <2>5, <3>2 DEF Of
        <4> QED BY <4>1
      <3> QED BY <3>1, <3>2
    <2>7. ASSUME NEW f \in Hits(discovered)
          PROVE  \E r : Of(f)' = {r}
      <3>1. PICK e : e \in Cached(KeyOf(f, TestIds(f, discovered)))
        BY DEF Hits
      <3>2. Cached(KeyOf(f, TestIds(f, discovered))) = {e}
        BY <3>1 DEF Cached, Entries
      <3>3. Of(f)' = {Replayed(f, e, "cache")}
        BY <2>1, <2>3, <2>4, <2>5, <3>2 DEF Of
      <3> QED BY <3>3
    <2>8. DOMAIN keys' = todo \ (Uncovered(discovered) \union Hits(discovered))
      BY <2>1
    <2> QED BY <2>2, <2>6, <2>7, <2>8 DEF Split, After
  <1>5. CASE Execute
    <2>1. PICK st :
            results' = results \union
              {[f |-> f, st |-> st[f], of |-> PoolMeasures(f), disturbed |-> FALSE,
                via |-> "run"] : f \in DOMAIN keys}
      BY <1>5 DEF Execute
    <2>2. pc = "execute" /\ pc' = "verify" /\ UNCHANGED <<used, cfg, todo, keys>>
      BY <1>5 DEF Execute
    <2>3. \A r \in results : r.f \notin DOMAIN keys
      BY <2>2 DEF Agreed
    <2>4. ASSUME NEW f \in DOMAIN keys PROVE \E r : Of(f)' = {r}
      <3>1. Of(f)' = {[f |-> f, st |-> st[f], of |-> PoolMeasures(f), disturbed |-> FALSE,
                       via |-> "run"]}
        BY <2>1, <2>3 DEF Of
      <3> QED BY <3>1
    <2>5. ASSUME NEW f, f \notin DOMAIN keys PROVE Of(f)' = Of(f)
      BY <2>1, <2>5 DEF Of
    <2>6. \A f : Recorded(used, f)' = Recorded(used, f)
      BY <2>2 DEF Recorded
    <2> QED BY <2>2, <2>4, <2>5, <2>6 DEF Split, Dropped, After
  <1>6. CASE Verify
    <2>1. PICK flipped \in SUBSET Survivors :
            results' = (results \ flipped) \union {Corrected(r) : r \in flipped}
      BY <1>6 DEF Verify
    <2>2. pc \in After /\ pc' = "patches" /\ UNCHANGED <<used, cfg, todo>>
      BY <1>6 DEF Verify, After
    <2>3. \A r \in flipped : r \in results /\ Corrected(r).f = r.f
      BY <2>1 DEF Survivors, Corrected, TypeOK, Result
    <2>4. ASSUME NEW f, NEW r, Of(f) = {r} PROVE \E q : Of(f)' = {q}
      <3>1. CASE r \in flipped
        <4>1. Of(f)' = {Corrected(r)}
          BY <2>1, <2>3, <2>4, <3>1 DEF Of
        <4> QED BY <4>1
      <3>2. CASE r \notin flipped
        <4>1. Of(f)' = {r}
          BY <2>1, <2>3, <2>4, <3>2 DEF Of
        <4> QED BY <4>1
      <3> QED BY <3>1, <3>2
    <2>5. \A f : Of(f) = {} => Of(f)' = {}
      BY <2>1, <2>3 DEF Of
    <2>6. \A f : Recorded(used, f)' = Recorded(used, f)
      BY <2>2 DEF Recorded
    <2> QED BY <2>2, <2>4, <2>5, <2>6 DEF Split, Dropped, After
  <1>7. ASSUME NEW f \in Decorated, SettlePatch(f) \/ RunPatch(f) PROVE Split'
    <2>1. results \subseteq results' /\ \A r \in results' : r \in results \/ r.f = f
      <3>1. SettlePatch(f) => /\ results \subseteq results'
                              /\ \A r \in results' : r \in results \/ r.f = f
        BY DEF SettlePatch, Replayed
      <3>2. RunPatch(f) => /\ results \subseteq results'
                           /\ \A r \in results' : r \in results \/ r.f = f
        BY DEF RunPatch
      <3> QED BY <1>7, <3>1, <3>2
    <2>2. \A x \in Plain : Of(x)' = Of(x)
      BY <2>1, FuncsAssumption DEF Of
    <2>3. pc \in After /\ pc' = "patches" /\ UNCHANGED <<used, cfg, todo>>
      BY <1>7 DEF SettlePatch, RunPatch, After
    <2>4. \A x : Recorded(used, x)' = Recorded(used, x)
      BY <2>3 DEF Recorded
    <2> QED BY <2>2, <2>3, <2>4 DEF Split, Dropped
  <1>8. CASE Moves
    BY <1>8 DEF Moves, run, Split, Of, Dropped, Recorded, After
  <1> QED
    BY <1>1, <1>2, <1>3, <1>4, <1>5, <1>6, <1>7, <1>8, StepKinds

----------------------------------------------------------------------------
(* Theorems *)

LEMMA RunInvInit == Init => TypeOK /\ RunInv
  <1> SUFFICES ASSUME Init PROVE RunInv
    BY InitTyped
  <1>1. DOMAIN keys = {} /\ results = {} /\ cache = {} /\ pc = "idle"
    BY DEF Init
  <1> QED
    BY <1>1 DEF Init, RunInv, InMemory, Gathered, FingerprintMatchesStats, Entries,
       EntriesMeasureTheirKeys, Current, Unspoken, Unreached, Agreed, Split, After

LEMMA RunInvHolds == Spec => [](TypeOK /\ RunInv)
  <1>1. TypeOK /\ RunInv /\ [Next]_vars => (TypeOK /\ RunInv)'
    BY StepTyped, InMemoryStep, GatheredStep, EntriesStep, CurrentStep, UnspokenStep,
       UnreachedStep, AgreedStep, SplitStep DEF RunInv
  <1> QED BY RunInvInit, <1>1, PTL DEF Spec

\* The fingerprint on disk is that of the project the statistics on disk were collected
\* on, whatever is edited and whatever run is killed between the two files
\* (save_stats_fingerprint).  It says nothing of what is given as a single file.
THEOREM StatsAreStamped == Spec => []FingerprintMatchesStats
  <1>1. RunInv => FingerprintMatchesStats
    BY DEF RunInv, Gathered
  <1> QED BY <1>1, RunInvHolds, PTL

\* A cached verdict on a trampolined mutant belongs to its key (store_entry).
THEOREM EntriesBelong == Spec => []EntriesMeasureTheirKeys
  <1>1. RunInv => EntriesMeasureTheirKeys
    BY DEF RunInv, Entries
  <1> QED BY <1>1, RunInvHolds, PTL

\* The verdicts phase_results prints are of the project as it stands.
THEOREM ReportIsCurrent == Spec => []VerdictsAreCurrent
  <1>1. RunInv => VerdictsAreCurrent
    BY DEF RunInv, Current, VerdictsAreCurrent, Reported
  <1> QED BY <1>1, RunInvHolds, PTL

\* So are those of source patches, as far as the sources go.
THEOREM PatchesMeasured == Spec => []PatchesAreMeasured
  <1>1. RunInv => PatchesAreMeasured
    BY DEF RunInv, Current, PatchesAreMeasured, Reported
  <1> QED BY <1>1, RunInvHolds, PTL

\* "No tests" is never said of a function that sound statistics watched and a test of the
\* present project calls, if what is given as a single file (collect_py_files reads none)
\* is as it was when they were collected.
THEOREM UntestedUnreached == Spec => []UntestedIsUnreached
  <1>1. RunInv => UntestedIsUnreached
    BY DEF RunInv, Unreached, UntestedIsUnreached, Reported
  <1> QED BY <1>1, RunInvHolds, PTL

\* The cache and the report give an executed mutant the same verdict.
THEOREM CacheAgrees == Spec => []CacheAgreesWithReport
  <1>1. RunInv => CacheAgreesWithReport
    BY DEF RunInv, Agreed, CacheAgreesWithReport, After
  <1> QED BY <1>1, RunInvHolds, PTL

\* A mutant to be tested has one verdict in the end, or --covered-only dropped it.
THEOREM MutantsOnce == Spec => []EveryMutantOnce
  <1>1. RunInv => EveryMutantOnce
    <2> SUFFICES ASSUME RunInv, pc = "results", NEW f \in todo \intersect Plain
                 PROVE  \/ Cardinality(Of(f)) = 1
                        \/ Dropped(f)
      BY DEF EveryMutantOnce, Of, Dropped
    <2>1. Dropped(f) \/ \E r : Of(f) = {r}
      BY DEF RunInv, Split, After
    <2> QED BY <2>1, FS_Singleton
  <1> QED BY <1>1, RunInvHolds, PTL

\* Verification turns survivors into kills and does nothing else
\* (apply_verification_corrections).
THEOREM CorrectionsKill == Spec => CorrectionsOnlyKill
  <1>1. TypeOK /\ [Next]_vars =>
          (pc = "verify" /\ pc' = "patches" =>
             /\ \A r \in results : r.st # "survived" => r \in results'
             /\ \A r \in results' \ results :
                   r.st = "killed" /\ \E old \in results \ results' :
                                          old.f = r.f /\ old.st = "survived")
    <2> SUFFICES ASSUME TypeOK, [Next]_vars, pc = "verify", pc' = "patches"
                 PROVE  /\ \A r \in results : r.st # "survived" => r \in results'
                        /\ \A r \in results' \ results :
                              r.st = "killed" /\ \E old \in results \ results' :
                                                     old.f = r.f /\ old.st = "survived"
      OBVIOUS
    <2>1. \A f \in Decorated : ~SettlePatch(f) /\ ~RunPatch(f)
      BY DEF SettlePatch, RunPatch
    <2>2. Verify
      BY <2>1, StepKinds DEF Edit, Generate, TypeCheck, Gathers, Schedule, Execute, Moves,
         Ends, RunOver, vars
    <2>3. PICK flipped \in SUBSET Survivors :
            results' = (results \ flipped) \union {Corrected(r) : r \in flipped}
      BY <2>2 DEF Verify
    <2>4. \A r \in flipped : /\ r \in results /\ r.st = "survived"
                            /\ Corrected(r).f = r.f /\ Corrected(r).st = "killed"
      BY <2>3 DEF Survivors, Corrected, TypeOK, Result
    <2>5. \A r \in flipped : r \notin results'
      BY <2>3, <2>4
    <2> QED BY <2>3, <2>4, <2>5
  <1> QED BY <1>1, RunInvHolds, PTL DEF Spec, CorrectionsOnlyKill

\* At most one patch sits in mutants/, and only while it is tested or after a run that
\* died with it (run_source_patch_mutant).
THEOREM PatchesAlone == Spec => []OnePatchAtATime
  <1>1. Init => OnePatchAtATime
    BY DEF Init, OnePatchAtATime
  <1>2. OnePatchAtATime /\ [Next]_vars => OnePatchAtATime'
    <2> SUFFICES ASSUME OnePatchAtATime, [Next]_vars PROVE OnePatchAtATime'
      OBVIOUS
    <2>1. ASSUME NEW f \in Decorated, SettlePatch(f) \/ RunPatch(f) PROVE OnePatchAtATime'
      BY <2>1 DEF SettlePatch, RunPatch, OnePatchAtATime, files
    <2>2. CASE Moves
      BY <2>2 DEF Moves, OnePatchAtATime
    <2>3. CASE Ends \/ Edit \/ Generate \/ TypeCheck
      BY <2>3 DEF Ends, RunOver, Edit, Generate, TypeCheck, files, OnePatchAtATime
    <2>4. CASE Gathers \/ Schedule \/ Execute \/ Verify \/ UNCHANGED vars
      BY <2>4 DEF Gathers, Schedule, Execute, Verify, vars, files, OnePatchAtATime
    <2> QED BY <2>1, <2>2, <2>3, <2>4, StepKinds
  <1> QED BY <1>1, <1>2, PTL DEF Spec
=============================================================================
