------------------------------ MODULE ResultCache ------------------------------
(***************************************************************************)
(* The result cache of src/cache.rs and the runs of src/pipeline.rs that   *)
(* use it, one file operation at a time.  Several `irradiate run`, `cache  *)
(* gc` and `cache clean` processes may work in the same .irradiate/cache   *)
(* directory; nothing locks it, and any process may be killed between two  *)
(* file operations.                                                        *)
(*                                                                         *)
(* An entry is one file in the bucket directory of its key, written to a   *)
(* temporary file of the process and renamed into place.  A verdict other  *)
(* than survived is written "killed": the cache stores every status, and   *)
(* only survivors are ever verified.                                       *)
(***************************************************************************)
EXTENDS FiniteSets

CONSTANTS
  Runs,      \* processes of `irradiate run`, without --no-cache
  Janitors,  \* processes of `irradiate cache gc` and `irradiate cache clean`
  Mutants,   \* the covered mutants of the project, each with a cache key
  Keys, Buckets,
  KeyOf,     \* [Mutants -> Keys]: build_cache_key
  BucketOf,  \* [Keys -> Buckets]: the first two digits of the key
  Warm,      \* [Mutants -> SUBSET Verdicts]: what a warm worker may find
  Isolated   \* [Mutants -> Verdicts]: what run_isolated finds

Verdicts  == {"killed", "survived"}
Modes     == {"warm", "verify", "isolate"}
NoMutant  == "none"    \* before the first file operation
NoFile    == "none"
Torn      == "torn"    \* a file that is created and not yet written
Contents  == Verdicts \cup {NoFile, Torn}

ASSUME CacheAssumption ==
  /\ KeyOf \in [Mutants -> Keys] /\ BucketOf \in [Keys -> Buckets]
  /\ Warm \in [Mutants -> SUBSET Verdicts]
  /\ Isolated \in [Mutants -> Verdicts]
  /\ \A m \in Mutants : Isolated[m] \in Warm[m]

VARIABLES
  entry,     \* [Keys -> Contents]: the file <bucket>/<rest of key>.json
  tmp,       \* [Runs \X Keys -> Contents]: the temporary files
  dirs,      \* the bucket directories that exist
  pc,        \* where each run has got to
  mode,      \* its options: warm, --verify-survivors or --isolate
  at,        \* the mutant its file operation is about
  todo,      \* the mutants it has not visited in this loop
  covered,   \* covered_work: the mutants it did not find in the cache
  flips,     \* survivors it found killed in isolation
  report,    \* results: its verdict for each mutant
  jpc,       \* where each gc or clean has got to
  jtodo,     \* the bucket directories it has not visited in this loop
  victims,   \* the files gc has listed, then those it is to remove
  alone      \* history: the runs that never shared the directory

files    == <<entry, tmp, dirs>>
plans    == <<mode, covered, flips>>
janitors == <<jpc, jtodo, victims>>
vars     == <<files, pc, plans, at, todo, report, janitors, alone>>

Loops   == {"lookup", "store", "correct"}
FileOps == {"read", "mkdir", "create", "write", "recheck", "rename"}
Ends    == {"done", "failed", "crashed"}

TypeOK ==
  /\ entry \in [Keys -> Contents]
  /\ tmp \in [Runs \X Keys -> Contents]
  /\ dirs \in SUBSET Buckets
  /\ pc \in [Runs -> {"idle"} \cup Loops \cup FileOps \cup Ends]
  /\ mode \in [Runs -> Modes]
  /\ at \in [Runs -> Mutants \cup {NoMutant}]
  /\ \A r \in Runs : pc[r] \in FileOps => at[r] \in Mutants
  /\ todo \in [Runs -> SUBSET Mutants]
  /\ covered \in [Runs -> SUBSET Mutants] /\ flips \in [Runs -> SUBSET Mutants]
  /\ report \in [Runs -> [Mutants -> Verdicts \cup {NoFile}]]
  /\ jpc \in [Janitors -> {"idle", "scan", "prune", "rmdir", "clean", "done"}]
  /\ jtodo \in [Janitors -> SUBSET Buckets]
  /\ victims \in [Janitors -> SUBSET Keys]
  /\ alone \in SUBSET Runs

Init ==
  /\ entry = [k \in Keys |-> NoFile]
  /\ tmp = [f \in Runs \X Keys |-> NoFile]
  /\ dirs = {}
  /\ pc = [r \in Runs |-> "idle"]
  /\ mode = [r \in Runs |-> "warm"]
  /\ at = [r \in Runs |-> NoMutant]
  /\ todo = [r \in Runs |-> {}]
  /\ covered = [r \in Runs |-> {}]
  /\ flips = [r \in Runs |-> {}]
  /\ report = [r \in Runs |-> [m \in Mutants |-> NoFile]]
  /\ jpc = [j \in Janitors |-> "idle"]
  /\ jtodo = [j \in Janitors |-> {}]
  /\ victims = [j \in Janitors |-> {}]
  /\ alone = {}

---------------------------------------------------------------------------
(* The paths and the processes                                             *)

\* with_extension("tmp-<pid>-<nanos>"): a name no other process writes.  A
\* process has one temporary file at a time, so the nanoseconds are left out.
SharedTmpPath(r, k) == <<CHOOSE p \in Runs : TRUE, k>>
TmpPath(r, k) == <<r, k>>

Running(r) == pc[r] \in Loops \cup FileOps
Cleaning(j) == jpc[j] \notin {"idle", "done"}
Key(r) == KeyOf[at[r]]
MyTmp(r) == TmpPath(r, Key(r))

\* An empty directory is all that remove_dir removes.
IsEmpty(b) ==
  /\ \A k \in Keys : BucketOf[k] = b => entry[k] = NoFile
  /\ \A r \in Runs, k \in Keys : BucketOf[k] = b => tmp[<<r, k>>] = NoFile

Goto(r, l) == pc' = [pc EXCEPT ![r] = l]

\* The `?` of a failed file operation ends the run.
Fail(r) == Goto(r, "failed") /\ UNCHANGED todo

\* force_update_entry is called for corrections only, store_entry before any.
Correcting(r) == flips[r] # {}

\* The entry of this mutant is dealt with; its loop goes on to the next one.
Handled(r, loop) == Goto(r, loop) /\ todo' = [todo EXCEPT ![r] = @ \ {at[r]}]

\* Begin a file operation on the entry of mutant m.
Begin(r, m, op) == Goto(r, op) /\ at' = [at EXCEPT ![r] = m] /\ UNCHANGED todo
Skip(r, m) == todo' = [todo EXCEPT ![r] = @ \ {m}] /\ UNCHANGED <<pc, at>>

---------------------------------------------------------------------------
(* A run: look up, execute, store, verify, correct                         *)

Start(r, options) ==
  /\ pc[r] = "idle"
  /\ Goto(r, "lookup")
  /\ mode' = [mode EXCEPT ![r] = options]
  /\ todo' = [todo EXCEPT ![r] = Mutants]
  /\ alone' = {p \in alone : ~Running(p)} \cup
               {p \in {r} : /\ \A q \in Runs : ~Running(q)
                            /\ \A j \in Janitors : ~Cleaning(j)}
  /\ UNCHANGED <<files, covered, flips, at, report, janitors>>

\* load_entry up to path.exists(): a miss goes to covered_work.
LookUp(r, m) ==
  /\ pc[r] = "lookup" /\ m \in todo[r]
  /\ IF entry[KeyOf[m]] = NoFile
     THEN Skip(r, m) /\ covered' = [covered EXCEPT ![r] = @ \cup {m}]
     ELSE Begin(r, m, "read") /\ UNCHANGED covered
  /\ UNCHANGED <<files, mode, flips, report, janitors, alone>>

\* load_entry from read_to_string() on: the file may have gone, and a file
\* that does not parse is an error too.
Read(r) ==
  /\ pc[r] = "read"
  /\ IF entry[Key(r)] \in Verdicts
     THEN /\ report' = [report EXCEPT ![r][at[r]] = entry[Key(r)]]
          /\ Handled(r, "lookup")
     ELSE Fail(r) /\ UNCHANGED report
  /\ UNCHANGED <<files, plans, at, janitors, alone>>

Outcomes(r, m) == IF mode[r] = "isolate" THEN {Isolated[m]} ELSE Warm[m]

\* The pool or run_isolated; then every result is stored.
Execute(r, found) ==
  /\ pc[r] = "lookup" /\ todo[r] = {}
  /\ DOMAIN found = covered[r]
  /\ \A m \in covered[r] : found[m] \in Outcomes(r, m)
  /\ report' = [report EXCEPT ![r] =
                  [m \in Mutants |-> IF m \in covered[r] THEN found[m] ELSE @[m]]]
  /\ Goto(r, "store")
  /\ todo' = [todo EXCEPT ![r] = covered[r]]
  /\ UNCHANGED <<files, plans, at, janitors, alone>>

\* store_entry up to the first path.exists().
Store(r, m) ==
  /\ pc[r] = "store" /\ m \in todo[r]
  /\ IF entry[KeyOf[m]] = NoFile THEN Begin(r, m, "mkdir") ELSE Skip(r, m)
  /\ UNCHANGED <<files, plans, report, janitors, alone>>

\* The survivors that --verify-survivors finds killed in isolation.  Only
\* covered_work is looked at: what came from the cache is not run again.
FalseSurvivors(r) ==
  {m \in covered[r] :
     mode[r] = "verify" /\ report[r][m] = "survived" /\ Isolated[m] = "killed"}

Verify(r) ==
  /\ pc[r] = "store" /\ todo[r] = {}
  /\ Goto(r, "correct")
  /\ flips' = [flips EXCEPT ![r] = FalseSurvivors(r)]
  /\ todo' = [todo EXCEPT ![r] = FalseSurvivors(r)]
  /\ UNCHANGED <<files, mode, covered, at, report, janitors, alone>>

CorrectIfAbsent(r, m) ==
  /\ pc[r] = "correct" /\ m \in todo[r]
  /\ IF entry[KeyOf[m]] = NoFile THEN Begin(r, m, "mkdir") ELSE Skip(r, m)
  /\ UNCHANGED <<files, plans, report, janitors, alone>>

\* force_update_entry has no path.exists().
ForceUpdate(r, m) ==
  /\ pc[r] = "correct" /\ m \in todo[r]
  /\ Begin(r, m, "mkdir")
  /\ UNCHANGED <<files, plans, report, janitors, alone>>

\* apply_verification_corrections.
Finish(r) ==
  /\ pc[r] = "correct" /\ todo[r] = {}
  /\ report' = [report EXCEPT ![r] =
                  [m \in Mutants |-> IF m \in flips[r] THEN "killed" ELSE @[m]]]
  /\ Goto(r, "done")
  /\ UNCHANGED <<files, plans, at, todo, janitors, alone>>

---------------------------------------------------------------------------
(* The file operations of store_entry and force_update_entry               *)

PairedByPosition(r) == report[r][CHOOSE m \in covered[r] : TRUE]

\* The verdict the entry is to say: found by name, in any order of results.
Data(r) == IF Correcting(r) THEN "killed" ELSE report[r][at[r]]

\* create_dir_all, taken as one step.
MakeDir(r) ==
  /\ pc[r] = "mkdir"
  /\ dirs' = dirs \cup {BucketOf[Key(r)]}
  /\ Goto(r, "create")
  /\ UNCHANGED <<entry, tmp, plans, at, todo, report, janitors, alone>>

CreateInPlace(r) ==
  /\ pc[r] = "create"
  /\ IF BucketOf[Key(r)] \in dirs
     THEN /\ entry' = [entry EXCEPT ![Key(r)] = Torn]
          /\ Goto(r, "write") /\ UNCHANGED todo
     ELSE Fail(r) /\ UNCHANGED entry
  /\ UNCHANGED <<tmp, dirs, plans, at, report, janitors, alone>>

\* fs::write opens the file ...
CreateTmp(r) ==
  /\ pc[r] = "create"
  /\ IF BucketOf[Key(r)] \in dirs
     THEN /\ tmp' = [tmp EXCEPT ![MyTmp(r)] = Torn]
          /\ Goto(r, "write") /\ UNCHANGED todo
     ELSE Fail(r) /\ UNCHANGED tmp
  /\ UNCHANGED <<entry, dirs, plans, at, report, janitors, alone>>

\* ... and writes it, also when its name has been removed meanwhile.
WriteTmp(r) ==
  /\ pc[r] = "write"
  /\ tmp' = IF tmp[MyTmp(r)] = NoFile THEN tmp
            ELSE [tmp EXCEPT ![MyTmp(r)] = Data(r)]
  /\ Goto(r, IF Correcting(r) THEN "rename" ELSE "recheck")
  /\ UNCHANGED <<entry, dirs, plans, at, todo, report, janitors, alone>>

RecheckKeepingTmp(r) ==
  /\ pc[r] = "recheck"
  /\ IF entry[Key(r)] = NoFile
     THEN Goto(r, "rename") /\ UNCHANGED todo
     ELSE Handled(r, "store")
  /\ UNCHANGED <<files, plans, at, report, janitors, alone>>

\* The second path.exists() of store_entry.
Recheck(r) ==
  /\ pc[r] = "recheck"
  /\ IF entry[Key(r)] = NoFile
     THEN Goto(r, "rename") /\ UNCHANGED <<tmp, todo>>
     ELSE tmp' = [tmp EXCEPT ![MyTmp(r)] = NoFile] /\ Handled(r, "store")
  /\ UNCHANGED <<entry, dirs, plans, at, report, janitors, alone>>

\* fs::rename replaces whatever is there.
Rename(r) ==
  /\ pc[r] = "rename"
  /\ IF tmp[MyTmp(r)] = NoFile
     THEN Fail(r) /\ UNCHANGED <<entry, tmp>>
     ELSE /\ entry' = [entry EXCEPT ![Key(r)] = tmp[MyTmp(r)]]
          /\ tmp' = [tmp EXCEPT ![MyTmp(r)] = NoFile]
          /\ Handled(r, IF Correcting(r) THEN "correct" ELSE "store")
  /\ UNCHANGED <<dirs, plans, at, report, janitors, alone>>

\* Killed, out of disk, or an error of another part of the run.
Crash(r) ==
  /\ Running(r)
  /\ Goto(r, "crashed")
  /\ UNCHANGED <<files, plans, at, todo, report, janitors, alone>>

---------------------------------------------------------------------------
(* gc and clean                                                            *)

JGoto(j, l) == jpc' = [jpc EXCEPT ![j] = l]

\* In a directory that exists; it may be empty and fill meanwhile.
JanitorStart(j, command) ==
  /\ jpc[j] = "idle"
  /\ JGoto(j, command)
  /\ jtodo' = [jtodo EXCEPT ![j] = dirs]
  /\ alone' = {r \in alone : ~Running(r)}
  /\ UNCHANGED <<files, pc, plans, at, todo, report, victims>>

ScanEveryFile(j, b) ==
  /\ jpc[j] = "scan" /\ b \in jtodo[j]
  /\ jtodo' = [jtodo EXCEPT ![j] = @ \ {b}]
  /\ victims' = [victims EXCEPT ![j] =
       @ \cup {k \in Keys : BucketOf[k] = b /\ entry[k] # NoFile}
         \cup {f \in Runs \X Keys : BucketOf[f[2]] = b /\ tmp[f] # NoFile}]
  /\ UNCHANGED <<files, pc, plans, at, todo, report, jpc, alone>>

\* read_dir of one bucket: only *.json is listed, never a temporary file.
Scan(j, b) ==
  /\ jpc[j] = "scan" /\ b \in jtodo[j]
  /\ jtodo' = [jtodo EXCEPT ![j] = @ \ {b}]
  /\ victims' = [victims EXCEPT ![j] =
       @ \cup {k \in Keys : BucketOf[k] = b /\ entry[k] # NoFile}]
  /\ UNCHANGED <<files, pc, plans, at, todo, report, jpc, alone>>

\* By age, then by size: which of the listed files go is left open.
ChooseVictims(j, S) ==
  /\ jpc[j] = "scan" /\ jtodo[j] = {}
  /\ JGoto(j, "prune")
  /\ victims' = [victims EXCEPT ![j] = S]
  /\ UNCHANGED <<files, pc, plans, at, todo, report, jtodo, alone>>

\* The file goes even if it was replaced since it was listed.
Prune(j, k) ==
  /\ jpc[j] = "prune" /\ k \in victims[j]
  /\ entry' = [entry EXCEPT ![k] = NoFile]
  /\ victims' = [victims EXCEPT ![j] = @ \ {k}]
  /\ UNCHANGED <<tmp, dirs, pc, plans, at, todo, report, jpc, jtodo, alone>>

ListBuckets(j) ==
  /\ jpc[j] = "prune" /\ victims[j] = {}
  /\ JGoto(j, "rmdir")
  /\ jtodo' = [jtodo EXCEPT ![j] = dirs]
  /\ UNCHANGED <<files, pc, plans, at, todo, report, victims, alone>>

RemoveBucket(j, b) ==
  /\ jpc[j] = "rmdir" /\ b \in jtodo[j]
  /\ dirs' = IF IsEmpty(b) THEN dirs \ {b} ELSE dirs
  /\ jtodo' = [jtodo EXCEPT ![j] = @ \ {b}]
  /\ UNCHANGED <<entry, tmp, pc, plans, at, todo, report, jpc, victims, alone>>

\* remove_dir_all: every file of a directory, then the directory.
CleanEntry(j, k) ==
  /\ jpc[j] = "clean" /\ entry[k] # NoFile
  /\ entry' = [entry EXCEPT ![k] = NoFile]
  /\ UNCHANGED <<tmp, dirs, pc, plans, at, todo, report, janitors, alone>>

CleanTmp(j, r, k) ==
  /\ jpc[j] = "clean" /\ tmp[<<r, k>>] # NoFile
  /\ tmp' = [tmp EXCEPT ![<<r, k>>] = NoFile]
  /\ UNCHANGED <<entry, dirs, pc, plans, at, todo, report, janitors, alone>>

CleanBucket(j, b) ==
  /\ jpc[j] = "clean" /\ b \in dirs /\ IsEmpty(b)
  /\ dirs' = dirs \ {b}
  /\ UNCHANGED <<entry, tmp, pc, plans, at, todo, report, janitors, alone>>

\* Finished, refused by a directory that filled again, or killed.
JanitorEnds(j) ==
  /\ Cleaning(j)
  /\ JGoto(j, "done")
  /\ UNCHANGED <<files, pc, plans, at, todo, report, jtodo, victims, alone>>

---------------------------------------------------------------------------
RunStep(r) ==
  \/ \E options \in Modes : Start(r, options)
  \/ \E m \in Mutants : LookUp(r, m) \/ Store(r, m) \/ ForceUpdate(r, m)
  \/ \E found \in [covered[r] -> Verdicts] : Execute(r, found)
  \/ Read(r) \/ Verify(r) \/ Finish(r)
  \/ MakeDir(r) \/ CreateTmp(r) \/ WriteTmp(r) \/ Recheck(r) \/ Rename(r)
  \/ Crash(r)

JanitorStep(j) ==
  \/ \E command \in {"scan", "clean"} : JanitorStart(j, command)
  \/ \E b \in Buckets : Scan(j, b) \/ RemoveBucket(j, b) \/ CleanBucket(j, b)
  \/ \E S \in SUBSET victims[j] : ChooseVictims(j, S)
  \/ \E k \in Keys : Prune(j, k) \/ CleanEntry(j, k)
  \/ \E r \in Runs, k \in Keys : CleanTmp(j, r, k)
  \/ ListBuckets(j) \/ JanitorEnds(j)

Next == (\E r \in Runs : RunStep(r)) \/ (\E j \in Janitors : JanitorStep(j))

Spec == Init /\ [][Next]_vars

---------------------------------------------------------------------------
(* Properties                                                              *)

\* Whatever is killed and whenever, a file under the name of an entry holds a
\* whole verdict: load_entry never meets a "Corrupted cache entry".
EntriesAreWhole == \A k \in Keys : entry[k] # Torn

\* Runs that share a directory never make each other fail, and what a killed
\* run leaves behind never makes a later one fail: a file operation of a run
\* fails only after somebody has started a gc or a clean.
OnlyJanitorsFailRuns ==
  (\E r \in Runs : pc[r] = "failed") => (\E j \in Janitors : jpc[j] # "idle")

\* A temporary file outlives its run only if the run was cut short: every path of
\* store_entry and force_update_entry consumes it.  gc never would.
NoLeftovers ==
  \A r \in Runs, k \in Keys :
    tmp[TmpPath(r, k)] # NoFile =>
      pc[r] \in {"write", "recheck", "rename", "crashed"}

\* A run that had the directory to itself leaves there exactly the verdicts it
\* reports, hits, fresh results and corrections alike.
SoloRunCachesWhatItReports ==
  [][\A r \in alone : Running(r) /\ pc'[r] = "done" =>
       \A m \in Mutants : entry'[KeyOf[m]] = report'[r][m]]_vars

\* The files implement the map: every entry and every report comes from a test
\* that was run, whatever the order of the file operations of all processes.
VC == INSTANCE VerdictCache WITH
        NoVerdict <- NoFile,
        cache     <- entry,
        tested    <- [r \in Runs |-> {m \in covered[r] : report[r][m] # NoFile}]
ImplementsVerdictCache == VC!Spec

\* "the stale Survived entry must be replaced with the correct Killed result so
\* that subsequent runs (which may hit the cache) get the right answer"
\* (src/cache.rs:282): a correction is not undone by a run that is under way.
CorrectionSticks ==
  \A r \in Runs : pc[r] = "done" =>
    \A m \in flips[r] : entry[KeyOf[m]] # "survived"

\* "re-tests all survived mutants in --isolate mode.  Result discrepancies are
\* corrected" (docs/internals/architecture.md:450): no survivor reported by a
\* verified run would be killed in isolation.
VerifiedSurvivorsAreReal ==
  \A r \in Runs : pc[r] = "done" /\ mode[r] = "verify" =>
    \A m \in Mutants : report[r][m] = "survived" => Isolated[m] = "survived"

\* "If the function didn't change, the result holds" (docs/internals/
\* architecture.md:249): in a project nobody edits, whose workers leak nothing,
\* a cached verdict is one that the mutant itself would get.
UnchangedResultHolds ==
  \A r \in Runs : pc[r] = "done" =>
    \A m \in Mutants : report[r][m] \in Warm[m]
===============================================================================
