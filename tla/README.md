# A TLA+ verification of irradiate

irradiate is a mutation tester for Python. It generates mutants of the functions
of a project, runs the project's tests against each of them in a pool of
pre-forked pytest workers, caches the verdicts by content and reports the
mutation score. This directory holds its formal model: specifications in TLA+,
small instances checked by TLC and theorems checked by TLAPS. Paths below are
relative to the repository (`src/orchestrator.rs` is the Rust file).

## 1. The system

| part | state | operations | hard behaviour |
|---|---|---|---|
| worker pool (`src/orchestrator.rs`) | work queue, results, idle stack, active mutants, senders, pids, `pending_accepts`, crash count, Child handles | dispatch, accept, handle each event, recycle, respawn, health and memory checks, shutdown | one loop, a task per connection and per handshake, processes that die at any time; events overtaken by the state they speak of |
| worker harness (`harness/worker.py`) | collected items, the socket buffer, the active mutant, a forked child | connect, ready, run, answer, shut down | fork per mutant, signals, CPU limit, exit codes |
| wire protocol (`src/protocol.rs`) | none | encode, decode, classify exit codes | unknown exit codes |
| result cache (`src/cache.rs`) | one file per key under `.irradiate/cache` | load, store, force_update, gc, clean, build a key | several processes on one directory, check-then-act on files |
| pipeline (`src/pipeline.rs`) | the mutants of a run, their results, the files under `mutants/` | generate, type-check, collect stats, schedule, execute, verify survivors, patch sources, report | stale verdicts and stats, in-place patches and failures between patch and restore |
| stats (`src/stats.rs`, `harness/*stats_plugin.py`) | `stats.json` and its fingerprint | collect, load, fingerprint | edits between collection and fingerprint |
| trampoline and import hook (`src/trampoline.rs`, `harness/import_hook.py`) | the active mutant, the hook's module cache | dispatch a call, resolve a module | re-entrant calls, generators, inherited methods |
| mutation engine (`src/tree_sitter_mutation.rs`, `src/regex_mutation.rs`, `src/string_scanner.rs`) | byte spans of one file | collect the mutations of every node | operators that meet on one node, equivalent mutants |
| code generation (`src/codegen.rs`, `src/trampoline.rs`) | lines of one file | name the mutants, replace the functions | the tree is mutated, the lines are rewritten: the two must agree |
| filters and reports (`src/git_diff.rs`, `src/type_check.rs`, `src/report.rs`) | none of their own | select mutants, merge and print results | matching by name and by line |

The pipeline runs its phases in order in one task. It creates the pool early
(`pre_spawn_pool`) so that workers boot during stats collection, looks every
mutant up in the result cache, gives the rest to the pool
(`run_worker_pool_pre_spawned`), stores what comes back, and may re-test the
survivors one process at a time. Pool and workers speak over a Unix socket: the
worker says `ready`, the pool sends `run` and `shutdown`, the worker answers
`result` or `error`. Inside the pool the tasks of the connections send
`WorkerEvent`s to the dispatch loop over one channel.

What makes each part correct: the pool settles every mutant exactly once,
returns, keeps its size and leaves no process behind; the harness answers each
run once with the verdict of the right mutant; a cache hit is the verdict a run
would produce; a file patched in place is restored whatever happens; replayed
stats belong to the files on disk; a call runs the body of the active mutant and
of no other.

## 2. Modules

| module | models | state and actions |
|---|---|---|
| `MutantLedger` | what `run_worker_pool` promises | one line per mutant: queued, assigned, or its final verdict; `Assign`, `Settle`, `GiveUp`, `Return` |
| `WorkerPool` | `src/orchestrator.rs`, and `harness/worker.py` as the pool sees it | see below |
| `MCWorkerPool` | instances of `WorkerPool` | |
| `SelectTimers` | the clocks of the select in `dispatch_work` | time left on the accept and health timers |
| `WorkerPool_proofs` | type correctness of the pool | |
| `WorkerPoolDirect_proofs` | the ledger invariants, and that the pool implements `MutantLedger` | |
| `WorkerPoolCounts_proofs` | the counts: pending accepts, live workers, replacements | |
| `SelectTimers_proofs` | the accept timer never rings | |
| `VerdictCache` | what `src/cache.rs` promises the runs that share it | a map from key to verdict, and the reports of the runs; `Hit`, `Test`, `Record`, `Correct`, `Amend`, `Lose` |
| `ResultCache` | `src/cache.rs`, and the phases of `src/pipeline.rs` that use it | see below |
| `MCResultCache` | instances of `ResultCache` | |
| `ResultCache_proofs` | types, integrity and refinement of the cache | |
| `MutationRun` | `src/pipeline.rs`, `src/stats.rs`, `src/cache.rs`: runs over a project, one after the other | see below |
| `MCMutationRun` | instances of `MutationRun` | |
| `MutationRun_proofs` | the invariants of `MutationRun` | |
| `CallsAndFilters` | the sequential parts that loop over lists (calls, imports, names, texts, filters, reports), each on all inputs of a set, and what each must satisfy | one action per part: it computes its output |
| `Algorithms` | the same for all sequential parts: `CallsAndFilters`, and those that go down a tree | |
| `CallsAndFilters_proofs` | the wrapper, the dispatch, the sample, the diff, the type errors, the reports, the patterns, the imports, the names and the texts, for every input | |
| `MutationOperators`, `RegexOperators` | `src/tree_sitter_mutation.rs`, `src/regex_mutation.rs` | operators over syntax trees |
| `MutantNames` | the selection of functions in `src/tree_sitter_mutation.rs`, the numbering in `src/codegen.rs` and `src/trampoline.rs` | the tree of a file, what is mutated and how, the names of the mutants |
| `SourceFile` | `mutate_file` of `src/codegen.rs` | the lines of a file, the file that replaces it |
| `StringScanner` | `src/string_scanner.rs`, and Python's tokenizer to compare it with | |
| `StringScanner_proofs` | the scanner and the comment stripper find what the tokenizer finds, in every text | |
| `Trampoline` | `src/trampoline.rs` | the wrapper's forwarding, the dispatch |
| `ImportHook` | `harness/import_hook.py` | the finder and its two caches, over a sequence of imports and invalidations |
| `TypeCheck`, `DiffFilter`, `Sampling`, `Globs`, `Report` | `src/type_check.rs`, `src/git_diff.rs`, `sample_mutants` and the filters of `src/pipeline.rs`, `src/report.rs` | |
| `MCAlgorithms` | the inputs of `Algorithms` | |

### WorkerPool

`DispatchState` is modelled field by field (`queue`, `results`, `idle`,
`active`, `senders`, `pids`, `flagged`, `pendingAccepts`, `crashCount`);
`unconnected` and `processes` are one function, `child`, that says where the
handle of each process is. `pc` is the point the dispatch loop has reached:

* `dispatch`: the top of the loop. `DispatchOne` is one turn of the `while` of
  `dispatch_pending`; when nothing can be dispatched `LoopTop` evaluates
  `is_done` and `handle_stuck` and goes to `shutdown`, `drain` or `select`.
* `select`: one branch of the select is taken, each an action:
  `AcceptConnection`, `AcceptFailure`, `HandleConnected`, `HandleAcceptFailed`,
  `HandleResult`, `HandleError`, `HandleDisconnected`, `HealthTick`, `MemoryTick`.
  Every handler is one action: between two awaits of the loop nothing else
  touches its state, and an await inside a handler (a send to a mailbox that has
  room) does not wait.
* `health`: the dead workers found by `handle_health_check` are dealt with one
  by one, in any order (they come out of a hash map).
* `drain`, `shutdown`, `returned`: `handle_stuck`'s drain, and the shutdown.

Tasks and workers move at any time in between. A process goes from `booting` to
`collecting`, `waiting` and `running`; `conn` follows its connection through the
backlog, the handshake task and the forwarding task (`TaskForward`, `TaskRead`,
`TaskEof`, `TaskTimeout`, `TaskClosed`). The channels (`mailbox`, `toWorker`,
`fromWorker`, `events`) are sequences. `events` is kept per worker: the code has
one channel, in which the events of different workers are interleaved in any
order, which is what handling the head of any of the sequences gives.

Names: the code numbers connections in accept order and workers in spawn order,
two numberings that may differ; both are resolved to the process, because a
process connects at most once and Child handles are matched to connections by
pid.

Four switches select environments: `Wrapped` (the interpreter is a launcher, so
that the pid of the Child is not the worker's: the Child stays in `unconnected`
and is not killed with the worker, and a dead worker no longer answers
`kill(pid, 0)`), `BootCrashes` (a worker may die before it connects),
`AcceptFails` (the two failure arms of the accept branch) and `MemoryLimit`.
In direct mode a dead worker *does* answer `kill(pid, 0)`: the pool holds the
Child without waiting for it, so the process stays a zombie. The health check
then never finds anything (`TicksDirect` proves it).

Left out, because no reachable state uses them: the `Warmup` message and the
`Ready` event after the handshake (the pool never sends `Warmup`), the branch for
`event_rx.recv()` returning `None` (the loop's own sender keeps the channel
open), messages that fail to parse (both ends are irradiate's own), a write error
of the forwarding task (it needs a second message behind one that failed to
write; a worker is sent a message only when nothing is under way to it). Left out
because no property depends on them: tracing, progress, stderr capture, RSS
numbers (any set of live workers may be over the limit), time (a timer may ring
whenever the code has it running; `SelectTimers` is about the one that cannot).

### ResultCache

The state is the directory itself (`entry`, the final files; `tmp`, the temporary
files of each process; `dirs`, the bucket directories) and the local variables of
the processes. There is no lock, so every file operation is an action, and any
process may be killed between two of them (`Crash`, `JanitorEnds`).

A run's `pc` follows `phase_execute` and `phase_verify_survivors`:

* `lookup`: `LookUp` is `load_entry` up to `path.exists()`, `Read` the rest. A
  miss puts the mutant into `covered` (`covered_work`). `Execute` is the pool or
  `run_isolated`: any results a worker may come to, in any order.
* `store`: `Store` is the first `exists()` of `store_entry`, then `MakeDir`,
  `CreateTmp`, `WriteTmp`, `Recheck`, `Rename`. `fs::write` is two steps, because
  a file is empty between its creation and its contents.
* `correct`: `Verify` computes the survivors found killed in isolation;
  `ForceUpdate` is `force_update_entry`, which takes the same steps without the
  checks; `Finish` is `apply_verification_corrections`.
* `failed`: a file operation failed and its `?` ended the run.

A gc scans the buckets, chooses its victims from what it listed, removes them one
by one and then the buckets that are empty; a clean removes what it finds, in any
order. Two processes run the same code on different memory, so any number of
each may be given (`Runs`, `Janitors`).

What the cache contains is what the tests say, so the tests are parameters:
`Isolated[m]` is the verdict of a fresh process and `Warm[m]` the verdicts a warm
worker may come to, which state left by earlier mutants makes uncertain (that is
what `--verify-survivors` is for). `alone` is a history variable: the runs that
had the directory to themselves from start to end.

Abstracted: the key is a constant function `KeyOf` (its ingredients are hashed, so
what matters is which mutants share one); a status other than `survived` counts
as `killed` (only survivors are verified, only `Killed` corrects them);
`create_dir_all` is one step (a clean that removes what it has just created
fails the run at that step or at the next one, with the same outcome); victims are
any subset of the listed files, whatever their ages and sizes. Left out:
`--no-cache` and mutants without a key (they never reach the directory), dry runs,
the sync hooks, edits of the project between runs (they change keys, so the run
speaks of other entries). No liveness is claimed: every loop is over a finite
list, and a run may be killed at any point.

### MutationRun

`ResultCache` is about two processes and one directory; `MutationRun` is about one
run after another and everything they leave to each other. Files: `made` (the text
each function under `mutants/` was generated from), `patched` (the source patch in
place), `fmap`, `stats`, `print` (the statistics and their fingerprint, two files
written at two moments) and `cache`. A project is `text`, the version of every
function, and `tests`, the version of the test files; `Reach` says which tests call
which function, for every text of the functions and version of the tests, as an edit of
either may change what is called. `Hashed` and `TestsHashed` say what the fingerprint of
the statistics covers: the functions under a `paths_to_mutate` that is a directory, and
the tests if `tests_dir` is one. `collect_py_files` reads nothing of a path that is a file.

`pc` is the phase, and the actions are those of `pipeline::run` in order: `Generate`
(all mutants, the filters, and the end of a run with nothing to do), `TypeCheck`,
`ValidateOnly`, `ReplayStats`, `CollectStats`, `CollectNothing`, `StatsFail`,
`Stamp`, `Inspect` (the refusals of `phase_stats`), `Schedule`, `Execute`,
`ExecuteFails`, `Verify`, then for every decorated function `SettlePatch` or
`PutPatch` and `RunPatch` or `PatchFails`, and `Finish`. `Edit` changes a function
or the tests at any moment, also under a run, and `Crash` ends a run anywhere but
within a phase (`ResultCache` has those crashes; within the collection, which is one
step, `Crash` may leave a truncated `stats.json`).

Details that matter and are modelled: workers are spawned before the statistics are
collected and import the tests then (`loaded`), while keys are computed from the
files at the time of scheduling; the function map is rewritten only when a function
has a trampoline; a collection that writes nothing is content with the file of an
earlier one; a patch runs in the trampoline phase too, where its name selects no
variant and the original is tested; `--no-stats` gives every mutant all tests, or
none when discovery finds none.

A verdict carries what it measured (`of`), the versions of the function and of the
tests that ran. `disturbed`, `stamped` and `borrowed` are history: the project was
edited under the run, the fingerprint was saved, a file of another collection was
taken over. The properties speak of verdicts and statistics that are not disturbed
or borrowed, because the code does not watch the project while it runs and does not
notice a stale file; section 6 lists what follows.

Assumptions: one mutant stands for all of a function; without an active mutation the
project's tests pass, because the clean run of `phase_stats` has shown it (with
`--no-stats` too); a function's text is its own (`KeyOf` names the function;
`ResultCache` has keys that are shared). The phase steps that only
read files are atomic: the edits that fall within one are those before or after it.

### Algorithms

Every sequential part is a module of operators translated from the source, and
`Algorithms` runs each on every input of a set: one initial state per input, one
action that computes. The parts without a recursive operator are in
`CallsAndFilters`, which `Algorithms` extends, so that theorems can speak of them.
The properties compare the output with a definition that knows nothing of the algorithm: Python's binding of arguments, its tokenizer
and its import system, the meaning of a comparison, the lines of an edit, the
wildcards as their comment describes them, the project's files.

Code generation reads a file twice: the collector sees the tree, `mutate_file`
walks the lines and finds the functions again by their first lines. `MutantNames` has
the tree of items and the collector, `SourceFile` the text of the tree (`Lines`) and the
writer. The shapes by which
the writer loses track are the flags of an item (a header over two lines, a string or
a comment at column 0, ...).

Where an algorithm does not do what it is compared with, the property names the
exceptions, each by the inputs it concerns, and holds on all the others; the
exceptions are listed in section 6.

## 3. Runs

| run | expects | question |
|---|---|---|
| `pool_direct` | pass | Is every mutant settled exactly once, does the run return, and do the counters stay exact, with crashes, timeouts and recycling? |
| `pool_hostile` | pass | Does the respawn budget hold when workers die booting, `accept()` fails, and the interpreter is a launcher? |
| `accept_timer` | violation of `SilentWorkersGivenUp` | Is a worker that dies before it connects given up after 30 s? |
| `pool_crash_timeout` | violation of `TimeoutMeansTimerFired` | Does the verdict Timeout mean that a timer rang? |
| `pool_accept_fails` | violation of `NoPrematureGiveUp` | Does the pool wait for workers on their way when `accept()` fails? |
| `cache_shared` | pass | Do two runs and a gc or clean that share a directory, killed at any point, keep entries whole, leave each other alone and report only verdicts that were found? |
| `cache_correction_lost` | violation of `CorrectionSticks` | Does a correction survive the runs that are under way? |
| `cache_unverified` | violation of `VerifiedSurvivorsAreReal` | Are all survivors of a verified run verified? |
| `cache_twins` | violation of `UnchangedResultHolds` | Is a cached verdict one the mutant itself would get? |
| `project_runs` | pass | Three runs with edits between and under them, each of which may be killed: is every reported verdict, every entry and every replayed statistic of the project as it stands, and is every mutant settled once? |
| `patch_verdicts_stale` | violation of `PatchVerdictsFollowTests` | Is a cached verdict on a source patch given up when the tests change? |
| `algorithms` | pass | Do the sequential parts compute what they are for, on every input of the sets? |

**Bounds.** `pool_direct` has two workers, one spare process and two mutants of
different estimates, one crash per initial worker allowed, and one exit code (what it
is classified as decides nothing). Two workers give every interleaving of two
connections; the spare lets one replacement connect, test and fail in its turn
(with none left, `spawn()` fails, which the code handles too); two mutants give
a queue that is empty for one decision and not for another, which is what
recycling, respawning and giving up turn on. `pool_hostile` has one initial
worker, two spares and three mutants, so that the budget of two crashes can be
exhausted and overstepped, recycling for memory, and two exit codes, a verdict and one
that makes an Error. It is explored while there is work in the queue (`WorkIsLeft`):
without work no worker is replaced, so the first state without is as far as the
budget can go. `UsizeModulus` is 16: pending_accepts is compared
with zero only, so any modulus above the number of workers shows the wrap.
`cache_shared` has two runs, one gc or clean, two mutants with a key each in one
bucket. A file operation of one process meets at most one other at a time, so two
runs and a janitor give every pair; two mutants give an entry that is dealt with
while the bucket is kept or removed for the other; one mutant is killed and one
survives in isolation, and both may survive in a warm worker. Both runs may be
in any mode, one after the other or overlapping, and the second may find what a
killed first one left. The violation runs are the smallest that show the case.
`project_runs` has two plain functions and a decorated one, two versions of the text
and of the tests, two edits (`MaxEdits`) and three runs (`MaxRuns`): an edit and its
reversal between a run that stores, a run that replays and a run that finds the old
entry again, or an edit under a run that the next one must not trust. Only one
plain function and the decorated one are edited (`Edited`): entries of different
functions never meet. The tests differ in which functions they call, and so do the texts
of the two that are edited, so that stale statistics make a difference. The decorated
function is in a file given by its own path, the others in a directory. `Settings` combines the options into three kinds of
runs: with verification, without statistics, and one with everything that narrows
or isolates; each option is on in one run and off in the next. `patch_verdicts_stale`
has one decorated function and two runs.
`algorithms` takes: every expression of some eighty in every kind of statement;
files of two or three items, with every shape of a function and of a class of two
members; texts of five tokens; signatures of four parameters with up to two
positional and three keyword arguments, of functions and of methods, whose first may be any
kind of parameter; functions in modules whose names begin
alike, with a base class; source trees of six files and three imports; two modules with up to
two errors; diffs of two files of up to five lines; samples of four operators with
up to five mutants; patterns of up to four characters or segments; two results in
four layouts of a project. Every rule of these algorithms looks at one item and its
neighbours, so that two or three items meet all its cases.

**Fairness** (`FairSpec`). The dispatch loop steps when it can (tokio polls a
ready task); a handshake ends, since `worker_ready_timeout` bounds it; a message
that has arrived is read; a forwarding task whose worker says nothing times out,
since `read_line` is under a timeout; a task whose sender is gone and whose
mailbox is empty ends; an interpreter that was spawned connects (unless
`BootCrashes`). Nothing is assumed of the tests: they may run for ever. No
fairness is assumed of `accept()` failing: `SelectTimers` shows that its timeout
cannot ring.

**Deadlock** is checked in `pool_direct`. It is off in `pool_hostile` and
`pool_accept_fails`, where the loop may wait for ever on a worker that died
before it connected or on a wrapped counter, in the cache runs, which end
when every process has, and in `algorithms`, which computes one output. `MutationRun`
may rest only when the runs are used up: in every phase the run can go on.

### What the violations show

* `accept_timer`: each iteration of the loop builds a new
  `timeout(30 s, listener.accept())`, and the 500 ms health tick ends every
  iteration. A worker that dies before it connects is never given up,
  `pending_accepts` stays above zero, and neither `is_done` nor `handle_stuck`
  can end the run. The error the branch would log is about this very case.
* `pool_crash_timeout`: a worker that crashes on its mutant is reported as a
  timeout, which also keeps the crash out of the budget; the documentation has
  Timeout mean that the tests ran too long and Error that the worker crashed.
* `pool_accept_fails`: the failure arms of the accept branch decrement
  `pending_accepts` for workers that are still on their way, which the comment
  above them warns against. With no worker counted the pool marks all the work
  as errors while its workers boot; in other orders the counter wraps.
* `cache_correction_lost`: two runs miss the same entry and both find a false
  survivor. One checks for the second time that no entry exists; the other stores,
  verifies and corrects; the first renames its temporary file over the
  correction, and later runs hit `survived` again.
* `cache_unverified`: a plain run caches a false survivor. A run with
  `--verify-survivors` hits that entry; verification considers only what was
  executed, so the survivor is reported as it is.
* `patch_verdicts_stale`: the key of a source patch is built from the mutant's
  test ids. There are none: with statistics because a patch's name is no function key
  of theirs, without because none are looked for; for no ids no test file is
  hashed. The verdict is replayed whatever becomes of the tests, which the
  documentation excludes.
* `cache_twins`: the key has the function's text but not its name, class or
  module. Two functions with the same text and the same tests share an entry, and
  the second mutant is reported with the verdict of the first.

## 4. Proofs

For every value of the constants allowed by `PoolAssumption`:

* `TypeCorrect`: the types, in every environment. `TypeOK` is not inductive: a
  worker answers for the mutant in `job`, so it must have one while it runs; a
  task turns what it reads into an event, so the ready message must have gone to
  the handshake; a health check settles the mutant of each suspect. `TypeInv`
  adds `Handshaken` and `SuspectsActive`.
* `LedgerHolds`, `OneResultEach`, `IdleWorkersAreFree`, under `~Wrapped`:
  the ledger, the contract with the caller and the safety of the unchecked pop.
  The inductive invariant `DirectInv` has two halves. `Books` speaks of the loop
  alone: the ledger, the idle stack, and what `pc` implies. `Link(w)` speaks of
  what is under way between the loop and one worker: on an open connection at
  most one message, about the mutant the worker is active on; on a closed one at
  most one answer and then `Disconnected`, last. `Link` is what makes an answer
  settle the right mutant, once; `IdleInv` is what makes a dispatch start from a
  worker without one. Each action is shown to keep both.
* `PoolImplementsLedger`, under `~Wrapped`: every step of the pool is a step of
  `MutantLedger` or a stutter, with a mutant's line read off the queue, the
  active map and the results. In particular no verdict is ever revised.
* `AcceptNeverTimesOut`: for all periods with the health period below the accept
  timeout, the accept timeout never elapses. The invariant: a waiting select has
  at least the difference of the two periods, plus what is left of the health
  period, on its accept timer.

* `PendingAcceptsAreExact` and `NeverGivesUpEarly`, under `~AcceptFails`, with or
  without a launcher. A worker is `Unheard` from its birth until its Connected or
  AcceptFailed event is handled, or until it dies before that; `PendingInv` says that
  `pendingAccepts` is the number of the unheard, a number three handlers raise and
  two lower. It needs `Heard(w)`: a handshake leaves exactly one such event. When
  `accept()` itself fails the count is wrong: that is the finding of
  `pool_accept_fails`.
* `NoWorkerOutlivesTheRun` and `PoolStaysBounded`, under `~Wrapped`. A process lives
  only while its Child handle is held (`Parented(w)`; behind a launcher the handle is
  the launcher's and this fails); `SlotInv` counts handles, not processes: of two
  workers of which one replaces the other, the handler that respawns has already
  dropped the handle of the first, so the handles never outnumber `InitialWorkers`.
* `EveryRespawnIsPaidFor`, without any hypothesis on the environment or on the exit
  codes, and `ReplacementsAreBounded`, under `~Wrapped`. `PaidInv` relates three
  quantities that no action changes together: the workers born after the start, the
  results of the two handlers that replace a worker whose mutant they settle
  (`Paying`) and the crashes below the budget (`SpentCrashes`). What a result says does
  not matter: a recycled worker may have answered with a code that makes an Error
  (99, `-signal`, any `SystemExit`), so a result carries the handler it comes from.
  `ReplacementsAreBounded` draws the consequence: at most one replacement per mutant
  and per crash, which is why a finite `Workers` is no restriction.

`~Wrapped` is a real hypothesis: behind a launcher the health check can settle a
mutant whose answer is already queued, and the ledger does not hold. The proofs of
the counts rest on the finite-cardinality facts of the library (`FS_AddElement`,
`FS_RemoveElement`, `FS_Subset`, `FS_Injection`).

For every number of runs, janitors, mutants, keys and buckets, and whatever the
tests say, provided a warm worker may come to the verdict of a fresh process
(`CacheAssumption`), starting from an empty directory:

* `CacheTypeCorrect`, `EntriesWhole`, `NothingLeftOver`, `RunsDoNotFailRuns`, from
  one inductive invariant `CacheInv`. `Flow(r)` is what the program counter of a
  run says of its lists: the entry it works on is one it still has to visit, it
  stores only mutants it has a verdict for, and it corrects only survivors that
  isolation kills. `Staged(r)` says what its temporary files are: only the one of
  the current operation, and past the write it holds the verdict of that mutant,
  which is why a rename never publishes a torn or a foreign verdict.
  `Undisturbed(r)` says that as long as no janitor has started, what the run saw
  a step ago is still there. Steps of janitors are dealt with at once by `Takes`:
  a janitor makes files disappear and does nothing else.
* `SoloRunsAreCached`, if no two mutants share a key (`OwnEntries`; the run
  `cache_twins` shows what happens otherwise): a run that nobody joined leaves in the
  directory exactly what it reports. `SoloInv` says that such a run is `Unshared`, and
  `Mirrored`, phase by phase: while it looks up, what it has read is the entry and
  what it missed has none; while it stores, what is left to store has no entry, so
  that the check before the write never skips one; while it corrects, what has been
  corrected says killed, and what is not to be corrected has the report's verdict.
* `FilesImplementMap`: every step is a step of `VerdictCache` or a stutter. The
  only steps that are not stutters are the read of an entry (`Hit`), the end of
  the tests (`Test`), the rename (`Record` or `Correct`), the correction of the
  report (`Amend`), and a janitor that removes an entry (`Lose`).

For every project, set of options, number of edits and of runs, and whatever the
tests find (`MutationRun_proofs`): all the properties of `project_runs`. Their
invariant is `RunInv`, whose parts follow a verdict on its way and need each other:

* `InMemory`: unless the project was edited under it, a run's generated files,
  loaded tests and cache keys are of the project as it stands. A key in memory
  never has an empty list of tests.
* `Gathered`: between collection and stamp the statistics are of the project, unless
  disturbed or borrowed; hence `FingerprintMatchesStats`, and with the comparison of
  fingerprints the statistics a run goes by have the project's. They are of the project if
  what the fingerprint leaves out has not changed either (`SameSeen`).
* `Entries`: an entry measures its key, and no two entries have one key. An entry
  without tests can only be of a patch, because of `InMemory`.
* `Current`: what is reported of a mutant is of the project. A replayed verdict is
  because its entry measures its key, and the key is of the project.
* `Unreached`, `Unspoken`: "no tests" is said by the statistics the run goes by.
* `Agreed`: what is executed was not in the cache; afterwards it is, with the
  report's verdict. A correction changes the entry of its own mutant only, since
  no two results of a run have the same key.
* `Split`: every mutant has been dropped, is to be executed, or has one verdict.

`EveryMutantOnce` needs `FS_Singleton` of the library for its cardinality.

For every input (`CallsAndFilters_proofs`, under `InputsAssumption`, which says what
inputs the program makes; TLC evaluates it on those of the run):

* `SampleIsRepresentative`: the sample, for any number of operators with any number of
  mutants and any value. The heart is `ShortBy`: after `i` operators either nothing
  remains of the target, or at most its exact share for the operators to come plus half
  a mutant for each of the `i` (`RoundingStep`). It is about rationals: the code
  multiplies doubles, which may round a share that lies between two numbers the
  other way; that moves half a mutant, which the bound allows for.
* `DispatchRunsItsOwnMutant`: the dispatch, for all names. `OneMark` says that the mark
  `__irradiate_` occurs once in the name of a mutant, so that a prefix that ends with it is
  the whole key of the function; `Variants`, that what follows the last dot is the name of
  the variant; `ResolvesItself`, that a lookup which no class of another module precedes
  finds the function. The assumption that no function of the program has the mark in its
  own name is needed: `startswith` and `rpartition` look at the text.

* `WrapperForwardsEveryCall`: the wrapper, for every signature, call and default. Three facts:
  `ParsingFindsAll`, that the lists `parse_param_names` collects are what Python binds by
  position, then `*args`, and by name (`ParsedUpTo` follows its `after_star` from part to
  part); `ForwardsAll`, that the trampoline is called with the value of every parameter
  before the star, the rest, and the names after it, with or without the implicit self;
  `RebindsTheSame`, that Python binds such a call to what it was bound to in the first
  place, although names were given by position and defaults explicitly. Names are distinct,
  a star comes at most once and `**kwargs` last, which is all that Python asks
  (`LegalSignature`). Excepted by name (`NamesNoSelf`) is a method whose first parameter is
  none with a name, `def m(*args)` say: the model follows the wrapper there too, and it fails
  (section 6).

* `DiffKeepsWhatChanged`: the diff filter, for any files and edits. `HunksHoldTheAdded` is
  about git: the hunks, each from a changed line that follows an unchanged one to the last
  before the next unchanged one, name exactly the numbers of the added lines (the
  number of a line is a count of those not dropped, `NewLinesCount`). `FileIsRead` is about
  the parser: the lines of one file's diff leave it with that file's name, newness and
  added lines and nothing of the files before, because `diff --git` resets all three.
  `ParsesEveryFile` adds them up. That git names a file once is needed.

* `TypeErrorsFallToTheirMutant`: the type checker filter, for any modules, functions, lengths
  of bodies and errors. `FileIsText` says what generated text is: a line either belongs to a
  definition, and then the nearest def line above it is that definition's, or to a table
  or wrapper, with no def of its own. `LineFallsToItsOwn` follows: of the ranges
  from one def to the next, exactly that of its own definition holds a line of a function
  that is not async. With it, a variant's messages less its original's are
  its own (`NewErrorsAreItsOwn`), and the lookup by name finds its module (`VariantIsFound`),
  or the last one that has that name. That errors are on lines of their file is assumed.

* `StoredReportsAgree`: the two reports, for every layout of files and paths and any results.
  `BaseIsAFront` is about `strip_base`: whatever the path is, what is stripped is a proper
  beginning of the file, so that there is a name (`MutantsAreWhole`). `KeyIsTheFile` compares it
  with `derive_file_key_from_name`, which knows only the first part of that name.
  `EveryResultIsRestored` takes the results through the `.meta` files one to one, in an order of
  its own, and `SameCounts` with them the score. It was this proof that showed what the
  layouts of the run had not: with a `Namesake` the later report names another
  file, and the property says so now. Where the first report is `Stripped`, or the later one
  not `AtTop`, nothing is claimed of the file.

* `PatternsMatchAsDocumented`: the patterns, for every path and pattern. `Reaches` says of two
  places, in the text and in the pattern, that the rest of the text can be cut so that every
  part of the rest of the pattern gets what it stands for; from one place to the next
  (`ReachesByOnePart`) it satisfies the equations of the two matchers (`StarTakesAny`,
  `OthersTakeOne`), the second only as long as the pattern does not end in two `**`
  (`SegsReach`). The matchers call themselves with less of the text or less of the pattern:
  `GridRecursion` and `GridInduction` are recursion and induction over both.

* `ImportsLoadTheirFile`: the finder, for every tree of sources, any copies and any sequence of
  imports. `IsFinder` says that whatever was asked and forgotten before, its cache holds only what it
  would find now (`FinderFinds`); the scan it makes when it is created would not, of a package that
  is also a module, but the harness has it forgotten at once. `CopiesAreFound` compares it
  with Python for one part of a name, and `LoadsWhatIsFound` goes down the parts: a part that Python
  does not find, or finds to be a module, ends both.

* `EveryMutantHasItsName`: the names of a file's mutants, for every file and any number of
  mutations in a body. `FlatHasPlaces` says of a list of lists that every element of their
  concatenation has a place of its own, a row and a column. With it a trampoline's mutant is its
  function and its number (`KeysAreUnique`); a source patch is told from its equals by how many come
  before it in the file (`CountedApart`), which is why the count must not start over with a function;
  and the marks of the three ways differ. One number stands for the mutations of every body.

* `TextIsReadAsPythonReadsIt`: the scanner, for every text of whole tokens in which no
  triple-quoted string holds a quote of its own kind (`StringScanner_proofs`). The lexer takes a
  token of code or a character of a string, the scanner a character or three quotes, and it does not
  remember how its string began, so that it may take a string of two quotes and the next one
  for three, or the other way round. `Beside` lists the four places it can be at: the lexer's own,
  past two quotes the lexer has still to read, past one, or before a triple quote the
  lexer has begun. `StaysBeside` shows for every kind of character that there are no others, with one step of the
  scanner to a step of the lexer, two or none. `LexArrives` gives the lexer's last place between
  tokens, the end of the text or its comment, together with induction along the way
  (`Passes`); there only the first of the four remains (`ScanFollows`). The comment stripper reads
  no triple quotes, but three quotes leave it where a triple quote leaves the lexer
  (`SeekTriple`), so that it stops where the comment begins (`StripsToComment`).

Sums, remainders, the reading of a parameter list, of a diff and of a text are recursive functions. That they exist
(`Recursion`), that there is one (`SameSteps`) and what they are at every index is proved by induction in the form of
sets: `SetInduction`, a set with 0 and the successor of each of its members contains all
numbers, follows from the library's well-foundedness of the naturals (`WFMin`), which
takes no operator as its parameter.

Only model-checked: `MutantsAreDistinct`, `RelationalMutantsSuffice` and `FileIsRewrittenInPlace`,
about programs and the text of files. They are about RECURSIVE operators, which the prover does
not take, and about what these compute for trees of any depth, which is induction over data.
Of `RelationalMutantsSuffice` nothing is lost by it: the run has every case there is, six comparisons with
and without len() against zero, of which it speaks of the six that are not `Insufficient`. `MutantsAreDistinct` is no theorem: a program in which two neighbours are equal, such as
two equal branches of a match, has equal mutants, and the programs of the run have no such
neighbours. `RunReturns` is liveness under fairness, out of the prover's reach, as is ENABLED.

## 5. Plan

Done: the pool, the cache, the project and its runs, the sequential parts. Left, in
this order:

1. `WorkerHarness`: the forked child, signals, exit codes, pipes and the read
   timer, refining the worker of `WorkerPool`.
2. `MutationRun` as the composition of `ResultCache` and `MutantLedger`: its
   `Execute` is the ledger's `Return`, its lookups and stores are steps of `VerdictCache`.

## 6. What the code does that a reader may not expect

Found while the properties were stated. The runs that expect a violation have the
ones that contradict a document and depend on an order of steps; the rest are
excepted by name in the properties, or lie outside them.

Runs over a project:

* Statistics of a run with `--diff` watch only the changed functions and are replayed,
  with the same fingerprint, by a run over all of them: what they did not watch
  counts as untested (`UntestedIsUnreached` speaks of the functions they watched).
* A `paths_to_mutate` or `tests_dir` that is one file contributes nothing to the fingerprint:
  `collect_py_files` lists directories (`src/stats.rs:122`), although the comment above it
  speaks of all files under them. Statistics are replayed after an edit of that file, and
  a function that is called since counts as untested (`SingleFilesUnchanged`). What lies in
  hidden directories or does not end in `.py` is not hashed either, and not modelled.
* `save_stats_fingerprint` comes before the exit status is inspected
  (`src/pipeline.rs:556`): a failed collection is stamped and fails the next run too.
* A collection that ends without writing takes over an older `stats.json`
  (`borrowed`).
* Patches are tested in the trampoline phase as well, unmutated; `--sample` and the
  filter by name do not narrow them; with `--covered-only` all of them are NoTests.
* Discovery ignores pytest's exit code; an empty list makes every mutant NoTests.
* Byte offsets of a patch are those of generation; an edit under the run moves them.

Mutation operators and regular expressions (`RelationalMutantsSuffice`,
`MutantsAreDistinct`):

* "3 mutants suffice", says the comment on `COMPOP_SUFFICIENT`
  (`src/tree_sitter_mutation.rs:94`, as does `src/docs/internals/mutation-pruning.md`), and Kaminski's table says so of `<=`, `>=`, False for
  `==` and of `<`, `>`, True for `!=`; the code has these two rows the other way round, and
  tests that kill every mutant of either may leave two faults (`<=` and `>=`, or `<` and `>`)
  alive. The pairs left out as equivalent for `len(x) > 0` and `len(x) <= 0`
  (`src/tree_sitter_mutation.rs:707`) are not: tests without an empty `x` kill all other
  mutants. `RelationalMutantsSuffice` excepts these comparisons (`Insufficient`).
* `f(key=None)` is mutated into itself; the condition of a statement that is a
  literal gets one mutant twice; a pattern that is one anchor, `not not x` and `~~x` too.
* A ternary's swap of branches and the negation of its condition are one mutant in meaning.
* Default arguments of a trampolined function are mutated in variants that the
  wrapper calls with its own defaults.

Code generation (`LosesTrack`, `Redefines`): a class is known by a one-line header up
to the next class or line at column 0, so methods behind either are collected and
never written, and all their mutants survive; a comment at column 0 ends a body; a
statement that opens a triple-quoted string right behind a mutated function is
dropped; an unmutated definition of the same name above takes the trampoline; a
comment between decorator and `def` repeats the decorator; a plain-quoted docstring
puts the runtime before `from __future__`; a redefined function shares its names.

Scanner: a triple-quoted string that holds its own quote is mis-lexed
(`ScannerFollowsTheLexer`).

Wrapper (`NamesNoSelf`): a method is looked up by the text of its first parameter
(`extract_first_param_name`, `src/trampoline.rs:66` to `90`). For `def m(*args)` that is
`_type(*args)`, which fails unless `m` is called with its instance alone; in a class method it is
an attribute of the tuple, which always fails. A function in a class that takes nothing by
position, and so can be called through the class only, gets `_type(*)`, which does not parse,
`_type(**kwargs)`, or a `self` that it has not; such calls are not modelled.

Dispatch: a class of the same name in another module that comes first in the lookup
gets its own trampoline's original (`Shadowed`). `__class_getitem__`, a class method without
the decorator, is looked up by `_type(cls)`, the metaclass, and not found; no dispatch of the
model is one (`DispatchesAssumption`).

Import hook: the harness invalidates the finder's scan as it is imported, and
`_resolve` then takes a module before a package of its name (`Twin`); while the finder is off
`sys.meta_path` to ask the others, an import of another thread loads originals.

Filters: `type_check.rs` looks for `def`, so that an error in an async function is
blamed on the function above, and keys functions without their module
(`SharedKey`, `Placed`); a deletion does not touch a function; the shares of a sample are capped in the order
of the operators' names, so that the last of them may get none, although the comment has
no operator unrepresented; two `**` at the end of a pattern do not match nothing.

Reports: only exit codes are stored, and a timeout's is that of an error; score
counts a timeout as nothing, the rates by operator as a kill. A file key is to be relative to
the project's root (`src/report.rs:288` and `352`), but the descriptor of a mutant has the path
relative to what was stripped, a source root or the parent of a package (`Stripped`), and
the `source` of such a file, which is read from the project's root, is empty; `irradiate
results` names a file that is not at the top of a source root by the first part of its
module's name (`AtTop`); `derive_file_key_from_name` looks for the first part of a module's name
below every path, and so finds `x/__init__.py` for `x.py`, the module of that name in
an earlier source root, and, where `src/p` is a path and has a module `p.py`, that
file for every mutant of the package `p` (`Namesake`).

Arithmetic: `parse_duration` wraps at 2^64 seconds; an integer literal of 2^63 - 1
overflows when one is added.

Harness and pool, outside the models: `read_line` in the select is not
cancel-safe; the pipes of a worker are not drained; a worker flagged for its memory
is recycled by a Result only; a child beyond its CPU limit is an Error; killing a worker
leaves its child.

## 7. Not modelled

See `PROJECT.json` for every component. Configuration and the command line turn text into the
options that `MutationRun` enumerates; progress and trace are output; harness
extraction writes fixed files. Within modelled components: starting a type checker and parsing
its output, git's merge base, HTML and annotations, hooks that sync a remote cache,
the forked child and pytest's fixtures, wall-clock time.
