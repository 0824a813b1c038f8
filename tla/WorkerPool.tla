------------------------------ MODULE WorkerPool ------------------------------
(***************************************************************************)
(* The worker pool of irradiate: the dispatch loop of src/orchestrator.rs  *)
(* (one tokio task), the handshake task and the forwarding task of every   *)
(* connection, and the pytest worker processes of harness/worker.py.       *)
(*                                                                         *)
(* A worker is named by its process.  The code numbers connections in      *)
(* accept order and keys its maps by that number; a process connects at    *)
(* most once, so the number and the process name each other.               *)
(*                                                                         *)
(* The dispatch loop is sequential: pc names the point it has reached.     *)
(* Everything else runs at any time between two of its steps.              *)
(***************************************************************************)
EXTENDS Integers, FiniteSets, Sequences, SequencesExt

CONSTANTS
  Mutants,         \* the work items of the run
  EstimatedSecs,   \* [Mutants -> Nat]: WorkItem.estimated_duration_secs
  Workers,         \* every process the run may ever spawn (bounds respawning)
  InitialWorkers,  \* the processes of the PreSpawnedPool
  CrashFactor,     \* max_crashes is this many crashes per initial worker: 3
  UsizeModulus,    \* 2^64 in the code: pending_accepts wraps modulo this
  ExitCodes,       \* exit codes the tests of a mutant may produce
  MemoryLimit,     \* is max_worker_memory_mb > 0
  Wrapped,         \* is config.python a launcher whose pid is not the worker's
  BootCrashes,     \* may a worker die before it connects
  AcceptFails,     \* may listener.accept() fail or its 30 s timeout elapse
  NoMutant         \* the None of an Option<String>

ASSUME PoolAssumption ==
  /\ IsFiniteSet(Mutants) /\ Mutants # {} /\ NoMutant \notin Mutants
  /\ EstimatedSecs \in [Mutants -> Nat]
  /\ IsFiniteSet(Workers) /\ InitialWorkers \subseteq Workers
  /\ CrashFactor \in Nat
  /\ UsizeModulus \in Nat /\ Cardinality(Workers) < UsizeModulus
  /\ ExitCodes \subseteq Int
  /\ {MemoryLimit, Wrapped, BootCrashes, AcceptFails} \subseteq BOOLEAN

VARIABLES
  pc,              \* the dispatch loop: "dispatch", "select", "health", ...
  queue,           \* work_queue (its order is that of EstimatedSecs)
  results,         \* results, in the order they are pushed
  idle,            \* idle_workers: a stack of worker ids
  active,          \* active_mutants: worker -> mutant, or NoMutant
  senders,         \* the keys of worker_senders
  pids,            \* the keys of worker_pids
  flagged,         \* workers_pending_memory_recycle
  pendingAccepts,  \* pending_accepts: usize
  crashCount,      \* crash_count
  suspects,        \* the workers a health check has still to look at
  child,           \* where the Child handle is: unconnected, processes, ...
  proc,            \* the worker process
  job,             \* the mutant a process is testing
  conn,            \* its connection and the task that serves it
  mailbox,         \* messages sent to the task, not yet forwarded (msg_rx)
  toWorker,        \* bytes on the socket to the worker
  fromWorker,      \* bytes on the socket from the worker
  events           \* WorkerEvents of this worker not yet handled (event_rx)

loopVars  == <<queue, results, idle, active, senders, pids, flagged,
               pendingAccepts, crashCount, suspects>>
procVars  == <<child, proc, job>>
wireVars  == <<conn, mailbox, toWorker, fromWorker, events>>
vars      == <<pc, loopVars, procVars, wireVars>>

-------------------------------------------------------------------------------
(* Messages and results.                                                   *)

Run(m)           == [kind |-> "Run", mutant |-> m]
Shutdown         == [kind |-> "Shutdown", mutant |-> NoMutant]
ReadyMsg         == [kind |-> "Ready", mutant |-> NoMutant, code |-> 0]
ResultMsg(m, c)  == [kind |-> "Result", mutant |-> m, code |-> c]
ErrorMsg(m)      == [kind |-> "Error", mutant |-> m, code |-> 0]
Event(k, m, s)   == [kind |-> k, mutant |-> m, status |-> s]
Verdict(m, s, h) == [mutant |-> m, status |-> s, by |-> h]

Statuses == {"Survived", "Killed", "NoTests", "TypeCheck", "Timeout", "Error"}

FromExitCode(c) ==
  CASE c = 0  -> "Survived"
    [] c = 1  -> "Killed"
    [] c = 33 -> "NoTests"
    [] c = 37 -> "TypeCheck"
    [] OTHER  -> "Error"

(* Where a result is pushed.  A MutantResult does not say: by is kept for  *)
(* the properties, no action reads it.                                     *)
Handlers == {"handle_result", "handle_error", "handle_disconnect",
             "handle_health_check", "handle_stuck", "dispatch_pending"}
Records == [mutant : Mutants, status : Statuses, by : Handlers]

MaybeMutant == Mutants \cup {NoMutant}
PcNames     == {"dispatch", "select", "health", "drain", "shutdown", "returned"}
ProcStates  == {"unborn", "booting", "collecting", "waiting", "running", "dead"}
ChildStates == {"none", "unconnected", "processes", "dropped"}
ConnStates  == {"none", "backlog", "handshake", "accepted", "failed", "open",
                "eof", "timedout", "closed"}
Answers     == {"Result", "Error"}
OrchestratorMessages == [kind : {"Run"}, mutant : Mutants] \cup {Shutdown}
WorkerMessages == [kind : Answers, mutant : Mutants, code : Int] \cup {ReadyMsg}
WorkerEvents ==
  [kind : Answers, mutant : Mutants, status : Statuses] \cup
  [kind : {"Connected", "AcceptFailed", "Disconnected"}, mutant : {NoMutant},
   status : {"Error"}]

MaxCrashes == CrashFactor * Cardinality(InitialWorkers)

(* Wrapping arithmetic on pending_accepts.                                 *)
IncForgotten(n) == n
Inc(n) == IF n = UsizeModulus - 1 THEN 0 ELSE n + 1
DecForgotten(n) == n
Dec(n) == IF n = 0 THEN UsizeModulus - 1 ELSE n - 1

(* kill(pid, 0) succeeds for a process that has exited and has not been    *)
(* reaped.  The orchestrator holds the Child without waiting on it, so its *)
(* own children stay zombies; behind a launcher the launcher reaps them.   *)
IsProcessAlive(w) == proc[w] # "dead" \/ ~Wrapped

(* prioritize_work_items: longest estimate first, ties in any order.       *)
Longest(S) == {m \in S : \A n \in S : EstimatedSecs[n] <= EstimatedSecs[m]}

-------------------------------------------------------------------------------
(* A definition named ...Forgotten, ...Early and the like, just before the *)
(* one it resembles, is that definition with a fault in it.  No action     *)
(* uses it; the properties below are shown to tell the two apart.          *)

Init ==
  /\ pc = "dispatch"
  /\ queue = Mutants
  /\ results = <<>>
  /\ idle = <<>>
  /\ active = [w \in Workers |-> NoMutant]
  /\ senders = {}
  /\ pids = {}
  /\ flagged = {}
  /\ pendingAccepts = Cardinality(InitialWorkers)
  /\ crashCount = 0
  /\ suspects = {}
  /\ child = [w \in Workers |-> IF w \in InitialWorkers THEN "unconnected" ELSE "none"]
  /\ proc = [w \in Workers |-> IF w \in InitialWorkers THEN "booting" ELSE "unborn"]
  /\ job = [w \in Workers |-> NoMutant]
  /\ conn = [w \in Workers |-> "none"]
  /\ mailbox = [w \in Workers |-> <<>>]
  /\ toWorker = [w \in Workers |-> <<>>]
  /\ fromWorker = [w \in Workers |-> <<>>]
  /\ events = [w \in Workers |-> <<>>]

-------------------------------------------------------------------------------
(* The worker process (harness/worker.py).                                 *)

Up == pc # "returned"

(* main: import the harness and pytest, then connect.                      *)
WorkerConnect(w) ==
  /\ Up /\ proc[w] = "booting"
  /\ proc' = [proc EXCEPT ![w] = "collecting"]
  /\ conn' = [conn EXCEPT ![w] = "backlog"]
  /\ UNCHANGED <<pc, loopVars, child, job, mailbox, toWorker, fromWorker, events>>

(* pytest_runtestloop: collection is over, send ready.                     *)
WorkerReady(w) ==
  /\ Up /\ proc[w] = "collecting"
  /\ proc' = [proc EXCEPT ![w] = "waiting"]
  /\ fromWorker' = [fromWorker EXCEPT ![w] = Append(@, ReadyMsg)]
  /\ UNCHANGED <<pc, loopVars, child, job, conn, mailbox, toWorker, events>>

WorkerTake(w) ==
  /\ Up /\ proc[w] = "waiting" /\ toWorker[w] # <<>>
  /\ toWorker' = [toWorker EXCEPT ![w] = Tail(@)]
  /\ LET msg == Head(toWorker[w]) IN
       IF msg.kind = "Run"
       THEN /\ proc' = [proc EXCEPT ![w] = "running"]
            /\ job' = [job EXCEPT ![w] = msg.mutant]
       ELSE /\ proc' = [proc EXCEPT ![w] = "dead"]
            /\ UNCHANGED job
  /\ UNCHANGED <<pc, loopVars, child, conn, mailbox, fromWorker, events>>

WorkerAnswer(w, msg) ==
  /\ Up /\ proc[w] = "running"
  /\ proc' = [proc EXCEPT ![w] = "waiting"]
  /\ job' = [job EXCEPT ![w] = NoMutant]
  /\ fromWorker' = [fromWorker EXCEPT ![w] = Append(@, msg)]
  /\ UNCHANGED <<pc, loopVars, child, conn, mailbox, toWorker, events>>

(* The tests ended with an exit code, in a forked child or in process.     *)
WorkerResult(w) == \E c \in ExitCodes : WorkerAnswer(w, ResultMsg(job[w], c))

(* The forked child was killed by a signal, or the tests raised.           *)
WorkerFault(w) == WorkerAnswer(w, ErrorMsg(job[w]))

(* The process dies: a crash, or its exit once its socket is closed.       *)
WorkerDie(w) ==
  /\ Up
  /\ \/ proc[w] \in {"collecting", "waiting", "running"}
     \/ proc[w] = "booting" /\ BootCrashes
  /\ proc' = [proc EXCEPT ![w] = "dead"]
  /\ job' = [job EXCEPT ![w] = NoMutant]
  /\ UNCHANGED <<pc, loopVars, child, wireVars>>

-------------------------------------------------------------------------------
(* accept_handshake: read the ready message, report to the dispatch loop.  *)

HandshakeEnds(w, c, kind) ==
  /\ conn' = [conn EXCEPT ![w] = c]
  /\ events' = [events EXCEPT ![w] = Append(@, Event(kind, NoMutant, "Error"))]
  /\ UNCHANGED <<pc, loopVars, procVars, mailbox, toWorker>>

HandshakeReady(w) ==
  /\ Up /\ conn[w] = "handshake" /\ fromWorker[w] # <<>>
  /\ fromWorker' = [fromWorker EXCEPT ![w] = Tail(@)]
  /\ HandshakeEnds(w, "accepted", "Connected")

(* End of file, or worker_ready_timeout.                                   *)
HandshakeFailed(w) ==
  /\ Up /\ conn[w] = "handshake" /\ fromWorker[w] = <<>>
  /\ UNCHANGED fromWorker
  /\ HandshakeEnds(w, "failed", "AcceptFailed")

-------------------------------------------------------------------------------
(* spawn_worker_task: one select between the mailbox and the socket.       *)

TaskForward(w) ==
  /\ Up /\ conn[w] = "open" /\ mailbox[w] # <<>>
  /\ toWorker' = [toWorker EXCEPT ![w] = Append(@, Head(mailbox[w]))]
  /\ mailbox' = [mailbox EXCEPT ![w] = Tail(@)]
  /\ UNCHANGED <<pc, loopVars, procVars, conn, fromWorker, events>>

TaskRead(w) ==
  /\ Up /\ conn[w] = "open" /\ fromWorker[w] # <<>>
  /\ LET msg == Head(fromWorker[w])
         status == IF msg.kind = "Result" THEN FromExitCode(msg.code) ELSE "Error"
     IN events' = [events EXCEPT ![w] = Append(@, Event(msg.kind, msg.mutant, status))]
  /\ fromWorker' = [fromWorker EXCEPT ![w] = Tail(@)]
  /\ UNCHANGED <<pc, loopVars, procVars, conn, mailbox, toWorker>>

TaskDisconnects(w, c) ==
  /\ Up /\ conn[w] = "open" /\ fromWorker[w] = <<>>
  /\ conn' = [conn EXCEPT ![w] = c]
  /\ events' = [events EXCEPT ![w] = Append(@, Event("Disconnected", NoMutant, "Error"))]
  /\ UNCHANGED <<pc, loopVars, procVars, mailbox, toWorker, fromWorker>>

TaskEof(w) == proc[w] = "dead" /\ TaskDisconnects(w, "eof")

(* current_timeout elapses with nothing to read, whether the worker is     *)
(* testing a mutant, has not been sent one yet, or is idle.                *)
TaskTimeout(w) == TaskDisconnects(w, "timedout")

(* The sender was dropped and the mailbox is empty: break, with no event.  *)
TaskClosed(w) ==
  /\ Up /\ conn[w] = "open" /\ mailbox[w] = <<>> /\ w \notin senders
  /\ conn' = [conn EXCEPT ![w] = "closed"]
  /\ UNCHANGED <<pc, loopVars, procVars, mailbox, toWorker, fromWorker, events>>

-------------------------------------------------------------------------------
(* Child handles.  Dropping one kills its process (kill_on_drop); behind a *)
(* launcher the pids differ, the Child never reaches processes, and the    *)
(* worker is nobody's to kill.                                             *)

ReapForgotten(w) == proc
Reaped(w) == [proc EXCEPT ![w] = IF child[w] = "processes" THEN "dead" ELSE @]
Dropped(w) == [child EXCEPT ![w] = IF child[w] = "processes" THEN "dropped" ELSE @]
DropJob(w) == [job EXCEPT ![w] = IF child[w] = "processes" THEN NoMutant ELSE @]

(* respawn_worker, on top of the process table P and the handles C: a new  *)
(* process boots, or spawn() fails.                                        *)
RespawnWorker(P, C) ==
  \/ \E n \in Workers :
       /\ P[n] = "unborn"
       /\ proc' = [P EXCEPT ![n] = "booting"]
       /\ child' = [C EXCEPT ![n] = "unconnected"]
       /\ pendingAccepts' = Inc(pendingAccepts)
  \/ proc' = P /\ child' = C /\ UNCHANGED pendingAccepts

NoRespawn(P, C) == proc' = P /\ child' = C /\ UNCHANGED pendingAccepts

-------------------------------------------------------------------------------
(* The top of the loop: dispatch_pending, is_done, handle_stuck.           *)

CanDispatchLate == Len(idle) > 1 /\ queue # {}
CanDispatch == idle # <<>> /\ queue # {}

(* The task has ended and its half of the channel is gone.                 *)
SendFails(w) == w \in senders /\ conn[w] # "open"
SendWorks(w) == w \in senders /\ conn[w] = "open"

(* One iteration of dispatch_pending.  Without a sender the message is     *)
(* dropped with the mutant left active; a closed task records an error.    *)
DispatchOne(m) ==
  /\ pc = "dispatch" /\ CanDispatch /\ m \in Longest(queue)
  /\ LET w == Last(idle) IN
       /\ idle' = Front(idle)
       /\ queue' = queue \ {m}
       /\ IF SendFails(w)
          THEN /\ active' = [active EXCEPT ![w] = NoMutant]
               /\ results' = Append(results, Verdict(m, "Error", "dispatch_pending"))
          ELSE /\ active' = [active EXCEPT ![w] = m]
               /\ UNCHANGED results
       /\ mailbox' = IF SendWorks(w)
                     THEN [mailbox EXCEPT ![w] = Append(@, Run(m))]
                     ELSE mailbox
  /\ UNCHANGED <<pc, senders, pids, flagged, pendingAccepts, crashCount, suspects,
                 procVars, conn, toWorker, fromWorker, events>>

NoneActive == \A w \in Workers : active[w] = NoMutant

IsDoneEarly == Len(results) + 1 >= Cardinality(Mutants)
IsDoneEmpty == queue = {} /\ pendingAccepts = 0
IsDone ==
  \/ Len(results) >= Cardinality(Mutants)
  \/ Len(results) = 0 /\ NoneActive /\ queue = {} /\ pendingAccepts = 0

IsStuckHasty == idle = <<>> /\ NoneActive /\ queue # {} /\ senders = {}
IsStuck ==
  /\ idle = <<>> /\ NoneActive /\ queue # {}
  /\ pendingAccepts = 0 /\ senders = {}

LoopTop ==
  /\ pc = "dispatch" /\ ~CanDispatch
  /\ pc' = IF IsDone THEN "shutdown" ELSE IF IsStuck THEN "drain" ELSE "select"
  /\ UNCHANGED <<loopVars, procVars, wireVars>>

(* handle_stuck: the remaining items are errors.                           *)
DrainOne(m) ==
  /\ pc = "drain" /\ m \in Longest(queue)
  /\ queue' = queue \ {m}
  /\ results' = Append(results, Verdict(m, "Error", "handle_stuck"))
  /\ UNCHANGED <<pc, idle, active, senders, pids, flagged, pendingAccepts,
                 crashCount, suspects, procVars, wireVars>>

DrainEnd ==
  /\ pc = "drain" /\ queue = {}
  /\ pc' = "shutdown"
  /\ UNCHANGED <<loopVars, procVars, wireVars>>

HeldConnected == {w \in Workers : child[w] = "processes"}
Held == {w \in Workers : child[w] \in {"processes", "unconnected"}}

(* shutdown: tell every worker, wait at most five seconds, and drop (and   *)
(* so kill) the Child handles that are left.                               *)
Return ==
  /\ pc = "shutdown"
  /\ pc' = "returned"
  /\ proc' = [w \in Workers |-> IF w \in Held /\ ~Wrapped THEN "dead" ELSE proc[w]]
  /\ job' = [w \in Workers |-> IF w \in Held /\ ~Wrapped THEN NoMutant ELSE job[w]]
  /\ child' = [w \in Workers |-> IF w \in Held THEN "dropped" ELSE child[w]]
  /\ mailbox' = [w \in Workers |-> IF SendWorks(w) THEN Append(mailbox[w], Shutdown)
                                   ELSE mailbox[w]]
  /\ UNCHANGED <<loopVars, conn, toWorker, fromWorker, events>>

-------------------------------------------------------------------------------
(* The branches of the select.                                             *)

Selecting == pc = "select" /\ pc' = "dispatch"

AcceptConnection(w) ==
  /\ Selecting /\ pendingAccepts # 0 /\ conn[w] = "backlog"
  /\ conn' = [conn EXCEPT ![w] = "handshake"]
  /\ UNCHANGED <<loopVars, procVars, mailbox, toWorker, fromWorker, events>>

(* accept() returns an error, or nothing for 30 s.                         *)
AcceptFailure ==
  /\ Selecting /\ AcceptFails /\ pendingAccepts # 0
  /\ pendingAccepts' = Dec(pendingAccepts)
  /\ UNCHANGED <<queue, results, idle, active, senders, pids, flagged, crashCount,
                 suspects, procVars, wireVars>>

(* active_mutants.remove.                                                  *)
ClearedForgotten(w) == active
Cleared(w) == [active EXCEPT ![w] = NoMutant]

(* handle_disconnect holds a worker with a mutant to have timed out on it. *)
TimedOutIfConnected(w) == w \in senders
TimedOut(w) == active[w] # NoMutant

BudgetIgnored(n) == TRUE
BudgetLeft(n) == n < MaxCrashes

Receive(w, kind) ==
  /\ Selecting /\ events[w] # <<>> /\ Head(events[w]).kind = kind
  /\ events' = [events EXCEPT ![w] = Tail(@)]

HandleConnected(w) ==
  /\ Receive(w, "Connected")
  /\ pendingAccepts' = Dec(pendingAccepts)
  /\ child' = [child EXCEPT ![w] = IF Wrapped THEN @ ELSE "processes"]
  /\ pids' = pids \cup {w}
  /\ senders' = senders \cup {w}
  /\ conn' = [conn EXCEPT ![w] = "open"]
  /\ idle' = Append(idle, w)
  /\ UNCHANGED <<queue, results, active, flagged, crashCount, suspects, proc, job,
                 mailbox, toWorker, fromWorker>>

HandleAcceptFailed(w) ==
  /\ Receive(w, "AcceptFailed")
  /\ pendingAccepts' = Dec(pendingAccepts)
  /\ UNCHANGED <<queue, results, idle, active, senders, pids, flagged, crashCount,
                 suspects, procVars, conn, mailbox, toWorker, fromWorker>>

(* handle_result: record the verdict; a worker flagged for its memory is   *)
(* replaced while work remains, any other is idle again.                   *)
HandleResult(w) ==
  /\ Receive(w, "Result")
  /\ results' = Append(results, Verdict(Head(events[w]).mutant, Head(events[w]).status,
                                         "handle_result"))
  /\ active' = Cleared(w)
  /\ flagged' = flagged \ {w}
  /\ IF w \in flagged /\ queue # {}
     THEN /\ mailbox' = IF SendWorks(w)
                        THEN [mailbox EXCEPT ![w] = Append(@, Shutdown)]
                        ELSE mailbox
          /\ senders' = senders \ {w}
          /\ pids' = pids \ {w}
          /\ job' = DropJob(w)
          /\ RespawnWorker(Reaped(w), Dropped(w))
          /\ UNCHANGED idle
     ELSE /\ idle' = Append(idle, w)
          /\ UNCHANGED <<mailbox, senders, pids, procVars, pendingAccepts>>
  /\ UNCHANGED <<queue, crashCount, suspects, conn, toWorker, fromWorker>>

HandleError(w) ==
  /\ Receive(w, "Error")
  /\ results' = Append(results, Verdict(Head(events[w]).mutant, "Error", "handle_error"))
  /\ active' = Cleared(w)
  /\ idle' = Append(idle, w)
  /\ UNCHANGED <<queue, senders, pids, flagged, pendingAccepts, crashCount, suspects,
                 procVars, conn, mailbox, toWorker, fromWorker>>

(* handle_disconnect.  A worker with neither sender nor mutant was retired *)
(* on purpose.  One with a mutant is held to have timed out on it and is   *)
(* replaced; any other is a crash, replaced while the budget lasts.        *)
HandleDisconnected(w) ==
  LET clean == w \notin senders /\ active[w] = NoMutant
      crashed == ~clean /\ ~TimedOut(w)
  IN
  /\ Receive(w, "Disconnected")
  /\ pids' = pids \ {w}
  /\ flagged' = flagged \ {w}
  /\ senders' = senders \ {w}
  /\ active' = Cleared(w)
  /\ results' = IF TimedOut(w)
                THEN Append(results, Verdict(active[w], "Timeout", "handle_disconnect"))
                ELSE results
  /\ crashCount' = IF crashed THEN crashCount + 1 ELSE crashCount
  /\ job' = DropJob(w)
  /\ IF ~clean /\ queue # {} /\ (TimedOut(w) \/ BudgetLeft(crashCount'))
     THEN RespawnWorker(Reaped(w), Dropped(w))
     ELSE NoRespawn(Reaped(w), Dropped(w))
  /\ UNCHANGED <<queue, idle, suspects, conn, mailbox, toWorker, fromWorker>>

-------------------------------------------------------------------------------
(* The periodic checks.                                                    *)

(* handle_health_check looks at every active worker that has a pid; a tick *)
(* that finds them all alive changes nothing.                              *)
HealthTick ==
  /\ pc = "select"
  /\ suspects' = {w \in pids : active[w] # NoMutant /\ ~IsProcessAlive(w)}
  /\ suspects' # {}
  /\ pc' = "health"
  /\ UNCHANGED <<queue, results, idle, active, senders, pids, flagged, pendingAccepts,
                 crashCount, procVars, wireVars>>

HealthCheck(w) ==
  /\ pc = "health" /\ w \in suspects
  /\ suspects' = suspects \ {w}
  /\ crashCount' = crashCount + 1
  /\ results' = Append(results, Verdict(active[w], "Error", "handle_health_check"))
  /\ active' = Cleared(w)
  /\ senders' = senders \ {w}
  /\ pids' = pids \ {w}
  /\ IF queue # {} /\ BudgetLeft(crashCount')
     THEN RespawnWorker(proc, child)
     ELSE NoRespawn(proc, child)
  /\ pc' = IF suspects' = {} THEN "dispatch" ELSE "health"
  /\ UNCHANGED <<queue, idle, flagged, job, wireVars>>

(* handle_memory_check flags the workers over the limit.                   *)
MemoryTick ==
  /\ Selecting /\ MemoryLimit
  /\ \E over \in SUBSET {w \in pids \ flagged : proc[w] # "dead"} :
       over # {} /\ flagged' = flagged \cup over
  /\ UNCHANGED <<queue, results, idle, active, senders, pids, pendingAccepts, crashCount,
                 suspects, procVars, wireVars>>

-------------------------------------------------------------------------------
HandleEvent(w) ==
  \/ HandleConnected(w)
  \/ HandleAcceptFailed(w)
  \/ HandleResult(w)
  \/ HandleError(w)
  \/ HandleDisconnected(w)

(* The steps the dispatch loop takes whenever one is possible.             *)
LoopStep ==
  \/ \E m \in Mutants : DispatchOne(m) \/ DrainOne(m)
  \/ LoopTop \/ DrainEnd \/ Return \/ HealthTick
  \/ \E w \in Workers : AcceptConnection(w) \/ HandleEvent(w) \/ HealthCheck(w)

TaskStep(w) ==
  \/ HandshakeReady(w) \/ HandshakeFailed(w)
  \/ TaskForward(w) \/ TaskRead(w) \/ TaskEof(w) \/ TaskTimeout(w) \/ TaskClosed(w)

WorkerStep(w) ==
  \/ WorkerConnect(w) \/ WorkerReady(w) \/ WorkerTake(w)
  \/ WorkerResult(w) \/ WorkerFault(w) \/ WorkerDie(w)

(* The run is over: nothing more happens.                                  *)
Terminated == pc = "returned" /\ UNCHANGED vars

Next ==
  \/ LoopStep \/ AcceptFailure \/ MemoryTick
  \/ \E w \in Workers : TaskStep(w) \/ WorkerStep(w)
  \/ Terminated

Spec == Init /\ [][Next]_vars

(* The tokio runtime polls every ready task; the forwarding task's timer   *)
(* fires if nothing else happens; a spawned interpreter boots and connects *)
(* (or dies, where BootCrashes).  Nothing is assumed of a test that runs.  *)
(* Neither accept failure is assumed: see AcceptFailure.                   *)
Fairness ==
  /\ WF_vars(LoopStep)
  /\ \A w \in Workers :
       /\ WF_vars(HandshakeReady(w) \/ HandshakeFailed(w))
       /\ WF_vars(TaskRead(w))
       /\ WF_vars(TaskEof(w) \/ TaskTimeout(w))
       /\ WF_vars(TaskClosed(w))
       /\ WF_vars(WorkerConnect(w))

FairSpec == Spec /\ Fairness

-------------------------------------------------------------------------------
(* Properties.                                                             *)

(* Every variable has its type.                                            *)
TypeOK ==
  /\ pc \in PcNames
  /\ queue \subseteq Mutants
  /\ results \in Seq(Records)
  /\ idle \in Seq(Workers)
  /\ active \in [Workers -> MaybeMutant]
  /\ senders \subseteq Workers /\ pids \subseteq Workers
  /\ flagged \subseteq Workers /\ suspects \subseteq Workers
  /\ pendingAccepts \in 0 .. UsizeModulus - 1
  /\ crashCount \in Nat
  /\ child \in [Workers -> ChildStates]
  /\ proc \in [Workers -> ProcStates]
  /\ job \in [Workers -> MaybeMutant]
  /\ conn \in [Workers -> ConnStates]
  /\ mailbox \in [Workers -> Seq(OrchestratorMessages)]
  /\ toWorker \in [Workers -> Seq(OrchestratorMessages)]
  /\ fromWorker \in [Workers -> Seq(WorkerMessages)]
  /\ events \in [Workers -> Seq(WorkerEvents)]

Settled == {results[i].mutant : i \in DOMAIN results}
Assigned == {active[w] : w \in Workers} \ {NoMutant}

(* Every mutant is in exactly one place: waiting in the queue, active on   *)
(* one worker, or in the results once.  A mutant in none of them is lost;  *)
(* one in two of them is tested or reported twice.                         *)
Ledger ==
  /\ queue \cup Assigned \cup Settled = Mutants
  /\ queue \cap Assigned = {} /\ queue \cap Settled = {} /\ Assigned \cap Settled = {}
  /\ \A i, j \in DOMAIN results : results[i].mutant = results[j].mutant => i = j
  /\ \A v, w \in Workers : active[v] = active[w] /\ active[v] # NoMutant => v = w

(* What the caller is handed has one result for every mutant.              *)
ExactlyOneResult ==
  pc = "returned" =>
    \A m \in Mutants : \E i \in DOMAIN results :
      \A j \in DOMAIN results : results[j].mutant = m <=> j = i

(* Work waits only while every idle entry names a connected worker that    *)
(* has nothing to do, once: dispatch_pending pops ids without a check.     *)
IdleIsFree ==
  queue # {} =>
    \A i \in DOMAIN idle :
      /\ idle[i] \in senders /\ active[idle[i]] = NoMutant
      /\ \A j \in DOMAIN idle : idle[j] = idle[i] => i = j

(* The workers whose Connected or AcceptFailed is still to be handled.     *)
Awaited(w) ==
  \/ proc[w] # "unborn" /\ conn[w] \in {"none", "backlog", "handshake"}
  \/ \E i \in DOMAIN events[w] : events[w][i].kind \in {"Connected", "AcceptFailed"}

(* pending_accepts counts exactly the workers still to be heard of, though *)
(* three places increment and decrement it apart from the connections.     *)
PendingIsExact == pendingAccepts = Cardinality({w \in Workers : Awaited(w)})

(* The pool gives up on queued work only when no worker can still turn up. *)
NoPrematureGiveUp == pc = "drain" => \A w \in Workers : ~Awaited(w) /\ w \notin senders

(* However workers are recycled, time out or crash, no more of them run at *)
(* once than the pool was created with.                                    *)
PoolBounded ==
  Cardinality({w \in Workers : proc[w] \notin {"unborn", "dead"}})
    <= Cardinality(InitialWorkers)

(* No worker process outlives the run.                                     *)
NoOrphans == pc = "returned" => \A w \in Workers : proc[w] \in {"unborn", "dead"}

(* Each replacement is paid for: by a mutant its worker answered for,      *)
(* whatever the exit code (handle_result, which recycles), by one it was   *)
(* disconnected on (handle_disconnect, which times out), or by one of the  *)
(* crashes that stay below max_crashes.  A mutant settled anywhere else    *)
(* buys no worker, and workers that only crash are not replaced for ever.  *)
RespawnsPaidFor ==
  LET replacements == {w \in Workers \ InitialWorkers : proc[w] # "unborn"}
      answered == {i \in DOMAIN results :
                     results[i].by \in {"handle_result", "handle_disconnect"}}
      crashes == {k \in 1 .. crashCount : k < MaxCrashes}
  IN Cardinality(replacements) <= Cardinality(answered) + Cardinality(crashes)

(* run_worker_pool returns.                                                *)
RunReturns == <>(pc = "returned")

(* MutantLedger, with a mutant's line in the ledger read off the three     *)
(* places where it can be.                                                 *)
VerdictOf(m) == results[CHOOSE i \in DOMAIN results : results[i].mutant = m].status

LedgerView ==
  [m \in Mutants |-> IF m \in queue THEN "queued"
                     ELSE IF m \in Assigned THEN "assigned" ELSE VerdictOf(m)]

Abstract == INSTANCE MutantLedger WITH
  Verdicts <- Statuses, ErrorVerdict <- "Error",
  ledger <- LedgerView, returned <- (pc = "returned")

ImplementsLedger == Abstract!Spec

(* A mutant is reported as a timeout only when the timer of its worker has *)
(* fired.                                                                  *)
TimeoutMeansTimerFired ==
  [][\A w \in Workers :
       /\ active[w] # NoMutant /\ Len(results') > Len(results)
       /\ results'[Len(results')] = Verdict(active[w], "Timeout", "handle_disconnect")
       => conn[w] = "timedout"]_vars
===============================================================================
