-------------------------- MODULE WorkerPool_proofs --------------------------
(***************************************************************************)
(* Type correctness of WorkerPool, for every value of its constants.       *)
(*                                                                         *)
(* TypeOK is not inductive alone.  A worker answers for the mutant in its  *)
(* job, so the job must be one while it runs; the task turns whatever it   *)
(* reads into an event, so a Ready must never be read after the handshake; *)
(* a health check settles the mutants of its suspects, so each must have   *)
(* one.  TypeInv adds these facts: Handshaken, which follows a worker from *)
(* its birth to its first mutant, and SuspectsActive.                      *)
(***************************************************************************)
EXTENDS WorkerPool, FiniteSetTheorems, SequenceTheorems, TLAPS

(* The states of a connection no forwarding task serves yet.               *)
PreOpen == {"none", "backlog", "handshake", "accepted", "failed"}

(* A process, its connection and the one ready message keep in step.       *)
Handshaken(w) ==
  /\ job[w] # NoMutant => proc[w] = "running"
  /\ proc[w] = "running" => job[w] # NoMutant
  /\ proc[w] \in {"unborn", "booting"} => conn[w] = "none"
  /\ proc[w] = "collecting" => conn[w] \in {"backlog", "handshake", "failed"}
  /\ proc[w] \in {"unborn", "booting", "collecting"} => fromWorker[w] = <<>>
  /\ conn[w] \in PreOpen =>
       mailbox[w] = <<>> /\ toWorker[w] = <<>> /\ job[w] = NoMutant /\ w \notin senders
  /\ conn[w] \in {"none", "backlog", "handshake"} =>
       /\ Len(fromWorker[w]) <= 1 /\ events[w] = <<>>
       /\ fromWorker[w] # <<>> => Head(fromWorker[w]) = ReadyMsg
  /\ conn[w] = "accepted" =>
       /\ fromWorker[w] = <<>>
       /\ Len(events[w]) = 1 /\ events[w][1].kind = "Connected"
  /\ conn[w] \notin {"none", "backlog", "handshake", "failed"} =>
       \A i \in 1 .. Len(fromWorker[w]) : fromWorker[w][i].kind # "Ready"
  /\ conn[w] # "accepted" =>
       \A i \in 1 .. Len(events[w]) : events[w][i].kind # "Connected"

(* What a health check has still to look at had a mutant when it started.  *)
SuspectsActive ==
  /\ \A w \in suspects : active[w] # NoMutant
  /\ suspects # {} => pc = "health"

TypeInv == TypeOK /\ SuspectsActive /\ \A w \in Workers : Handshaken(w)

(* The invariant holds when dispatch_work starts.                          *)
LEMMA InitTypeInv == Init => TypeInv
<1> SUFFICES ASSUME Init PROVE TypeInv
  OBVIOUS
<1>1. Cardinality(InitialWorkers) \in 0 .. UsizeModulus - 1
  BY PoolAssumption, FS_Subset, FS_CardinalityType
<1>2. TypeOK
  BY <1>1, PoolAssumption DEF Init, TypeOK, PcNames, MaybeMutant, ChildStates, ProcStates,
     ConnStates
<1>3. SuspectsActive
  BY DEF Init, SuspectsActive
<1>4. \A w \in Workers : Handshaken(w)
  BY DEF Init, Handshaken, PreOpen
<1> QED
  BY <1>2, <1>3, <1>4 DEF TypeInv

-------------------------------------------------------------------------------
(* Sequences and replacements.                                             *)

(* What Append does to a typed sequence.                                   *)
LEMMA Appending ==
  ASSUME NEW S, NEW s \in Seq(S), NEW e \in S
  PROVE  /\ Append(s, e) \in Seq(S)
         /\ Len(Append(s, e)) = Len(s) + 1 /\ Len(s) \in Nat
         /\ \A i \in 1 .. Len(s) : Append(s, e)[i] = s[i]
         /\ Append(s, e)[Len(s) + 1] = e
  OBVIOUS

(* What Head and Tail do to a typed sequence that is not empty.            *)
LEMMA Taking ==
  ASSUME NEW S, NEW s \in Seq(S), s # <<>>
  PROVE  /\ Head(s) \in S /\ Head(s) = s[1] /\ Tail(s) \in Seq(S)
         /\ Len(s) \in Nat \ {0} /\ Len(Tail(s)) = Len(s) - 1
         /\ \A i \in 1 .. Len(s) - 1 : Tail(s)[i] = s[i + 1]
  OBVIOUS

(* pending_accepts stays within its width.                                 *)
LEMMA IncType ==
  ASSUME NEW n \in 0 .. UsizeModulus - 1
  PROVE  Inc(n) \in 0 .. UsizeModulus - 1 /\ Dec(n) \in 0 .. UsizeModulus - 1
<1>1. UsizeModulus \in Nat /\ UsizeModulus > 0
  BY PoolAssumption
<1> QED
  BY <1>1 DEF Inc, Dec

\* What a handler that may kill w and may spawn a replacement does to v.
Replaced(w, v) ==
  \/ proc'[v] = proc[v] /\ job'[v] = job[v]
  \/ v = w /\ proc'[v] = "dead" /\ job'[v] = NoMutant
  \/ proc[v] = "unborn" /\ proc'[v] = "booting" /\ job'[v] = job[v]

(* respawn_worker after the Child of w is dropped keeps the types.         *)
LEMMA Replacing ==
  ASSUME TypeOK, NEW w \in Workers, job' = DropJob(w),
         RespawnWorker(Reaped(w), Dropped(w)) \/ NoRespawn(Reaped(w), Dropped(w))
  PROVE  /\ proc' \in [Workers -> ProcStates] /\ child' \in [Workers -> ChildStates]
         /\ job' \in [Workers -> MaybeMutant]
         /\ pendingAccepts' \in 0 .. UsizeModulus - 1
         /\ \A v \in Workers : Replaced(w, v)
<1>1. /\ Reaped(w) \in [Workers -> ProcStates] /\ Dropped(w) \in [Workers -> ChildStates]
      /\ job' \in [Workers -> MaybeMutant]
  BY DEF TypeOK, Reaped, Dropped, DropJob, ProcStates, ChildStates, MaybeMutant
<1>2. proc' \in [Workers -> ProcStates] /\ child' \in [Workers -> ChildStates]
  BY <1>1 DEF RespawnWorker, NoRespawn, ProcStates, ChildStates
<1>4. pendingAccepts' \in 0 .. UsizeModulus - 1
  BY IncType DEF TypeOK, RespawnWorker, NoRespawn
<1>3. ASSUME NEW v \in Workers PROVE Replaced(w, v)
  BY <1>1 DEF TypeOK, Replaced, RespawnWorker, NoRespawn, Reaped, DropJob, ProcStates
<1> QED
  BY <1>1, <1>2, <1>3, <1>4

(* respawn_worker with the Child handles as they are keeps the types.      *)
LEMMA ReplacingWithoutKill ==
  ASSUME TypeOK, UNCHANGED job,
         RespawnWorker(proc, child) \/ NoRespawn(proc, child)
  PROVE  /\ proc' \in [Workers -> ProcStates] /\ child' \in [Workers -> ChildStates]
         /\ pendingAccepts' \in 0 .. UsizeModulus - 1
         /\ \A v, w \in Workers : Replaced(w, v)
<1>1. proc' \in [Workers -> ProcStates] /\ child' \in [Workers -> ChildStates]
  BY DEF TypeOK, RespawnWorker, NoRespawn, ProcStates, ChildStates
<1>2. pendingAccepts' \in 0 .. UsizeModulus - 1
  BY IncType DEF TypeOK, RespawnWorker, NoRespawn
<1>3. ASSUME NEW v \in Workers, NEW w \in Workers PROVE Replaced(w, v)
  BY DEF TypeOK, Replaced, RespawnWorker, NoRespawn, ProcStates
<1> QED
  BY <1>1, <1>2, <1>3

\* A step that only replaces workers, and drops messages or senders, keeps the
\* handshakes in order.
LEMMA HandshakenReplaced ==
  ASSUME TypeInv, NEW w \in Workers, NEW v \in Workers, Replaced(w, v),
         UNCHANGED <<conn, toWorker, fromWorker>>, senders' \subseteq senders,
         mailbox'[v] = mailbox[v] \/ conn[v] = "open",
         events'[v] = events[v] \/
           (conn[v] \notin {"none", "backlog", "handshake", "accepted"} /\
            \A i \in 1 .. Len(events'[v]) : events'[v][i].kind # "Connected")
  PROVE  Handshaken(v)'
  BY DEF TypeInv, TypeOK, Handshaken, PreOpen, Replaced

(* Handshaken depends on the variables of the worker alone.                *)
LEMMA HandshakenFrame ==
  ASSUME NEW v \in Workers, Handshaken(v), v \in senders' => v \in senders,
         UNCHANGED <<job[v], proc[v], conn[v], mailbox[v], toWorker[v], fromWorker[v],
                     events[v]>>
  PROVE  Handshaken(v)'
  BY DEF Handshaken

-------------------------------------------------------------------------------
(* The worker process preserves the type invariant.                        *)

(* A worker that takes a message keeps the invariant.                      *)
LEMMA WorkerTakeTypeInv == ASSUME TypeInv, NEW w \in Workers, WorkerTake(w) PROVE TypeInv'
<1> DEFINE msg == Head(toWorker[w])
<1>1. /\ msg \in OrchestratorMessages /\ Tail(toWorker[w]) \in Seq(OrchestratorMessages)
      /\ msg.kind = "Run" => msg.mutant \in Mutants
  BY Taking DEF WorkerTake, TypeInv, TypeOK, OrchestratorMessages, Shutdown
<1>2. TypeOK'
  BY <1>1 DEF WorkerTake, TypeInv, TypeOK, ProcStates, MaybeMutant, vars, loopVars, procVars
<1>3. SuspectsActive'
  BY DEF WorkerTake, TypeInv, TypeOK, SuspectsActive, vars, loopVars, procVars
<1>4. ASSUME NEW v \in Workers, v # w PROVE Handshaken(v)'
  BY <1>4, HandshakenFrame DEF WorkerTake, TypeInv, TypeOK, loopVars
<1>5. Handshaken(w)'
  <2>1. /\ proc[w] = "waiting" /\ toWorker[w] # <<>> /\ Handshaken(w)
        /\ w \in DOMAIN proc /\ w \in DOMAIN job
        /\ UNCHANGED <<conn, mailbox, fromWorker, events, senders>>
    BY DEF WorkerTake, TypeInv, TypeOK, loopVars
  <2>2. /\ conn'[w] \notin PreOpen
        /\ \/ proc'[w] = "running" /\ job'[w] # NoMutant
           \/ proc'[w] = "dead" /\ job'[w] = NoMutant
    BY <1>1, <2>1, PoolAssumption DEF WorkerTake, Handshaken
  <2> QED
    BY <2>1, <2>2 DEF Handshaken, PreOpen
<1> QED
  BY <1>2, <1>3, <1>4, <1>5 DEF TypeInv

(* A worker that answers keeps the invariant: it had a mutant.             *)
LEMMA WorkerAnswerTypeInv ==
  ASSUME TypeInv, NEW w \in Workers, NEW msg \in WorkerMessages, msg.kind # "Ready",
         WorkerAnswer(w, msg)
  PROVE  TypeInv'
<1>1. /\ Append(fromWorker[w], msg) \in Seq(WorkerMessages)
      /\ Append(fromWorker[w], msg) # <<>>
      /\ conn[w] \notin PreOpen
      /\ \A i \in 1 .. Len(Append(fromWorker[w], msg)) :
           Append(fromWorker[w], msg)[i].kind # "Ready"
  <2>1. conn[w] \notin PreOpen
    BY DEF WorkerAnswer, TypeInv, Handshaken, PreOpen
  <2>2. fromWorker[w] \in Seq(WorkerMessages)
    BY DEF TypeInv, TypeOK
  <2>3. \A i \in 1 .. Len(fromWorker[w]) : fromWorker[w][i].kind # "Ready"
    BY <2>1 DEF TypeInv, Handshaken, PreOpen
  <2> QED
    BY <2>1, <2>2, <2>3, Appending
<1>2. TypeOK'
  BY <1>1 DEF WorkerAnswer, TypeInv, TypeOK, ProcStates, MaybeMutant, vars, loopVars, procVars
<1>3. SuspectsActive'
  BY DEF WorkerAnswer, TypeInv, TypeOK, SuspectsActive, vars, loopVars, procVars
<1>4. ASSUME NEW v \in Workers, v # w PROVE Handshaken(v)'
  BY <1>4 DEF WorkerAnswer, TypeInv, TypeOK, Handshaken, PreOpen, vars, loopVars, procVars
<1>5. Handshaken(w)'
  BY <1>1 DEF WorkerAnswer, TypeInv, TypeOK, Handshaken, PreOpen, vars, loopVars, procVars
<1> QED
  BY <1>2, <1>3, <1>4, <1>5 DEF TypeInv

(* Every step of a worker keeps the invariant.                             *)
LEMMA WorkerStepTypeInv == ASSUME TypeInv, NEW w \in Workers, WorkerStep(w) PROVE TypeInv'
<1>0. proc[w] = "running" => job[w] \in Mutants
  BY DEF TypeInv, TypeOK, Handshaken, MaybeMutant
<1>1. CASE WorkerConnect(w)
  <2>1. TypeOK'
    BY <1>1 DEF WorkerConnect, TypeInv, TypeOK, ProcStates, ConnStates, loopVars
  <2>2. SuspectsActive'
    BY <1>1 DEF WorkerConnect, TypeInv, SuspectsActive, loopVars
  <2>3. ASSUME NEW v \in Workers PROVE Handshaken(v)'
    BY <1>1 DEF WorkerConnect, TypeInv, TypeOK, Handshaken, PreOpen, loopVars
  <2> QED
    BY <2>1, <2>2, <2>3 DEF TypeInv
<1>2. CASE WorkerReady(w)
  <2>1. /\ Append(fromWorker[w], ReadyMsg) \in Seq(WorkerMessages)
        /\ Len(Append(fromWorker[w], ReadyMsg)) = Len(fromWorker[w]) + 1
    BY Appending DEF TypeInv, TypeOK, WorkerMessages
  <2>2. TypeOK'
    BY <1>2, <2>1 DEF WorkerReady, TypeInv, TypeOK, ProcStates, loopVars
  <2>3. SuspectsActive'
    BY <1>2 DEF WorkerReady, TypeInv, SuspectsActive, loopVars
  <2>4. ASSUME NEW v \in Workers PROVE Handshaken(v)'
    BY <1>2, <2>1 DEF WorkerReady, ReadyMsg, TypeInv, TypeOK, Handshaken, PreOpen, loopVars
  <2> QED
    BY <2>2, <2>3, <2>4 DEF TypeInv
<1>3. CASE WorkerTake(w)
  BY <1>3, WorkerTakeTypeInv
<1>4. CASE WorkerResult(w)
  <2>1. PICK c \in ExitCodes : WorkerAnswer(w, ResultMsg(job[w], c))
    BY <1>4 DEF WorkerResult
  <2>2. ResultMsg(job[w], c) \in WorkerMessages /\ ResultMsg(job[w], c).kind # "Ready"
    BY <1>0, <2>1, PoolAssumption DEF WorkerAnswer, ResultMsg, WorkerMessages, Answers
  <2> QED
    BY <2>1, <2>2, WorkerAnswerTypeInv
<1>5. CASE WorkerFault(w)
  <2>1. ErrorMsg(job[w]) \in WorkerMessages /\ ErrorMsg(job[w]).kind # "Ready"
    BY <1>0, <1>5 DEF WorkerFault, WorkerAnswer, ErrorMsg, WorkerMessages, Answers
  <2> QED
    BY <1>5, <2>1, WorkerAnswerTypeInv DEF WorkerFault
<1>6. CASE WorkerDie(w)
  <2>1. TypeOK'
    BY <1>6 DEF WorkerDie, TypeInv, TypeOK, ProcStates, MaybeMutant, loopVars, wireVars
  <2>2. SuspectsActive'
    BY <1>6 DEF WorkerDie, TypeInv, SuspectsActive, loopVars
  <2>3. ASSUME NEW v \in Workers PROVE Handshaken(v)'
    BY <1>6 DEF WorkerDie, TypeInv, TypeOK, Handshaken, PreOpen, loopVars, wireVars
  <2> QED
    BY <2>1, <2>2, <2>3 DEF TypeInv
<1> QED
  BY <1>1, <1>2, <1>3, <1>4, <1>5, <1>6 DEF WorkerStep

-------------------------------------------------------------------------------
(* So do the tasks of a connection.                                        *)

(* The task reads only answers: the ready message went to the handshake.   *)
LEMMA TaskReadTypeInv == ASSUME TypeInv, NEW w \in Workers, TaskRead(w) PROVE TypeInv'
<1> DEFINE msg == Head(fromWorker[w])
           status == IF msg.kind = "Result" THEN FromExitCode(msg.code) ELSE "Error"
           ev == Event(msg.kind, msg.mutant, status)
<1>1. /\ msg \in WorkerMessages /\ Tail(fromWorker[w]) \in Seq(WorkerMessages)
      /\ \A i \in 1 .. Len(Tail(fromWorker[w])) : Tail(fromWorker[w])[i] = fromWorker[w][i + 1]
      /\ Len(Tail(fromWorker[w])) = Len(fromWorker[w]) - 1 /\ Len(fromWorker[w]) \in Nat \ {0}
      /\ msg = fromWorker[w][1]
  BY Taking DEF TaskRead, TypeInv, TypeOK
<1>2. conn[w] = "open" /\ msg.kind # "Ready"
  BY <1>1 DEF TaskRead, TypeInv, Handshaken
<1>3. msg.kind \in Answers /\ msg.mutant \in Mutants
  BY <1>1, <1>2 DEF WorkerMessages, ReadyMsg
<1>4. ev \in WorkerEvents
  BY <1>3 DEF WorkerEvents, Event, FromExitCode, Statuses
<1>5. /\ Append(events[w], ev) \in Seq(WorkerEvents)
      /\ \A i \in 1 .. Len(Append(events[w], ev)) : Append(events[w], ev)[i].kind # "Connected"
  <2>1. events[w] \in Seq(WorkerEvents) /\ ev.kind # "Connected"
    BY <1>3 DEF TypeInv, TypeOK, Event, Answers
  <2>2. \A i \in 1 .. Len(events[w]) : events[w][i].kind # "Connected"
    BY <1>2 DEF TypeInv, Handshaken
  <2> QED
    BY <1>4, <2>1, <2>2, Appending
<1>6. events' = [events EXCEPT ![w] = Append(events[w], ev)]
  BY DEF TaskRead
<1> HIDE DEF ev
<1>7. TypeOK'
  BY <1>1, <1>5, <1>6 DEF TaskRead, TypeInv, TypeOK, loopVars, procVars
<1>8. SuspectsActive'
  BY DEF TaskRead, TypeInv, SuspectsActive, loopVars
<1>9. ASSUME NEW v \in Workers, v # w PROVE Handshaken(v)'
  BY <1>6, <1>9, HandshakenFrame DEF TaskRead, TypeInv, TypeOK, loopVars, procVars
<1>10. Handshaken(w)'
  <2>1. UNCHANGED <<job, proc, conn, mailbox, toWorker, senders>> /\ conn'[w] = "open"
    BY <1>2 DEF TaskRead, loopVars, procVars
  <2>2. \A i \in 1 .. Len(events'[w]) : events'[w][i].kind # "Connected"
    BY <1>5, <1>6 DEF TypeInv, TypeOK
  <2>3. fromWorker'[w] = Tail(fromWorker[w])
    BY DEF TaskRead, TypeInv, TypeOK
  <2>4. \A i \in 1 .. Len(fromWorker'[w]) : fromWorker'[w][i].kind # "Ready"
    <3>1. \A i \in 1 .. Len(fromWorker[w]) : fromWorker[w][i].kind # "Ready"
      BY <1>2 DEF TypeInv, Handshaken
    <3> QED
      BY <1>1, <2>3, <3>1
  <2>5. proc[w] \notin {"unborn", "booting", "collecting"}
    BY <1>2 DEF TypeInv, Handshaken
  <2> QED
    BY <2>1, <2>2, <2>4, <2>5 DEF TypeInv, Handshaken, PreOpen
<1> QED
  BY <1>7, <1>8, <1>9, <1>10 DEF TypeInv

(* The end of a handshake keeps the invariant.                             *)
LEMMA HandshakeTypeInv ==
  ASSUME TypeInv, NEW w \in Workers, HandshakeReady(w) \/ HandshakeFailed(w)
  PROVE  TypeInv'
<1>1. /\ Append(events[w], Event("Connected", NoMutant, "Error")) \in Seq(WorkerEvents)
      /\ Append(events[w], Event("AcceptFailed", NoMutant, "Error")) \in Seq(WorkerEvents)
      /\ fromWorker[w] # <<>> => Tail(fromWorker[w]) \in Seq(WorkerMessages)
  BY Appending, Taking DEF TypeInv, TypeOK, WorkerEvents, Event
<1>2. TypeOK'
  <2>1. events' \in [Workers -> Seq(WorkerEvents)] /\ conn' \in [Workers -> ConnStates]
    <3>1. events \in [Workers -> Seq(WorkerEvents)] /\ conn \in [Workers -> ConnStates]
      BY DEF TypeInv, TypeOK
    <3>2. {"accepted", "failed"} \subseteq ConnStates
      BY DEF ConnStates
    <3> QED
      BY <1>1, <3>1, <3>2 DEF HandshakeReady, HandshakeFailed, HandshakeEnds
  <2>2. fromWorker' \in [Workers -> Seq(WorkerMessages)]
    <3>1. fromWorker \in [Workers -> Seq(WorkerMessages)]
      BY DEF TypeInv, TypeOK
    <3> QED
      BY <1>1, <3>1 DEF HandshakeReady, HandshakeFailed
  <2>3. UNCHANGED <<pc, loopVars, procVars, mailbox, toWorker>>
    BY DEF HandshakeReady, HandshakeFailed, HandshakeEnds
  <2> QED
    BY <2>1, <2>2, <2>3 DEF TypeInv, TypeOK, loopVars, procVars
<1>3. SuspectsActive'
  BY DEF HandshakeReady, HandshakeFailed, HandshakeEnds, TypeInv, SuspectsActive, loopVars
<1>4. ASSUME NEW v \in Workers, v # w PROVE Handshaken(v)'
  BY <1>4, HandshakenFrame
     DEF HandshakeReady, HandshakeFailed, HandshakeEnds, TypeInv, TypeOK, loopVars, procVars
<1>5. CASE HandshakeReady(w)
  <2>1. events[w] = <<>> /\ Len(fromWorker[w]) <= 1
    BY <1>5 DEF HandshakeReady, TypeInv, Handshaken
  <2>2. Tail(fromWorker[w]) = <<>>
    BY <1>5, <2>1 DEF HandshakeReady, TypeInv, TypeOK
  <2>3. Handshaken(w)'
    BY <1>5, <2>1, <2>2 DEF HandshakeReady, HandshakeEnds, Event, TypeInv, TypeOK,
       Handshaken, PreOpen, loopVars, procVars
  <2> QED
    BY <1>2, <1>3, <1>4, <2>3 DEF TypeInv
<1>6. CASE HandshakeFailed(w)
  <2>1. Handshaken(w)'
    BY <1>6 DEF HandshakeFailed, HandshakeEnds, Event, TypeInv, TypeOK, Handshaken,
       PreOpen, loopVars, procVars
  <2> QED
    BY <1>2, <1>3, <1>4, <2>1 DEF TypeInv
<1> QED
  BY <1>5, <1>6

(* The end of a task keeps the invariant.                                  *)
LEMMA TaskDisconnectsTypeInv ==
  ASSUME TypeInv, NEW w \in Workers, NEW c \in {"eof", "timedout"}, TaskDisconnects(w, c)
  PROVE  TypeInv'
<1> DEFINE ev == Event("Disconnected", NoMutant, "Error")
<1>1. /\ Append(events[w], ev) \in Seq(WorkerEvents)
      /\ \A i \in 1 .. Len(Append(events[w], ev)) : Append(events[w], ev)[i].kind # "Connected"
  <2>1. ev \in WorkerEvents /\ ev.kind # "Connected" /\ events[w] \in Seq(WorkerEvents)
    BY DEF TypeInv, TypeOK, WorkerEvents, Event
  <2>2. \A i \in 1 .. Len(events[w]) : events[w][i].kind # "Connected"
    BY DEF TaskDisconnects, TypeInv, Handshaken
  <2> QED
    BY <2>1, <2>2, Appending
<1>2. TypeOK'
  BY <1>1 DEF TaskDisconnects, TypeInv, TypeOK, ConnStates, loopVars, procVars
<1>3. SuspectsActive'
  BY DEF TaskDisconnects, TypeInv, SuspectsActive, loopVars
<1>4. ASSUME NEW v \in Workers, v # w PROVE Handshaken(v)'
  BY <1>4 DEF TaskDisconnects, TypeInv, TypeOK, Handshaken, PreOpen, loopVars, procVars
<1>5. Handshaken(w)'
  BY <1>1 DEF TaskDisconnects, TypeInv, TypeOK, Handshaken, PreOpen, loopVars, procVars
<1> QED
  BY <1>2, <1>3, <1>4, <1>5 DEF TypeInv

(* Every step of a connection keeps the invariant.                         *)
LEMMA TaskStepTypeInv == ASSUME TypeInv, NEW w \in Workers, TaskStep(w) PROVE TypeInv'
<1>1. CASE HandshakeReady(w) \/ HandshakeFailed(w)
  BY <1>1, HandshakeTypeInv
<1>2. CASE TaskForward(w)
  <2>1. /\ Append(toWorker[w], Head(mailbox[w])) \in Seq(OrchestratorMessages)
        /\ Tail(mailbox[w]) \in Seq(OrchestratorMessages)
    BY <1>2, Appending, Taking DEF TaskForward, TypeInv, TypeOK
  <2>2. TypeOK'
    BY <1>2, <2>1 DEF TaskForward, TypeInv, TypeOK, loopVars, procVars
  <2>3. SuspectsActive'
    BY <1>2 DEF TaskForward, TypeInv, SuspectsActive, loopVars
  <2>4. ASSUME NEW v \in Workers PROVE Handshaken(v)'
    BY <1>2 DEF TaskForward, TypeInv, TypeOK, Handshaken, PreOpen, loopVars, procVars
  <2> QED
    BY <2>2, <2>3, <2>4 DEF TypeInv
<1>3. CASE TaskRead(w)
  BY <1>3, TaskReadTypeInv
<1>4. CASE TaskEof(w) \/ TaskTimeout(w)
  BY <1>4, TaskDisconnectsTypeInv DEF TaskEof, TaskTimeout
<1>5. CASE TaskClosed(w)
  <2>1. TypeOK'
    BY <1>5 DEF TaskClosed, TypeInv, TypeOK, ConnStates, loopVars, procVars
  <2>2. SuspectsActive'
    BY <1>5 DEF TaskClosed, TypeInv, SuspectsActive, loopVars
  <2>3. ASSUME NEW v \in Workers PROVE Handshaken(v)'
    BY <1>5 DEF TaskClosed, TypeInv, TypeOK, Handshaken, PreOpen, loopVars, procVars
  <2> QED
    BY <2>1, <2>2, <2>3 DEF TypeInv
<1> QED
  BY <1>1, <1>2, <1>3, <1>4, <1>5 DEF TaskStep

-------------------------------------------------------------------------------
(* And so does the dispatch loop.                                          *)

(* What Last and Front do to a typed sequence that is not empty.           *)
LEMMA LastFront ==
  ASSUME NEW S, NEW s \in Seq(S), s # <<>>
  PROVE  /\ Len(s) \in Nat \ {0} /\ Last(s) \in S /\ Last(s) = s[Len(s)]
         /\ Front(s) \in Seq(S) /\ Len(Front(s)) = Len(s) - 1
         /\ \A i \in 1 .. Len(s) - 1 : Front(s)[i] = s[i]
<1> DEFINE n == Len(s)
<1>1. n \in Nat \ {0} /\ \A i \in 1 .. n : s[i] \in S
  OBVIOUS
<1> HIDE DEF n
<1>2. ASSUME NEW f, f = SubSeq(s, 1, n - 1)
      PROVE  /\ f \in Seq(S) /\ Len(f) = n - 1
             /\ \A i \in 1 .. n - 1 : f[i] = s[i]
  <2>1. 1 \in Int /\ n - 1 \in Int /\ \A i \in 1 .. n - 1 : s[i] \in S
    BY <1>1
  <2>2. /\ f \in Seq(S)
        /\ Len(f) = IF 1 <= n - 1 THEN (n - 1) - 1 + 1 ELSE 0
        /\ \A i \in 1 .. (n - 1) - 1 + 1 : f[i] = s[1 + i - 1]
    BY ONLY <1>2, <2>1, SubSeqProperties
  <2>3. Len(f) = n - 1
    BY ONLY <1>1, <2>2
  <2>4. ASSUME NEW i \in 1 .. n - 1 PROVE f[i] = s[i]
    <3>1. i \in 1 .. (n - 1) - 1 + 1 /\ 1 + i - 1 = i
      BY ONLY <1>1, i \in 1 .. n - 1
    <3> QED
      BY ONLY <2>2, <3>1
  <2> QED
    BY <2>2, <2>3, <2>4
<1>3. Front(s) = SubSeq(s, 1, n - 1)
  BY DEF Front, n
<1>4. /\ Front(s) \in Seq(S) /\ Len(Front(s)) = n - 1
      /\ \A i \in 1 .. n - 1 : Front(s)[i] = s[i]
  BY ONLY <1>2, <1>3
<1> QED
  BY <1>1, <1>4 DEF Last, n

(* A verdict pushed on the results keeps their type.                       *)
LEMMA RecordType ==
  ASSUME TypeOK, NEW m \in Mutants, NEW st \in Statuses, NEW h \in Handlers
  PROVE  Append(results, Verdict(m, st, h)) \in Seq(Records)
  BY Appending DEF TypeOK, Verdict, Records

\* A step that leaves the workers alone, or only sends to open connections.
LEMMA HandshakenSend ==
  ASSUME TypeInv, NEW v \in Workers, v \in senders' => v \in senders,
         mailbox'[v] = mailbox[v] \/ SendWorks(v),
         UNCHANGED <<job[v], proc[v], conn[v], toWorker[v], fromWorker[v], events[v]>>
  PROVE  Handshaken(v)'
  BY DEF TypeInv, TypeOK, Handshaken, PreOpen, SendWorks

(* Dispatching a mutant keeps the invariant.                               *)
LEMMA DispatchTypeInv == ASSUME TypeInv, NEW m \in Mutants, DispatchOne(m) PROVE TypeInv'
<1> DEFINE w == Last(idle)
<1>1. w \in Workers /\ Front(idle) \in Seq(Workers)
  BY LastFront DEF DispatchOne, CanDispatch, TypeInv, TypeOK
<1>2. /\ Append(results, Verdict(m, "Error", "dispatch_pending")) \in Seq(Records)
      /\ Append(mailbox[w], Run(m)) \in Seq(OrchestratorMessages)
  <2>1. Run(m) \in OrchestratorMessages /\ "Error" \in Statuses
        /\ "dispatch_pending" \in Handlers
    BY DEF Run, OrchestratorMessages, Statuses, Handlers
  <2> QED
    BY <1>1, <2>1, RecordType, Appending DEF TypeInv, TypeOK
<1>3. /\ idle' = Front(idle) /\ queue' = queue \ {m}
      /\ active' = [active EXCEPT ![w] = NoMutant] \/ active' = [active EXCEPT ![w] = m]
      /\ results' = results \/ results' = Append(results, Verdict(m, "Error", "dispatch_pending"))
      /\ \/ mailbox' = mailbox
         \/ SendWorks(w) /\ mailbox' = [mailbox EXCEPT ![w] = Append(@, Run(m))]
  BY DEF DispatchOne
<1>4. TypeOK'
  BY <1>1, <1>2, <1>3 DEF DispatchOne, TypeInv, TypeOK, MaybeMutant, procVars
<1>5. SuspectsActive'
  BY DEF DispatchOne, TypeInv, SuspectsActive, procVars
<1>6. ASSUME NEW v \in Workers PROVE Handshaken(v)'
  BY <1>1, <1>3, HandshakenSend DEF DispatchOne, TypeInv, TypeOK, procVars
<1> QED
  BY <1>4, <1>5, <1>6 DEF TypeInv

(* So do the steps of the loop that touch no channel.                      *)
LEMMA QuietTypeInv ==
  ASSUME TypeInv,
         LoopTop \/ DrainEnd \/ HealthTick \/ MemoryTick \/ AcceptFailure
           \/ \E m \in Mutants : DrainOne(m)
  PROVE  TypeInv'
<1> USE DEF TypeInv, loopVars, procVars, wireVars
<1>1. ASSUME UNCHANGED <<procVars, wireVars, senders>>
      PROVE  \A v \in Workers : Handshaken(v)'
  BY <1>1, HandshakenFrame
<1>2. CASE LoopTop \/ DrainEnd
  <2>1. TypeOK' /\ SuspectsActive'
    BY <1>2 DEF LoopTop, DrainEnd, TypeOK, PcNames, SuspectsActive
  <2> QED
    BY <1>1, <1>2, <2>1 DEF LoopTop, DrainEnd
<1>3. CASE HealthTick
  <2>1. TypeOK' /\ SuspectsActive'
    BY <1>3 DEF HealthTick, TypeOK, PcNames, SuspectsActive
  <2> QED
    BY <1>1, <1>3, <2>1 DEF HealthTick
<1>4. CASE MemoryTick
  <2>1. TypeOK' /\ SuspectsActive'
    BY <1>4 DEF MemoryTick, Selecting, TypeOK, PcNames, SuspectsActive
  <2> QED
    BY <1>1, <1>4, <2>1 DEF MemoryTick
<1>5. CASE AcceptFailure
  <2>1. TypeOK' /\ SuspectsActive'
    BY <1>5, IncType DEF AcceptFailure, Selecting, TypeOK, PcNames, SuspectsActive
  <2> QED
    BY <1>1, <1>5, <2>1 DEF AcceptFailure
<1>6. ASSUME NEW m \in Mutants, DrainOne(m) PROVE TypeInv'
  <2>1. Append(results, Verdict(m, "Error", "handle_stuck")) \in Seq(Records)
    BY RecordType DEF Statuses, Handlers
  <2>2. TypeOK' /\ SuspectsActive'
    BY <1>6, <2>1 DEF DrainOne, TypeOK, SuspectsActive
  <2> QED
    BY <1>1, <1>6, <2>2 DEF DrainOne
<1> QED
  BY <1>2, <1>3, <1>4, <1>5, <1>6

(* Shutdown keeps the invariant.                                           *)
LEMMA ReturnTypeInv == ASSUME TypeInv, Return PROVE TypeInv'
<1>1. \A v \in Workers : Append(mailbox[v], Shutdown) \in Seq(OrchestratorMessages)
  BY Appending DEF TypeInv, TypeOK, OrchestratorMessages
<1>2. TypeOK'
  BY <1>1 DEF Return, TypeInv, TypeOK, PcNames, ProcStates, ChildStates, MaybeMutant, loopVars
<1>3. SuspectsActive'
  BY DEF Return, TypeInv, SuspectsActive, loopVars
<1>4. ASSUME NEW v \in Workers PROVE Handshaken(v)'
  BY DEF Return, SendWorks, TypeInv, TypeOK, Handshaken, PreOpen, loopVars
<1> QED
  BY <1>2, <1>3, <1>4 DEF TypeInv

(* Accepting a connection keeps the invariant.                             *)
LEMMA AcceptConnectionTypeInv ==
  ASSUME TypeInv, NEW w \in Workers, AcceptConnection(w) PROVE TypeInv'
<1>1. TypeOK' /\ SuspectsActive'
  BY DEF AcceptConnection, Selecting, TypeInv, TypeOK, SuspectsActive, PcNames, ConnStates,
     loopVars, procVars
<1>2. ASSUME NEW v \in Workers PROVE Handshaken(v)'
  BY DEF AcceptConnection, TypeInv, TypeOK, Handshaken, PreOpen, loopVars, procVars
<1> QED
  BY <1>1, <1>2 DEF TypeInv

(* A health check keeps the invariant: its suspect has a mutant.           *)
LEMMA HealthCheckTypeInv == ASSUME TypeInv, NEW w \in Workers, HealthCheck(w) PROVE TypeInv'
<1>1. active[w] \in Mutants
  BY DEF HealthCheck, TypeInv, SuspectsActive, TypeOK, MaybeMutant
<1>2. Append(results, Verdict(active[w], "Error", "handle_health_check"))
        \in Seq(Records)
  BY <1>1, RecordType DEF TypeInv, Statuses, Handlers
<1>3. /\ proc' \in [Workers -> ProcStates] /\ child' \in [Workers -> ChildStates]
      /\ pendingAccepts' \in 0 .. UsizeModulus - 1
      /\ \A v \in Workers : Replaced(w, v)
  BY ReplacingWithoutKill DEF HealthCheck, TypeInv
<1>4. TypeOK'
  <2>1. /\ pc' \in PcNames /\ crashCount' \in Nat
        /\ active' \in [Workers -> MaybeMutant]
        /\ results' \in Seq(Records)
    BY <1>2 DEF HealthCheck, Cleared, TypeInv, TypeOK, PcNames, MaybeMutant
  <2>2. /\ senders' \subseteq Workers /\ pids' \subseteq Workers
        /\ suspects' \subseteq Workers
    BY DEF HealthCheck, TypeInv, TypeOK
  <2>3. UNCHANGED <<queue, idle, flagged, job, conn, mailbox, toWorker, fromWorker, events>>
    BY DEF HealthCheck, wireVars
  <2> QED
    BY <1>3, <2>1, <2>2, <2>3 DEF TypeInv, TypeOK
<1>5. SuspectsActive'
  BY DEF HealthCheck, Cleared, TypeInv, TypeOK, SuspectsActive
<1>6. ASSUME NEW v \in Workers PROVE Handshaken(v)'
  BY <1>3, HandshakenReplaced DEF HealthCheck, wireVars
<1> QED
  BY <1>4, <1>5, <1>6 DEF TypeInv

-------------------------------------------------------------------------------
(* The events.                                                             *)

(* What taking the first event of a worker leaves.                         *)
LEMMA Received ==
  ASSUME TypeInv, NEW w \in Workers, NEW k, Receive(w, k)
  PROVE  /\ pc = "select" /\ pc' = "dispatch" /\ suspects = {}
         /\ events[w] \in Seq(WorkerEvents) /\ events[w] # <<>>
         /\ events[w][1].kind = k /\ events[w][1] = Head(events[w])
         /\ Head(events[w]) \in WorkerEvents
         /\ events' = [events EXCEPT ![w] = Tail(@)]
         /\ events' \in [Workers -> Seq(WorkerEvents)]
         /\ Len(events[w]) \in Nat \ {0} /\ Len(events'[w]) = Len(events[w]) - 1
         /\ \A i \in 1 .. Len(events'[w]) : events'[w][i] = events[w][i + 1]
<1>1. events \in [Workers -> Seq(WorkerEvents)] /\ events[w] # <<>>
  BY DEF Receive, TypeInv, TypeOK
<1> QED
  BY <1>1, Taking DEF Receive, Selecting, TypeInv, SuspectsActive

(* A Result or an Error event names a mutant and a status.                 *)
LEMMA AnswerEvent ==
  ASSUME NEW e \in WorkerEvents, e.kind \in Answers
  PROVE  e.mutant \in Mutants /\ e.status \in Statuses
  BY DEF WorkerEvents, Answers

\* Handling any event but Connected keeps the handshakes in order.
LEMMA HandshakenReceive ==
  ASSUME TypeInv, NEW w \in Workers, NEW k \in {"AcceptFailed", "Result", "Error", "Disconnected"},
         Receive(w, k), NEW v \in Workers, Replaced(w, v),
         UNCHANGED <<conn, toWorker, fromWorker>>, senders' \subseteq senders,
         mailbox'[v] = mailbox[v] \/ conn[v] = "open"
  PROVE  Handshaken(v)'
<1>1. conn[w] \notin {"none", "backlog", "handshake", "accepted"}
  <2>1. events[w] # <<>> /\ events[w][1].kind # "Connected"
    BY Received
  <2> QED
    BY <2>1 DEF TypeInv, Handshaken
<1>2. \A i \in 1 .. Len(events'[w]) : events'[w][i].kind # "Connected"
  <2>1. \A i \in 1 .. Len(events[w]) : events[w][i].kind # "Connected"
    BY <1>1 DEF TypeInv, Handshaken
  <2>2. /\ Len(events[w]) \in Nat /\ Len(events'[w]) = Len(events[w]) - 1
        /\ \A i \in 1 .. Len(events'[w]) : events'[w][i] = events[w][i + 1]
    BY Received
  <2> QED
    BY <2>1, <2>2
<1>3. v # w => events'[v] = events[v]
  BY DEF Receive, TypeInv, TypeOK
<1> QED
  BY <1>1, <1>2, <1>3, HandshakenReplaced

(* Handling Connected keeps the invariant.                                 *)
LEMMA HandleConnectedTypeInv ==
  ASSUME TypeInv, NEW w \in Workers, HandleConnected(w) PROVE TypeInv'
<1>1. Receive(w, "Connected")
  BY DEF HandleConnected
<1>2. conn[w] = "accepted" /\ events'[w] = <<>> /\ fromWorker[w] = <<>>
  <2>1. events[w][1].kind = "Connected" /\ Len(events[w]) \in Nat \ {0}
    BY <1>1, Received
  <2>2. conn[w] = "accepted" /\ fromWorker[w] = <<>> /\ Len(events[w]) = 1
    BY <2>1 DEF TypeInv, Handshaken
  <2>3. events' \in [Workers -> Seq(WorkerEvents)] /\ Len(events'[w]) = Len(events[w]) - 1
    BY <1>1, Received
  <2> QED
    BY <2>2, <2>3, EmptySeq
<1>3. TypeOK'
  BY <1>1, Received, Appending, IncType
     DEF HandleConnected, TypeInv, TypeOK, PcNames, ConnStates, ChildStates
<1>4. SuspectsActive'
  BY <1>1, Received DEF HandleConnected, SuspectsActive
<1>5. ASSUME NEW v \in Workers, v # w PROVE Handshaken(v)'
  BY <1>5, <1>1, HandshakenFrame DEF HandleConnected, Receive, TypeInv, TypeOK
<1>6. Handshaken(w)'
  BY <1>2 DEF HandleConnected, TypeInv, TypeOK, Handshaken, PreOpen
<1> QED
  BY <1>3, <1>4, <1>5, <1>6 DEF TypeInv

(* Handling AcceptFailed keeps the invariant.                              *)
LEMMA HandleAcceptFailedTypeInv ==
  ASSUME TypeInv, NEW w \in Workers, HandleAcceptFailed(w) PROVE TypeInv'
<1>1. Receive(w, "AcceptFailed")
  BY DEF HandleAcceptFailed
<1>2. TypeOK'
  BY <1>1, Received, IncType DEF HandleAcceptFailed, TypeInv, TypeOK, PcNames, procVars
<1>3. SuspectsActive'
  BY <1>1, Received DEF HandleAcceptFailed, SuspectsActive
<1>4. ASSUME NEW v \in Workers PROVE Handshaken(v)'
  BY <1>1, HandshakenReceive DEF HandleAcceptFailed, Replaced, procVars
<1> QED
  BY <1>2, <1>3, <1>4 DEF TypeInv

(* Handling Result keeps the invariant.                                    *)
LEMMA HandleResultTypeInv ==
  ASSUME TypeInv, NEW w \in Workers, HandleResult(w) PROVE TypeInv'
<1> DEFINE ev == Head(events[w])
<1>1. Receive(w, "Result")
  BY DEF HandleResult
<1>2. Append(results, Verdict(ev.mutant, ev.status, "handle_result"))
        \in Seq(Records)
  <2>1. ev \in WorkerEvents /\ ev.kind = "Result"
    BY <1>1, Received
  <2>2. ev.mutant \in Mutants /\ ev.status \in Statuses
    BY <2>1, AnswerEvent DEF Answers
  <2> QED
    BY <2>2, RecordType DEF TypeInv, Handlers
<1>3. /\ proc' \in [Workers -> ProcStates] /\ child' \in [Workers -> ChildStates]
      /\ job' \in [Workers -> MaybeMutant] /\ pendingAccepts' \in 0 .. UsizeModulus - 1
      /\ \A v \in Workers : Replaced(w, v)
  <2>1. CASE w \in flagged /\ queue # {}
    BY <2>1, Replacing DEF HandleResult, TypeInv
  <2>2. CASE ~(w \in flagged /\ queue # {})
    BY <2>2 DEF HandleResult, Replaced, TypeInv, TypeOK, procVars
  <2> QED
    BY <2>1, <2>2
<1>4. /\ \/ mailbox' = mailbox
         \/ conn[w] = "open" /\ mailbox' = [mailbox EXCEPT ![w] = Append(@, Shutdown)]
      /\ idle' = idle \/ idle' = Append(idle, w)
      /\ senders' \subseteq senders /\ pids' \subseteq pids
  <2>1. CASE w \in flagged /\ queue # {}
    <3>1. mailbox' = IF SendWorks(w) THEN [mailbox EXCEPT ![w] = Append(@, Shutdown)]
                     ELSE mailbox
      BY <2>1 DEF HandleResult
    <3>2. idle' = idle /\ senders' \subseteq senders /\ pids' \subseteq pids
      BY <2>1 DEF HandleResult
    <3> QED
      BY <3>1, <3>2 DEF SendWorks
  <2>2. CASE ~(w \in flagged /\ queue # {})
    BY <2>2 DEF HandleResult
  <2> QED
    BY <2>1, <2>2
<1>5. /\ Append(mailbox[w], Shutdown) \in Seq(OrchestratorMessages)
      /\ Append(idle, w) \in Seq(Workers)
  BY Appending DEF TypeInv, TypeOK, OrchestratorMessages
<1>6. TypeOK'
  <2>1. /\ pc' = "dispatch" /\ events' \in [Workers -> Seq(WorkerEvents)]
    BY <1>1, Received
  <2>2. /\ active' \in [Workers -> MaybeMutant]
        /\ results' \in Seq(Records)
    BY <1>2 DEF HandleResult, Cleared, TypeInv, TypeOK, MaybeMutant
  <2>3. /\ senders' \subseteq Workers /\ pids' \subseteq Workers
        /\ flagged' \subseteq Workers /\ idle' \in Seq(Workers)
    BY <1>4, <1>5 DEF HandleResult, TypeInv, TypeOK
  <2>4. mailbox' \in [Workers -> Seq(OrchestratorMessages)]
    BY <1>4, <1>5 DEF TypeInv, TypeOK
  <2>5. UNCHANGED <<queue, crashCount, suspects, conn, toWorker, fromWorker>>
    BY DEF HandleResult
  <2> QED
    BY <1>3, <2>1, <2>2, <2>3, <2>4, <2>5 DEF TypeInv, TypeOK, PcNames
<1>7. SuspectsActive'
  BY <1>1, Received DEF HandleResult, SuspectsActive
<1>8. ASSUME NEW v \in Workers PROVE Handshaken(v)'
  <2>1. mailbox'[v] = mailbox[v] \/ conn[v] = "open"
    BY <1>4 DEF TypeInv, TypeOK
  <2> QED
    BY <1>1, <1>3, <1>4, <2>1, HandshakenReceive DEF HandleResult
<1> QED
  BY <1>6, <1>7, <1>8 DEF TypeInv

(* Handling Error keeps the invariant.                                     *)
LEMMA HandleErrorTypeInv ==
  ASSUME TypeInv, NEW w \in Workers, HandleError(w) PROVE TypeInv'
<1>1. Receive(w, "Error")
  BY DEF HandleError
<1>2. /\ Append(results, Verdict(Head(events[w]).mutant, "Error", "handle_error"))
           \in Seq(Records)
      /\ Append(idle, w) \in Seq(Workers)
  <2>1. Head(events[w]) \in WorkerEvents /\ Head(events[w]).kind = "Error"
    BY <1>1, Received
  <2>2. Head(events[w]).mutant \in Mutants /\ "Error" \in Statuses
    BY <2>1, AnswerEvent DEF Answers, Statuses
  <2>3. Append(idle, w) \in Seq(Workers)
    BY Appending DEF TypeInv, TypeOK
  <2> QED
    BY <2>2, <2>3, RecordType DEF TypeInv, Handlers
<1>3. TypeOK'
  BY <1>1, <1>2, Received
     DEF HandleError, Cleared, TypeInv, TypeOK, PcNames, MaybeMutant, procVars
<1>4. SuspectsActive'
  BY <1>1, Received DEF HandleError, SuspectsActive
<1>5. ASSUME NEW v \in Workers PROVE Handshaken(v)'
  BY <1>1, HandshakenReceive DEF HandleError, Replaced, procVars
<1> QED
  BY <1>3, <1>4, <1>5 DEF TypeInv

(* Handling Disconnected keeps the invariant.                              *)
LEMMA HandleDisconnectedTypeInv ==
  ASSUME TypeInv, NEW w \in Workers, HandleDisconnected(w) PROVE TypeInv'
<1>1. Receive(w, "Disconnected")
  BY DEF HandleDisconnected
<1>2. results' \in Seq(Records)
  <2>1. CASE TimedOut(w)
    <3>1. active[w] \in Mutants /\ "Timeout" \in Statuses
      BY <2>1 DEF TimedOut, TypeInv, TypeOK, MaybeMutant, Statuses
    <3>2. results' = Append(results, Verdict(active[w], "Timeout", "handle_disconnect"))
      BY <2>1 DEF HandleDisconnected
    <3> QED
      BY <3>1, <3>2, RecordType DEF TypeInv, Handlers
  <2>2. CASE ~TimedOut(w)
    BY <2>2 DEF HandleDisconnected, TypeInv, TypeOK
  <2> QED
    BY <2>1, <2>2
<1>3. /\ proc' \in [Workers -> ProcStates] /\ child' \in [Workers -> ChildStates]
      /\ job' \in [Workers -> MaybeMutant] /\ pendingAccepts' \in 0 .. UsizeModulus - 1
      /\ \A v \in Workers : Replaced(w, v)
  <2>1. job' = DropJob(w)
    BY DEF HandleDisconnected
  <2>2. RespawnWorker(Reaped(w), Dropped(w)) \/ NoRespawn(Reaped(w), Dropped(w))
    BY DEF HandleDisconnected
  <2> QED
    BY <2>1, <2>2, Replacing DEF TypeInv
<1>4. TypeOK'
  <2>1. /\ pc' = "dispatch" /\ events' \in [Workers -> Seq(WorkerEvents)]
    BY <1>1, Received
  <2>2. crashCount' \in Nat /\ active' \in [Workers -> MaybeMutant]
    BY DEF HandleDisconnected, Cleared, TypeInv, TypeOK, MaybeMutant
  <2>3. /\ senders' \subseteq Workers /\ pids' \subseteq Workers
        /\ flagged' \subseteq Workers
    BY DEF HandleDisconnected, TypeInv, TypeOK
  <2>4. UNCHANGED <<queue, idle, suspects, conn, mailbox, toWorker, fromWorker>>
    BY DEF HandleDisconnected
  <2> QED
    BY <1>2, <1>3, <2>1, <2>2, <2>3, <2>4 DEF TypeInv, TypeOK, PcNames
<1>5. SuspectsActive'
  BY <1>1, Received DEF HandleDisconnected, SuspectsActive
<1>6. ASSUME NEW v \in Workers PROVE Handshaken(v)'
  BY <1>1, <1>3, HandshakenReceive DEF HandleDisconnected
<1> QED
  BY <1>4, <1>5, <1>6 DEF TypeInv

(* Every step keeps the invariant.                                         *)
LEMMA NextTypeInv == ASSUME TypeInv, [Next]_vars PROVE TypeInv'
<1>1. CASE LoopStep
  BY <1>1, DispatchTypeInv, QuietTypeInv, ReturnTypeInv, AcceptConnectionTypeInv,
     HealthCheckTypeInv, HandleConnectedTypeInv, HandleAcceptFailedTypeInv,
     HandleResultTypeInv, HandleErrorTypeInv, HandleDisconnectedTypeInv
     DEF LoopStep, HandleEvent
<1>2. CASE AcceptFailure \/ MemoryTick
  BY <1>2, QuietTypeInv
<1>3. ASSUME NEW w \in Workers, TaskStep(w) \/ WorkerStep(w) PROVE TypeInv'
  BY <1>3, TaskStepTypeInv, WorkerStepTypeInv
<1>4. CASE UNCHANGED vars
  BY <1>4 DEF vars, loopVars, procVars, wireVars, TypeInv, TypeOK, SuspectsActive, Handshaken
<1> QED
  BY <1>1, <1>2, <1>3, <1>4 DEF Next, Terminated

(* Every variable of the pool keeps its type, whatever the interpreter is, *)
(* however workers die and accept() fails: in particular only answers      *)
(* reach the loop after a handshake, and every verdict names a mutant.     *)
THEOREM TypeCorrect == Spec => []TypeOK
<1>1. Init => TypeInv
  BY InitTypeInv
<1>2. TypeInv /\ [Next]_vars => TypeInv'
  BY NextTypeInv
<1>3. TypeInv => TypeOK
  BY DEF TypeInv
<1> QED
  BY <1>1, <1>2, <1>3, PTL DEF Spec
===============================================================================
