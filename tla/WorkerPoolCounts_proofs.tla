---------------------- MODULE WorkerPoolCounts_proofs ----------------------
(***************************************************************************)
(* What the pool counts: pending_accepts, the workers it runs at once, and *)
(* the replacements it spawns.                                             *)
(*                                                                         *)
(* Each is a number changed in several handlers, apart from the processes  *)
(* it stands for, so no count is inductive without the facts that tie a    *)
(* worker's connection, its Child handle and its messages together (Local):*)
(* a connection is heard of by one event, and a living process hangs on    *)
(* its handle.                                                             *)
(*                                                                         *)
(* Over them: pending_accepts counts the Unheard workers while accept()    *)
(* does not fail (PendingInv); without a launcher the handles, and so the  *)
(* processes, are never more than at the start (SlotInv), because a        *)
(* handler replaces a worker only after dropping its handle; and every     *)
(* replacement comes with a result that handle_result or handle_disconnect *)
(* pushes, or spends a crash (PaidInv).                                    *)
(***************************************************************************)
EXTENDS WorkerPoolDirect_proofs

\* A failed handshake leaves one event, and no other connection such an event.
Heard(w) ==
  /\ conn[w] = "failed" =>
       Len(events[w]) < 2 /\ (events[w] # <<>> => events[w][1].kind = "AcceptFailed")
  /\ conn[w] # "failed" => \A i \in 1 .. Len(events[w]) : events[w][i].kind # "AcceptFailed"

\* A process that lives hangs on its Child handle, until the pool returns.
Parented(w) ==
  /\ proc[w] = "unborn" => child[w] = "none"
  /\ proc[w] \notin {"unborn", "dead"} /\ pc # "returned" =>
       child[w] \in {"unconnected", "processes"}
  /\ pc = "returned" /\ ~Wrapped => proc[w] \in {"unborn", "dead"}

Local(w) == Heard(w) /\ Parented(w)

\* A worker with a pid, and so one a health check looks at, was born.
BornInv == \A w \in pids \cup suspects : proc[w] # "unborn"

LocalInv == BornInv /\ \A w \in Workers : Local(w)

-------------------------------------------------------------------------------
(* Every step keeps Local.                                                 *)

(* Local depends on the variables of the worker alone.                     *)
LEMMA LocalFrame ==
  ASSUME NEW v \in Workers, Local(v), pc = "returned" <=> pc' = "returned",
         UNCHANGED <<proc[v], child[v], conn[v], events[v]>>
  PROVE  Local(v)'
  BY DEF Local, Heard, Parented

(* What every step of the worker process has in common.                    *)
LEMMA WorkerStepEffect ==
  ASSUME TypeInv, NEW w \in Workers, WorkerStep(w)
  PROVE  /\ UNCHANGED <<pc, loopVars, child, events>> /\ pc # "returned"
         /\ \A v \in Workers : v # w => UNCHANGED <<proc[v], conn[v]>>
         /\ proc[w] \notin {"unborn", "dead"} /\ proc'[w] # "unborn"
         /\ conn'[w] = conn[w] \/ (conn[w] = "none" /\ conn'[w] = "backlog")
<1> USE DEF TypeInv, wireVars
<1>0. DOMAIN proc = Workers /\ DOMAIN conn = Workers
  BY DEF TypeOK
<1>1. CASE WorkerConnect(w)
  BY <1>0, <1>1 DEF Up, WorkerConnect, Handshaken
<1>2. CASE WorkerReady(w)
  BY <1>0, <1>2 DEF Up, WorkerReady
<1>3. CASE WorkerTake(w)
  BY <1>0, <1>3 DEF Up, WorkerTake
<1>4. CASE WorkerResult(w) \/ WorkerFault(w)
  BY <1>0, <1>4 DEF Up, WorkerResult, WorkerFault, WorkerAnswer
<1>5. CASE WorkerDie(w)
  BY <1>0, <1>5 DEF Up, WorkerDie
<1> QED
  BY <1>1, <1>2, <1>3, <1>4, <1>5 DEF WorkerStep

(* The worker process keeps Local.                                         *)
LEMMA WorkerStepLocal ==
  ASSUME TypeInv, NEW w \in Workers, WorkerStep(w), \A v \in Workers : Local(v)
  PROVE  \A v \in Workers : Local(v)'
<1>1. /\ UNCHANGED <<pc, child, events>> /\ pc # "returned"
      /\ \A v \in Workers : v # w => UNCHANGED <<proc[v], conn[v]>>
      /\ proc[w] \notin {"unborn", "dead"} /\ proc'[w] # "unborn"
      /\ conn'[w] = conn[w] \/ (conn[w] = "none" /\ conn'[w] = "backlog")
  BY WorkerStepEffect
<1>2. ASSUME NEW v \in Workers, v # w PROVE Local(v)'
  BY <1>1, <1>2, LocalFrame
<1>3. Local(w)'
  BY <1>1 DEF Local, Heard, Parented
<1> QED
  BY <1>2, <1>3

\* What an event pushed on a connection leaves true of the connection's events.
LEMMA EventPushed ==
  ASSUME TypeOK, NEW v \in Workers, Heard(v), NEW e \in WorkerEvents,
         conn[v] # "failed", conn'[v] # "failed", e.kind # "AcceptFailed",
         events'[v] = Append(events[v], e)
  PROVE  Heard(v)'
<1>1. /\ Len(events[v]) \in Nat /\ Len(events'[v]) = Len(events[v]) + 1
      /\ \A i \in 1 .. Len(events[v]) : events'[v][i] = events[v][i]
      /\ events'[v][Len(events[v]) + 1] = e
  BY Appending, Lengths
<1>2. ASSUME NEW i \in 1 .. Len(events'[v]) PROVE events'[v][i].kind # "AcceptFailed"
  <2>1. CASE i = Len(events[v]) + 1
    BY <1>1, <2>1
  <2>2. CASE i \in 1 .. Len(events[v])
    BY <1>1, <2>2 DEF Heard
  <2> QED
    BY <1>1, <2>1, <2>2
<1> QED
  BY <1>2 DEF Heard

(* The tasks of a connection keep Local.                                   *)
LEMMA TaskStepLocal ==
  ASSUME TypeInv, NEW w \in Workers, TaskStep(w), \A v \in Workers : Local(v)
  PROVE  \A v \in Workers : Local(v)'
<1> USE DEF TypeInv, loopVars, procVars
<1>0. /\ DOMAIN conn = Workers /\ DOMAIN fromWorker = Workers /\ DOMAIN events = Workers
      /\ Heard(w) /\ Parented(w) /\ Handshaken(w)
  BY DEF TypeOK, Local
<1>1. /\ UNCHANGED <<pc, child, proc>> /\ pc # "returned"
      /\ \A v \in Workers : v # w => UNCHANGED <<conn[v], events[v]>>
  BY <1>0 DEF TaskStep, Up, HandshakeReady, HandshakeFailed, HandshakeEnds, TaskForward,
     TaskRead, TaskEof, TaskTimeout, TaskDisconnects, TaskClosed
<1>2. ASSUME NEW v \in Workers, v # w PROVE Local(v)'
  BY <1>1, <1>2, LocalFrame
<1>3. Parented(w)'
  BY <1>0, <1>1 DEF Parented
<1>4. CASE HandshakeReady(w)
  <2>1. /\ conn[w] = "handshake" /\ conn'[w] = "accepted"
        /\ events'[w] = Append(events[w], Event("Connected", NoMutant, "Error"))
    BY <1>0, <1>4 DEF HandshakeReady, HandshakeEnds
  <2>2. /\ Event("Connected", NoMutant, "Error") \in WorkerEvents
        /\ Event("Connected", NoMutant, "Error").kind = "Connected"
    BY DEF Event, WorkerEvents
  <2> QED
    BY <1>0, <1>2, <1>3, <2>1, <2>2, EventPushed DEF Local
<1>5. CASE HandshakeFailed(w)
  <2>1. /\ conn'[w] = "failed" /\ events[w] = <<>>
        /\ events'[w] = Append(<<>>, Event("AcceptFailed", NoMutant, "Error"))
    BY <1>0, <1>5 DEF HandshakeFailed, HandshakeEnds, Handshaken
  <2>2. Len(events'[w]) = 1 /\ events'[w][1].kind = "AcceptFailed"
    BY <2>1 DEF Event
  <2>3. Heard(w)'
    BY <2>1, <2>2 DEF Heard
  <2> QED
    BY <1>2, <1>3, <2>3 DEF Local
<1>6. CASE TaskForward(w) \/ TaskClosed(w)
  <2>1. events'[w] = events[w] /\ conn[w] # "failed" /\ conn'[w] # "failed"
    BY <1>0, <1>6 DEF TaskForward, TaskClosed
  <2> QED
    BY <1>0, <1>2, <1>3, <2>1 DEF Local, Heard
<1>7. CASE TaskRead(w)
  <2> DEFINE msg == Head(fromWorker[w])
             status == IF msg.kind = "Result" THEN FromExitCode(msg.code) ELSE "Error"
             ev == Event(msg.kind, msg.mutant, status)
  <2>1. /\ conn[w] = "open" /\ conn'[w] = "open" /\ fromWorker[w] # <<>>
        /\ events'[w] = Append(events[w], ev)
    BY <1>0, <1>7 DEF TaskRead
  <2>2. /\ msg \in WorkerMessages /\ msg = fromWorker[w][1] /\ 1 \in 1 .. Len(fromWorker[w])
    BY <2>1, Taking, Lengths
  <2>3. msg.kind # "Ready"
    BY <1>0, <2>1, <2>2 DEF Handshaken
  <2>4. msg.kind \in Answers /\ msg.mutant \in Mutants
    BY <2>2, <2>3 DEF WorkerMessages, ReadyMsg
  <2>5. ev \in WorkerEvents /\ ev.kind # "AcceptFailed"
    BY <2>4 DEF WorkerEvents, Event, FromExitCode, Statuses, Answers
  <2> HIDE DEF ev
  <2>6. Heard(w)'
    BY <1>0, <2>1, <2>5, EventPushed
  <2> QED
    BY <1>2, <1>3, <2>6 DEF Local
<1>8. CASE TaskEof(w) \/ TaskTimeout(w)
  <2>1. /\ conn[w] = "open" /\ conn'[w] # "failed"
        /\ events'[w] = Append(events[w], Event("Disconnected", NoMutant, "Error"))
    BY <1>0, <1>8 DEF TaskEof, TaskTimeout, TaskDisconnects
  <2>2. /\ Event("Disconnected", NoMutant, "Error") \in WorkerEvents
        /\ Event("Disconnected", NoMutant, "Error").kind = "Disconnected"
    BY DEF Event, WorkerEvents
  <2> QED
    BY <1>0, <1>2, <1>3, <2>1, <2>2, EventPushed DEF Local
<1> QED
  BY <1>4, <1>5, <1>6, <1>7, <1>8 DEF TaskStep

\* An event taken off a connection leaves the rest in order.
LEMMA EventTaken ==
  ASSUME TypeInv, NEW w \in Workers, NEW k, Receive(w, k),
         UNCHANGED conn \/ (k = "Connected" /\ conn' = [conn EXCEPT ![w] = "open"]),
         NEW v \in Workers, Heard(v)
  PROVE  Heard(v)'
<1>1. CASE v # w
  <2>1. events'[v] = events[v]
    BY <1>1, TakenEvent
  <2>2. conn'[v] = conn[v]
    BY <1>1 DEF TypeInv, TypeOK
  <2> QED
    BY <2>1, <2>2 DEF Heard
<1>2. CASE v = w
  <2>1. /\ Len(events[w]) \in Nat \ {0} /\ Len(events'[w]) = Len(events[w]) - 1
        /\ \A i \in 1 .. Len(events'[w]) : events'[w][i] = events[w][i + 1]
        /\ events[w][1].kind = k /\ events'[w] \in Seq(WorkerEvents)
    BY Received
  <2>2. k = "Connected" => conn[w] = "accepted"
    BY <2>1 DEF TypeInv, Handshaken
  <2>3. \A i \in 1 .. Len(events'[w]) : i + 1 \in 1 .. Len(events[w])
    BY <2>1
  <2>4. Heard(w)'
    <3>1. CASE conn[w] = "failed"
      <4>1. conn'[w] = "failed" /\ Len(events[w]) < 2
        BY <1>2, <2>2, <3>1 DEF Heard
      <4>2. Len(events'[w]) = 0
        <5>1. \A n \in Nat \ {0} : n < 2 => n - 1 = 0
          OBVIOUS
        <5> QED
          BY <2>1, <4>1, <5>1
      <4>3. events'[w] = <<>>
        BY <2>1, <4>2, EmptySeq
      <4> QED
        BY <4>1, <4>2, <4>3 DEF Heard
    <3>2. CASE conn[w] # "failed"
      <4>1. conn'[w] # "failed"
        BY <3>2 DEF TypeInv, TypeOK
      <4> QED
        BY <1>2, <2>1, <2>3, <3>2, <4>1 DEF Heard
    <3> QED
      BY <3>1, <3>2
  <2> QED
    BY <1>2, <2>4
<1> QED
  BY <1>1, <1>2

-------------------------------------------------------------------------------
(* Replacing a worker.                                                     *)

\* What a handler that may kill w does to a worker it does not spawn.
Kept(w, v) ==
  \/ proc'[v] = proc[v] /\ child'[v] = child[v]
  \/ /\ v = w /\ child[v] = "processes" /\ proc[v] # "unborn"
     /\ proc'[v] = "dead" /\ child'[v] = "dropped"

\* n is the replacement spawned for w.
Spawned(w, n) ==
  /\ n # w /\ proc[n] = "unborn" /\ proc'[n] = "booting" /\ child'[n] = "unconnected"
  /\ pendingAccepts' = Inc(pendingAccepts)
  /\ \A v \in Workers \ {n} : Kept(w, v)

\* No replacement is spawned for w.
NotReplaced(w) == pendingAccepts' = pendingAccepts /\ \A v \in Workers : Kept(w, v)

(* respawn_worker spawns one replacement or none.                          *)
LEMMA RespawnEffect ==
  ASSUME TypeOK, NEW w \in Workers, proc[w] # "unborn",
         \/ RespawnWorker(Reaped(w), Dropped(w)) \/ NoRespawn(Reaped(w), Dropped(w))
         \/ RespawnWorker(proc, child) \/ NoRespawn(proc, child)
  PROVE  NotReplaced(w) \/ \E n \in Workers : Spawned(w, n)
<1>0. DOMAIN proc = Workers /\ DOMAIN child = Workers
  BY DEF TypeOK
<1>1. ASSUME NEW P, NEW C, P \in [Workers -> ProcStates], C \in [Workers -> ChildStates],
             P[w] # "unborn", \A v \in Workers : P[v] = "unborn" => proc[v] = "unborn",
             \A v \in Workers :
               \/ P[v] = proc[v] /\ C[v] = child[v]
               \/ /\ v = w /\ child[v] = "processes"
                  /\ P[v] = "dead" /\ C[v] = "dropped",
             RespawnWorker(P, C) \/ NoRespawn(P, C)
      PROVE  NotReplaced(w) \/ \E n \in Workers : Spawned(w, n)
  <2>1. CASE proc' = P /\ child' = C /\ UNCHANGED pendingAccepts
    BY <1>1, <2>1 DEF NotReplaced, Kept
  <2>2. ASSUME NEW n \in Workers, P[n] = "unborn", proc' = [P EXCEPT ![n] = "booting"],
               child' = [C EXCEPT ![n] = "unconnected"],
               pendingAccepts' = Inc(pendingAccepts)
        PROVE  Spawned(w, n)
    <3>1. n # w /\ proc[n] = "unborn"
      BY <1>1, <2>2
    <3>2. proc'[n] = "booting" /\ child'[n] = "unconnected"
      BY <1>1, <2>2
    <3>3. \A v \in Workers \ {n} : proc'[v] = P[v] /\ child'[v] = C[v]
      BY <1>1, <2>2
    <3>4. \A v \in Workers \ {n} : Kept(w, v)
      BY <1>1, <3>3 DEF Kept
    <3> QED
      BY <2>2, <3>1, <3>2, <3>4 DEF Spawned
  <2> QED
    BY <1>1, <2>1, <2>2 DEF RespawnWorker, NoRespawn
<1>2. /\ Reaped(w) \in [Workers -> ProcStates] /\ Dropped(w) \in [Workers -> ChildStates]
      /\ Reaped(w)[w] # "unborn"
      /\ \A v \in Workers : Reaped(w)[v] = "unborn" => proc[v] = "unborn"
      /\ \A v \in Workers :
           \/ Reaped(w)[v] = proc[v] /\ Dropped(w)[v] = child[v]
           \/ /\ v = w /\ child[v] = "processes"
              /\ Reaped(w)[v] = "dead" /\ Dropped(w)[v] = "dropped"
  BY DEF TypeOK, Reaped, Dropped, ProcStates, ChildStates
<1>3. proc \in [Workers -> ProcStates] /\ child \in [Workers -> ChildStates]
  BY DEF TypeOK
<1>4. CASE RespawnWorker(Reaped(w), Dropped(w)) \/ NoRespawn(Reaped(w), Dropped(w))
  BY <1>1, <1>2, <1>4
<1>5. CASE RespawnWorker(proc, child) \/ NoRespawn(proc, child)
  BY <1>1, <1>3, <1>5
<1> QED
  BY <1>4, <1>5

\* A worker that has been heard from was born.
LEMMA BornIfHeard ==
  ASSUME TypeInv, NEW w \in Workers, proc[w] = "unborn"
  PROVE  /\ conn[w] = "none" /\ events[w] = <<>> /\ w \notin senders
  BY DEF TypeInv, Handshaken, PreOpen

\* Killing and spawning keep every living process on its handle.
LEMMA ParentedRespawn ==
  ASSUME NEW w \in Workers, NotReplaced(w) \/ \E n \in Workers : Spawned(w, n),
         pc # "returned", pc' # "returned", NEW v \in Workers, Parented(v)
  PROVE  Parented(v)'
<1>1. ASSUME Kept(w, v) PROVE Parented(v)'
  BY <1>1 DEF Kept, Parented
<1>2. ASSUME Spawned(w, v) PROVE Parented(v)'
  BY <1>2 DEF Spawned, Parented
<1> QED
  BY <1>1, <1>2 DEF NotReplaced, Spawned

-------------------------------------------------------------------------------
(* The dispatch loop keeps Local.                                          *)

(* Handling an event keeps Local.                                          *)
LEMMA HandleEventLocal ==
  ASSUME TypeInv, NEW w \in Workers, HandleEvent(w), \A v \in Workers : Local(v)
  PROVE  \A v \in Workers : Local(v)'
<1>1. PICK k : Receive(w, k)
  BY DEF HandleEvent, HandleConnected, HandleAcceptFailed, HandleResult, HandleError,
     HandleDisconnected
<1>2. /\ proc[w] # "unborn" /\ TypeOK /\ pc # "returned" /\ pc' # "returned"
  BY <1>1, BornIfHeard, TakenEvent DEF TypeInv
<1>3. CASE HandleConnected(w)
  <2>1. /\ Receive(w, "Connected") /\ UNCHANGED proc
        /\ conn' = [conn EXCEPT ![w] = "open"]
        /\ child' = [child EXCEPT ![w] = IF Wrapped THEN @ ELSE "processes"]
    BY <1>3 DEF HandleConnected
  <2>2. \A v \in Workers : Heard(v)'
    BY <2>1, EventTaken DEF Local
  <2>3. \A v \in Workers : Parented(v)'
    BY <1>2, <2>1 DEF TypeOK, Local, Parented
  <2> QED
    BY <2>2, <2>3 DEF Local
<1>4. CASE ~HandleConnected(w)
  <2>1. UNCHANGED conn
    BY <1>4 DEF HandleEvent, HandleAcceptFailed, HandleResult, HandleError, HandleDisconnected
  <2>2. \A v \in Workers : Heard(v)'
    BY <1>1, <2>1, EventTaken DEF Local
  <2>3. \/ UNCHANGED <<proc, child>>
        \/ RespawnWorker(Reaped(w), Dropped(w)) \/ NoRespawn(Reaped(w), Dropped(w))
    BY <1>4 DEF HandleEvent, HandleAcceptFailed, HandleResult, HandleError,
       HandleDisconnected, procVars
  <2>4. \A v \in Workers : Parented(v)'
    <3>1. CASE UNCHANGED <<proc, child>>
      BY <1>2, <3>1 DEF Local, Parented
    <3>2. CASE ~UNCHANGED <<proc, child>>
      BY <1>2, <2>3, <3>2, RespawnEffect, ParentedRespawn DEF Local
    <3> QED
      BY <3>1, <3>2
  <2> QED
    BY <2>2, <2>4 DEF Local
<1> QED
  BY <1>3, <1>4

(* A health check keeps Local: its suspect was born.                       *)
LEMMA HealthCheckLocal ==
  ASSUME TypeInv, NEW w \in Workers, HealthCheck(w), \A v \in Workers : Local(v),
         proc[w] # "unborn"
  PROVE  \A v \in Workers : Local(v)'
<1>1. /\ UNCHANGED <<conn, events>> /\ pc # "returned" /\ pc' # "returned"
      /\ RespawnWorker(proc, child) \/ NoRespawn(proc, child)
  BY DEF HealthCheck, wireVars
<1>2. \A v \in Workers : Parented(v)'
  BY <1>1, RespawnEffect, ParentedRespawn DEF Local, TypeInv
<1>3. \A v \in Workers : Heard(v)'
  BY <1>1 DEF Local, Heard
<1> QED
  BY <1>2, <1>3 DEF Local

(* Shutdown keeps Local: dropping the handles kills what hangs on them.    *)
LEMMA ReturnLocal ==
  ASSUME TypeInv, Return, \A v \in Workers : Local(v)
  PROVE  \A v \in Workers : Local(v)'
<1>1. /\ pc = "shutdown" /\ pc' = "returned" /\ UNCHANGED <<conn, events>>
      /\ proc' = [w \in Workers |-> IF w \in Held /\ ~Wrapped THEN "dead" ELSE proc[w]]
      /\ child' = [w \in Workers |-> IF w \in Held THEN "dropped" ELSE child[w]]
  BY DEF Return
<1>2. \A v \in Workers : Parented(v)'
  BY <1>1 DEF Local, Parented, Held
<1>3. \A v \in Workers : Heard(v)'
  BY <1>1 DEF Local, Heard
<1> QED
  BY <1>2, <1>3 DEF Local

(* The steps of the loop that leave processes and connections alone.       *)
LEMMA QuietLocal ==
  ASSUME TypeInv, \A v \in Workers : Local(v),
         \/ LoopTop \/ DrainEnd \/ HealthTick \/ MemoryTick \/ AcceptFailure
         \/ \E m \in Mutants : DispatchOne(m) \/ DrainOne(m)
         \/ \E w \in Workers : AcceptConnection(w)
  PROVE  \A v \in Workers : Local(v)'
<1> USE DEF loopVars, procVars, wireVars
<1>1. CASE ~\E w \in Workers : AcceptConnection(w)
  <2>1. UNCHANGED <<proc, child, conn, events>>
    BY <1>1 DEF LoopTop, DrainEnd, HealthTick, MemoryTick, AcceptFailure, DispatchOne, DrainOne
  <2>2. pc # "returned" /\ pc' # "returned"
    BY <1>1 DEF LoopTop, DrainEnd, HealthTick, MemoryTick, AcceptFailure, DispatchOne,
       DrainOne, Selecting
  <2> QED
    BY <2>1, <2>2, LocalFrame
<1>2. ASSUME NEW w \in Workers, AcceptConnection(w), NEW v \in Workers PROVE Local(v)'
  <2>1. /\ pc # "returned" /\ pc' # "returned" /\ conn[w] = "backlog"
        /\ UNCHANGED <<proc, child, events>>
        /\ conn' = [conn EXCEPT ![w] = "handshake"]
    BY <1>2 DEF AcceptConnection, Selecting
  <2>2. conn'[v] = conn[v] \/ (conn[v] # "failed" /\ conn'[v] # "failed")
    BY <2>1 DEF TypeInv, TypeOK
  <2> QED
    BY <2>1, <2>2 DEF Local, Heard, Parented
<1> QED
  BY <1>1, <1>2

-------------------------------------------------------------------------------
(* No step unmakes a process.                                              *)

(* A process once born never returns to unborn.                            *)
LEMMA StaysBorn ==
  ASSUME TypeInv, LocalInv, [Next]_vars, NEW v \in Workers, proc[v] # "unborn"
  PROVE  proc'[v] # "unborn"
<1> USE DEF TypeInv, loopVars, procVars, wireVars
<1>1. CASE proc'[v] = proc[v]
  BY <1>1
<1>2. ASSUME NEW w \in Workers, WorkerStep(w) PROVE proc'[v] # "unborn"
  BY <1>2 DEF WorkerStep, WorkerConnect, WorkerReady, WorkerTake, WorkerResult, WorkerFault,
     WorkerAnswer, WorkerDie, TypeOK
<1>3. ASSUME NEW w \in Workers, proc[w] # "unborn",
             NotReplaced(w) \/ \E n \in Workers : Spawned(w, n)
      PROVE  proc'[v] # "unborn"
  BY <1>3 DEF NotReplaced, Spawned, Kept
<1>4. ASSUME NEW w \in Workers, HandleEvent(w) PROVE proc'[v] # "unborn"
  <2>1. PICK k : Receive(w, k)
    BY <1>4 DEF HandleEvent, HandleConnected, HandleAcceptFailed, HandleResult, HandleError,
       HandleDisconnected
  <2>2. proc[w] # "unborn"
    BY <2>1, BornIfHeard, TakenEvent
  <2>3. \/ UNCHANGED proc
        \/ RespawnWorker(Reaped(w), Dropped(w)) \/ NoRespawn(Reaped(w), Dropped(w))
    BY <1>4 DEF HandleEvent, HandleConnected, HandleAcceptFailed, HandleResult, HandleError,
       HandleDisconnected
  <2> QED
    BY <1>3, <2>2, <2>3, RespawnEffect
<1>5. ASSUME NEW w \in Workers, HealthCheck(w) PROVE proc'[v] # "unborn"
  BY <1>3, <1>5, RespawnEffect DEF HealthCheck, LocalInv, BornInv
<1>6. CASE Return
  BY <1>6 DEF Return
<1>7. CASE \/ LoopTop \/ DrainEnd \/ HealthTick \/ MemoryTick \/ AcceptFailure
           \/ \E m \in Mutants : DispatchOne(m) \/ DrainOne(m)
           \/ \E w \in Workers : AcceptConnection(w)
  BY <1>7 DEF LoopTop, DrainEnd, HealthTick, MemoryTick, AcceptFailure, DispatchOne,
     DrainOne, AcceptConnection
<1>8. ASSUME NEW w \in Workers, TaskStep(w) PROVE proc' = proc
  BY <1>8 DEF TaskStep, HandshakeReady, HandshakeFailed, HandshakeEnds, TaskForward,
     TaskRead, TaskEof, TaskTimeout, TaskDisconnects, TaskClosed
<1>9. CASE UNCHANGED vars
  BY <1>9 DEF vars
<1> QED
  BY <1>2, <1>4, <1>5, <1>6, <1>7, <1>8, <1>9 DEF Next, LoopStep, Terminated

(* Every step keeps the pids, and the suspects, those of workers once born.*)
LEMMA NextBornInv == ASSUME TypeInv, LocalInv, [Next]_vars PROVE BornInv'
<1> USE DEF TypeInv, loopVars, procVars, wireVars
<1>1. ASSUME pids' \cup suspects' \subseteq pids \cup suspects PROVE BornInv'
  BY <1>1, StaysBorn DEF LocalInv, BornInv, TypeOK
<1>2. ASSUME NEW w \in Workers, HandleConnected(w) PROVE BornInv'
  <2>1. Receive(w, "Connected") /\ pids' = pids \cup {w} /\ suspects' = suspects
    BY <1>2 DEF HandleConnected
  <2>2. proc[w] # "unborn"
    BY <2>1, BornIfHeard, TakenEvent
  <2> QED
    BY <2>1, <2>2, StaysBorn DEF LocalInv, BornInv, TypeOK
<1>3. ASSUME NEW w \in Workers, HandleEvent(w), ~HandleConnected(w) PROVE BornInv'
  <2>1. pids' \subseteq pids /\ suspects' = suspects
    BY <1>3 DEF HandleEvent, HandleAcceptFailed, HandleResult, HandleError,
       HandleDisconnected
  <2> QED
    BY <1>1, <2>1
<1>4. ASSUME NEW w \in Workers, HealthCheck(w) PROVE BornInv'
  BY <1>1, <1>4 DEF HealthCheck
<1>5. CASE \/ LoopTop \/ DrainEnd \/ HealthTick \/ MemoryTick \/ AcceptFailure \/ Return
           \/ \E m \in Mutants : DispatchOne(m) \/ DrainOne(m)
           \/ \E w \in Workers : AcceptConnection(w)
  BY <1>1, <1>5 DEF LoopTop, DrainEnd, HealthTick, MemoryTick, AcceptFailure, DispatchOne,
     DrainOne, AcceptConnection, Return
<1>6. ASSUME NEW w \in Workers, TaskStep(w) \/ WorkerStep(w) PROVE BornInv'
  <2>1. UNCHANGED <<pids, suspects>>
    BY <1>6 DEF TaskStep, HandshakeReady, HandshakeFailed, HandshakeEnds, TaskForward,
       TaskRead, TaskEof, TaskTimeout, TaskDisconnects, TaskClosed, WorkerStep,
       WorkerConnect, WorkerReady, WorkerTake, WorkerResult, WorkerFault, WorkerAnswer,
       WorkerDie
  <2> QED
    BY <1>1, <2>1
<1>7. CASE UNCHANGED vars
  BY <1>1, <1>7 DEF vars
<1> QED
  BY <1>2, <1>3, <1>4, <1>5, <1>6, <1>7 DEF Next, LoopStep, Terminated

(* Every step keeps LocalInv.                                              *)
LEMMA NextLocalInv == ASSUME TypeInv, LocalInv, [Next]_vars PROVE LocalInv'
<1>1. BornInv'
  BY NextBornInv
<1>2. \A v \in Workers : Local(v)'
  <2>1. ASSUME NEW w \in Workers, TaskStep(w) \/ WorkerStep(w)
        PROVE  \A v \in Workers : Local(v)'
    BY <2>1, TaskStepLocal, WorkerStepLocal DEF LocalInv
  <2>2. ASSUME NEW w \in Workers, HandleEvent(w) PROVE \A v \in Workers : Local(v)'
    BY <2>2, HandleEventLocal DEF LocalInv
  <2>3. ASSUME NEW w \in Workers, HealthCheck(w) PROVE \A v \in Workers : Local(v)'
    BY <2>3, HealthCheckLocal DEF HealthCheck, LocalInv, BornInv
  <2>4. CASE Return
    BY <2>4, ReturnLocal DEF LocalInv
  <2>5. CASE \/ LoopTop \/ DrainEnd \/ HealthTick \/ MemoryTick \/ AcceptFailure
             \/ \E m \in Mutants : DispatchOne(m) \/ DrainOne(m)
             \/ \E w \in Workers : AcceptConnection(w)
    BY <2>5, QuietLocal DEF LocalInv
  <2>6. CASE UNCHANGED vars
    BY <2>6, LocalFrame DEF LocalInv, vars, procVars, wireVars
  <2> QED
    BY <2>1, <2>2, <2>3, <2>4, <2>5, <2>6 DEF Next, LoopStep, Terminated
<1> QED
  BY <1>1, <1>2 DEF LocalInv

(* LocalInv holds when the loop starts.                                    *)
LEMMA InitLocalInv == Init => LocalInv
<1> SUFFICES ASSUME Init PROVE LocalInv
  OBVIOUS
<1>1. /\ \A v \in Workers :
           /\ events[v] = <<>> /\ conn[v] = "none"
           /\ proc[v] = IF v \in InitialWorkers THEN "booting" ELSE "unborn"
           /\ child[v] = IF v \in InitialWorkers THEN "unconnected" ELSE "none"
      /\ pc = "dispatch" /\ pids = {} /\ suspects = {}
  BY DEF Init
<1>2. \A v \in Workers : Local(v)
  BY <1>1 DEF Local, Heard, Parented
<1> QED
  BY <1>1, <1>2 DEF LocalInv, BornInv

-------------------------------------------------------------------------------
(* pending_accepts.                                                        *)

\* A worker the loop has still to hear of, read off its connection.
Unheard(w) ==
  \/ proc[w] # "unborn" /\ conn[w] \in {"none", "backlog", "handshake"}
  \/ conn[w] = "accepted"
  \/ conn[w] = "failed" /\ events[w] # <<>>

UnheardSet == {w \in Workers : Unheard(w)}

PendingInv ==
  /\ pendingAccepts = Cardinality(UnheardSet)
  /\ pc = "drain" => pendingAccepts = 0 /\ senders = {}

(* The workers whose event is awaited are those that are unheard of.       *)
LEMMA AwaitedIsUnheard ==
  ASSUME TypeInv, NEW w \in Workers, Heard(w) PROVE Awaited(w) <=> Unheard(w)
<1>1. Len(events[w]) \in Nat /\ DOMAIN events[w] = 1 .. Len(events[w])
      /\ (events[w] # <<>> => 1 \in DOMAIN events[w])
  BY DEF TypeInv, TypeOK
<1>2. Handshaken(w)
  BY DEF TypeInv
<1>3. CASE conn[w] \in {"none", "backlog", "handshake"}
  BY <1>1, <1>2, <1>3 DEF Handshaken, Awaited, Unheard
<1>4. CASE conn[w] = "accepted"
  BY <1>1, <1>2, <1>4 DEF Handshaken, Awaited, Unheard
<1>5. CASE conn[w] = "failed"
  <2>1. \A i \in DOMAIN events[w] : events[w][i].kind = "AcceptFailed"
    <3>1. \A n \in Nat : n < 2 => \A i \in 1 .. n : i = 1
      OBVIOUS
    <3>2. \A i \in DOMAIN events[w] : i = 1
      BY <1>1, <1>5, <3>1 DEF Heard
    <3> QED
      BY <1>1, <1>5, <3>2 DEF Heard
  <2> QED
    BY <1>1, <1>5, <2>1 DEF Awaited, Unheard
<1>6. CASE conn[w] \notin {"none", "backlog", "handshake", "accepted", "failed"}
  BY <1>1, <1>2, <1>6 DEF Handshaken, Heard, Awaited, Unheard
<1> QED
  BY <1>3, <1>4, <1>5, <1>6

(* Whether a worker is unheard of depends on these of its variables.       *)
LEMMA UnheardFrame ==
  ASSUME NEW v \in Workers, proc'[v] = "unborn" <=> proc[v] = "unborn", conn'[v] = conn[v],
         conn[v] = "failed" => (events'[v] = <<>> <=> events[v] = <<>>)
  PROVE  Unheard(v)' <=> Unheard(v)
  BY DEF Unheard

(* The workers are finitely many, and fewer than usize has values.         *)
LEMMA UnheardFinite ==
  /\ IsFiniteSet(UnheardSet) /\ Cardinality(UnheardSet) \in Nat
  /\ Cardinality(UnheardSet) <= Cardinality(Workers)
  /\ Cardinality(Workers) \in Nat
  BY PoolAssumption, FS_Subset, FS_CardinalityType DEF UnheardSet

\* A worker that is heard of leaves the count, by one decrement.
LEMMA CountHeard ==
  ASSUME NEW w \in Workers, Unheard(w), ~Unheard(w)',
         \A v \in Workers : v # w => (Unheard(v)' <=> Unheard(v)),
         pendingAccepts = Cardinality(UnheardSet), pendingAccepts' = Dec(pendingAccepts)
  PROVE  pendingAccepts' = Cardinality(UnheardSet')
<1>1. w \in UnheardSet /\ UnheardSet' = UnheardSet \ {w}
  BY DEF UnheardSet
<1>2. Cardinality(UnheardSet') = Cardinality(UnheardSet) - 1
  BY <1>1, UnheardFinite, FS_RemoveElement
<1>3. Cardinality(UnheardSet) # 0
  BY <1>1, UnheardFinite, FS_EmptySet
<1> QED
  BY <1>2, <1>3 DEF Dec

\* A replacement enters the count, by one increment that does not wrap.
LEMMA CountSpawned ==
  ASSUME NEW w \in Workers, ~Unheard(w), Unheard(w)',
         \A v \in Workers : v # w => (Unheard(v)' <=> Unheard(v)),
         pendingAccepts = Cardinality(UnheardSet), pendingAccepts' = Inc(pendingAccepts)
  PROVE  pendingAccepts' = Cardinality(UnheardSet')
<1>1. w \notin UnheardSet /\ UnheardSet' = UnheardSet \cup {w}
  BY DEF UnheardSet
<1>2. Cardinality(UnheardSet') = Cardinality(UnheardSet) + 1
  BY <1>1, UnheardFinite, FS_AddElement
<1>3. Cardinality(UnheardSet) # UsizeModulus - 1
  <2>1. IsFiniteSet(UnheardSet \cup {w}) /\ UnheardSet \cup {w} \subseteq Workers
    BY UnheardFinite, FS_AddElement DEF UnheardSet
  <2>2. Cardinality(UnheardSet') <= Cardinality(Workers)
    BY <1>1, <2>1, PoolAssumption, FS_Subset
  <2>3. /\ Cardinality(Workers) < UsizeModulus /\ UsizeModulus \in Nat
        /\ Cardinality(Workers) \in Nat /\ Cardinality(UnheardSet) \in Nat
    BY PoolAssumption, UnheardFinite
  <2> QED
    BY <1>2, <2>2, <2>3
<1> QED
  BY <1>2, <1>3 DEF Inc

\* A step that hears of no worker and spawns none.
LEMMA CountKept ==
  ASSUME \A v \in Workers : Unheard(v)' <=> Unheard(v),
         pendingAccepts = Cardinality(UnheardSet), pendingAccepts' = pendingAccepts
  PROVE  pendingAccepts' = Cardinality(UnheardSet')
<1>1. UnheardSet' = UnheardSet
  BY DEF UnheardSet
<1> QED
  BY <1>1

\* A handler that replaces a worker it has heard of.
LEMMA CountRespawn ==
  ASSUME TypeInv, NEW w \in Workers, NotReplaced(w) \/ \E n \in Workers : Spawned(w, n),
         UNCHANGED conn, \A v \in Workers : v # w => events'[v] = events[v],
         conn[w] # "failed" \/ events'[w] = events[w],
         pendingAccepts = Cardinality(UnheardSet)
  PROVE  pendingAccepts' = Cardinality(UnheardSet')
<1>1. ASSUME NEW v \in Workers, Kept(w, v) PROVE Unheard(v)' <=> Unheard(v)
  <2>1. proc'[v] = "unborn" <=> proc[v] = "unborn"
    BY <1>1 DEF Kept
  <2>2. conn[v] = "failed" => events'[v] = events[v]
    OBVIOUS
  <2> QED
    BY <2>1, <2>2, UnheardFrame
<1>2. CASE NotReplaced(w)
  BY <1>1, <1>2, CountKept DEF NotReplaced
<1>3. ASSUME NEW n \in Workers, Spawned(w, n)
      PROVE  pendingAccepts' = Cardinality(UnheardSet')
  <2>1. ~Unheard(n) /\ Unheard(n)'
    <3>1. conn[n] = "none" /\ proc[n] = "unborn" /\ proc'[n] = "booting"
      BY <1>3, BornIfHeard DEF Spawned
    <3> QED
      BY <3>1 DEF Unheard
  <2>2. \A v \in Workers : v # n => (Unheard(v)' <=> Unheard(v))
    BY <1>1, <1>3 DEF Spawned
  <2> QED
    BY <1>3, <2>1, <2>2, CountSpawned DEF Spawned
<1> QED
  BY <1>2, <1>3

(* Tasks and workers leave the count alone.                                *)
LEMMA TaskStepCount ==
  ASSUME TypeInv, LocalInv, NEW w \in Workers, TaskStep(w) \/ WorkerStep(w)
  PROVE  \A v \in Workers : Unheard(v)' <=> Unheard(v)
<1> USE DEF TypeInv, loopVars, procVars
<1>0. /\ DOMAIN conn = Workers /\ DOMAIN fromWorker = Workers /\ DOMAIN events = Workers
      /\ Handshaken(w)
  BY DEF TypeOK
<1>1. CASE WorkerStep(w)
  <2>1. /\ UNCHANGED events
        /\ \A v \in Workers : v # w => UNCHANGED <<proc[v], conn[v]>>
        /\ proc[w] # "unborn" /\ proc'[w] # "unborn"
        /\ conn'[w] = conn[w] \/ (conn[w] = "none" /\ conn'[w] = "backlog")
    BY <1>1, WorkerStepEffect
  <2> QED
    BY <2>1 DEF Unheard
<1>2. CASE TaskStep(w)
  <2>1. /\ UNCHANGED proc
        /\ \A v \in Workers : v # w => UNCHANGED <<conn[v], events[v]>>
    BY <1>0, <1>2 DEF TaskStep, HandshakeReady, HandshakeFailed, HandshakeEnds, TaskForward,
       TaskRead, TaskEof, TaskTimeout, TaskDisconnects, TaskClosed
  <2>2. ASSUME NEW v \in Workers, v # w PROVE Unheard(v)' <=> Unheard(v)
    BY <2>1, <2>2, UnheardFrame
  <2>3. CASE HandshakeReady(w) \/ HandshakeFailed(w)
    <3>1. conn[w] = "handshake" /\ proc[w] # "unborn"
      BY <1>0, <2>3 DEF HandshakeReady, HandshakeFailed, Handshaken
    <3>2. CASE HandshakeReady(w)
      BY <1>0, <2>1, <2>2, <3>1, <3>2 DEF HandshakeReady, HandshakeEnds, Unheard
    <3>3. CASE HandshakeFailed(w)
      <4>1. conn'[w] = "failed" /\ events[w] = <<>>
            /\ events'[w] = Append(<<>>, Event("AcceptFailed", NoMutant, "Error"))
        BY <1>0, <3>1, <3>3 DEF HandshakeFailed, HandshakeEnds, Handshaken
      <4>2. events'[w] # <<>>
        BY <4>1, AppendToEmpty
      <4> QED
        BY <2>1, <2>2, <3>1, <4>1, <4>2 DEF Unheard
    <3> QED
      BY <2>3, <3>2, <3>3
  <2>4. CASE ~(HandshakeReady(w) \/ HandshakeFailed(w))
    <3>1. conn[w] = "open" /\ conn'[w] \in {"open", "eof", "timedout", "closed"}
      BY <1>0, <1>2, <2>4 DEF TaskStep, TaskForward, TaskRead, TaskEof, TaskTimeout,
         TaskDisconnects, TaskClosed
    <3> QED
      BY <2>2, <3>1 DEF Unheard
  <2> QED
    BY <2>3, <2>4
<1> QED
  BY <1>1, <1>2

(* The dispatch loop, event by event.                                      *)
LEMMA HandleEventCount ==
  ASSUME TypeInv, LocalInv, NEW w \in Workers, HandleEvent(w),
         pendingAccepts = Cardinality(UnheardSet)
  PROVE  pendingAccepts' = Cardinality(UnheardSet')
<1>0. PICK k \in {"Connected", "AcceptFailed", "Result", "Error", "Disconnected"} :
        /\ Receive(w, k)
        /\ k = "Connected" => HandleConnected(w)
        /\ k = "AcceptFailed" => HandleAcceptFailed(w)
        /\ k \notin {"Connected", "AcceptFailed"} =>
             HandleResult(w) \/ HandleError(w) \/ HandleDisconnected(w)
  <2>1. /\ HandleConnected(w) => Receive(w, "Connected")
        /\ HandleAcceptFailed(w) => Receive(w, "AcceptFailed")
        /\ HandleResult(w) => Receive(w, "Result")
        /\ HandleError(w) => Receive(w, "Error")
        /\ HandleDisconnected(w) => Receive(w, "Disconnected")
    BY DEF HandleConnected, HandleAcceptFailed, HandleResult, HandleError, HandleDisconnected
  <2> QED
    BY <2>1 DEF HandleEvent
<1>1. /\ TypeOK /\ Handshaken(w) /\ Heard(w) /\ proc[w] # "unborn"
      /\ events[w] # <<>> /\ events[w][1].kind = k /\ 1 \in 1 .. Len(events[w])
      /\ \A v \in Workers : v # w => events'[v] = events[v]
      /\ Len(events[w]) < 2 => events'[w] = <<>>
  <2>1. /\ events[w] # <<>> /\ events[w][1].kind = k
        /\ \A v \in Workers : v # w => events'[v] = events[v]
        /\ Len(events[w]) < 2 => events'[w] = <<>>
    BY <1>0, TakenEvent
  <2>2. 1 \in 1 .. Len(events[w])
    BY <1>0, Received
  <2> QED
    BY <2>1, <2>2, BornIfHeard DEF TypeInv, LocalInv, Local
<1>2. CASE k = "Connected"
  <2>1. conn[w] = "accepted"
    BY <1>1, <1>2 DEF Handshaken
  <2>2. conn' = [conn EXCEPT ![w] = "open"] /\ proc' = proc
        /\ pendingAccepts' = Dec(pendingAccepts)
    BY <1>0, <1>2 DEF HandleConnected
  <2>3. Unheard(w) /\ ~Unheard(w)'
    BY <1>1, <2>1, <2>2 DEF Unheard, TypeOK
  <2>4. ASSUME NEW v \in Workers, v # w PROVE Unheard(v)' <=> Unheard(v)
    BY <1>1, <2>2, <2>4, UnheardFrame DEF TypeOK
  <2> QED
    BY <2>2, <2>3, <2>4, CountHeard
<1>3. CASE k = "AcceptFailed"
  <2>1. conn[w] = "failed" /\ events'[w] = <<>>
    BY <1>1, <1>3 DEF Heard
  <2>2. conn' = conn /\ proc' = proc /\ pendingAccepts' = Dec(pendingAccepts)
    BY <1>0, <1>3 DEF HandleAcceptFailed, procVars
  <2>3. Unheard(w) /\ ~Unheard(w)'
    BY <1>1, <2>1, <2>2 DEF Unheard
  <2>4. ASSUME NEW v \in Workers, v # w PROVE Unheard(v)' <=> Unheard(v)
    BY <1>1, <2>2, <2>4, UnheardFrame
  <2> QED
    BY <2>2, <2>3, <2>4, CountHeard
<1>4. CASE k \notin {"Connected", "AcceptFailed"}
  <2>1. conn' = conn
    BY <1>0, <1>4 DEF HandleResult, HandleError, HandleDisconnected
  <2>2. conn[w] # "failed"
    BY <1>1, <1>4 DEF Heard
  <2>3. \/ UNCHANGED <<proc, pendingAccepts>>
        \/ RespawnWorker(Reaped(w), Dropped(w)) \/ NoRespawn(Reaped(w), Dropped(w))
    BY <1>0, <1>4 DEF HandleResult, HandleError, HandleDisconnected, procVars
  <2>4. CASE UNCHANGED <<proc, pendingAccepts>>
    <3>1. ASSUME NEW v \in Workers PROVE Unheard(v)' <=> Unheard(v)
      BY <1>1, <2>1, <2>2, <2>4, UnheardFrame
    <3> QED
      BY <2>4, <3>1, CountKept
  <2>5. CASE RespawnWorker(Reaped(w), Dropped(w)) \/ NoRespawn(Reaped(w), Dropped(w))
    BY <1>1, <2>1, <2>2, <2>5, RespawnEffect, CountRespawn
  <2> QED
    BY <2>3, <2>4, <2>5
<1> QED
  BY <1>2, <1>3, <1>4

(* Every step keeps the count, unless accept() fails.                      *)
LEMMA NextCount ==
  ASSUME ~AcceptFails, TypeInv, LocalInv, [Next]_vars,
         pendingAccepts = Cardinality(UnheardSet)
  PROVE  pendingAccepts' = Cardinality(UnheardSet')
<1> USE DEF loopVars, procVars, wireVars
<1>1. ASSUME NEW w \in Workers, TaskStep(w) \/ WorkerStep(w)
      PROVE  pendingAccepts' = Cardinality(UnheardSet')
  <2>1. pendingAccepts' = pendingAccepts
    <3>1. WorkerStep(w) => pendingAccepts' = pendingAccepts
      BY WorkerStepEffect
    <3>2. TaskStep(w) => pendingAccepts' = pendingAccepts
      BY DEF TaskStep, HandshakeReady, HandshakeFailed, HandshakeEnds, TaskForward,
         TaskRead, TaskEof, TaskTimeout, TaskDisconnects, TaskClosed
    <3> QED
      BY <1>1, <3>1, <3>2
  <2> QED
    BY <1>1, <2>1, TaskStepCount, CountKept
<1>2. ASSUME NEW w \in Workers, HandleEvent(w)
      PROVE  pendingAccepts' = Cardinality(UnheardSet')
  BY <1>2, HandleEventCount
<1>3. ASSUME NEW w \in Workers, HealthCheck(w)
      PROVE  pendingAccepts' = Cardinality(UnheardSet')
  <2>1. proc[w] # "unborn" /\ TypeOK /\ UNCHANGED <<conn, events>>
        /\ (RespawnWorker(proc, child) \/ NoRespawn(proc, child))
    BY <1>3 DEF HealthCheck, LocalInv, BornInv, TypeInv
  <2> QED
    BY <2>1, RespawnEffect, CountRespawn
<1>4. CASE \/ LoopTop \/ DrainEnd \/ HealthTick \/ MemoryTick
           \/ \E m \in Mutants : DispatchOne(m) \/ DrainOne(m)
  <2>1. UNCHANGED <<proc, conn, events, pendingAccepts>>
    BY <1>4 DEF LoopTop, DrainEnd, HealthTick, MemoryTick, DispatchOne, DrainOne
  <2> QED
    BY <2>1, UnheardFrame, CountKept
<1>5. ASSUME NEW w \in Workers, AcceptConnection(w)
      PROVE  pendingAccepts' = Cardinality(UnheardSet')
  <2>1. /\ UNCHANGED <<proc, events, pendingAccepts>> /\ conn[w] = "backlog"
        /\ conn' = [conn EXCEPT ![w] = "handshake"]
    BY <1>5 DEF AcceptConnection
  <2>2. \A v \in Workers : Unheard(v)' <=> Unheard(v)
    BY <2>1 DEF Unheard, TypeInv, TypeOK
  <2> QED
    BY <2>1, <2>2, CountKept
<1>6. CASE Return
  <2>1. /\ UNCHANGED <<conn, events, pendingAccepts>>
        /\ proc' = [w \in Workers |-> IF w \in Held /\ ~Wrapped THEN "dead" ELSE proc[w]]
    BY <1>6 DEF Return
  <2>2. \A v \in Workers : proc'[v] = "unborn" <=> proc[v] = "unborn"
    BY <2>1 DEF LocalInv, Local, Parented, Held
  <2> QED
    BY <2>1, <2>2, UnheardFrame, CountKept
<1>7. ~AcceptFailure
  BY DEF AcceptFailure
<1>8. CASE UNCHANGED vars
  BY <1>8, UnheardFrame, CountKept DEF vars
<1> QED
  BY <1>1, <1>2, <1>3, <1>4, <1>5, <1>6, <1>7, <1>8 DEF Next, LoopStep, Terminated

(* The loop is drained only once nobody is left to wait for.               *)
LEMMA NextPendingInv ==
  ASSUME ~AcceptFails, TypeInv, LocalInv, PendingInv, [Next]_vars PROVE PendingInv'
<1> USE DEF loopVars, procVars, wireVars
<1>1. ASSUME pc' = "drain" PROVE pendingAccepts' = 0 /\ senders' = {}
  <2>1. CASE LoopTop
    BY <1>1, <2>1 DEF LoopTop, IsStuck
  <2>2. CASE ~LoopTop
    <3>1. pc = "drain" /\ UNCHANGED <<pendingAccepts, senders>>
      <4>1. ASSUME NEW w \in Workers, TaskStep(w) \/ WorkerStep(w)
            PROVE  UNCHANGED <<pc, pendingAccepts, senders>>
        <5>1. WorkerStep(w) => UNCHANGED <<pc, pendingAccepts, senders>>
          BY WorkerStepEffect
        <5>2. TaskStep(w) => UNCHANGED <<pc, pendingAccepts, senders>>
          BY DEF TaskStep, HandshakeReady, HandshakeFailed, HandshakeEnds, TaskForward,
             TaskRead, TaskEof, TaskTimeout, TaskDisconnects, TaskClosed
        <5> QED
          BY <4>1, <5>1, <5>2
      <4>2. ASSUME NEW w \in Workers, HandleEvent(w) PROVE pc' = "dispatch"
        BY <4>2 DEF HandleEvent, HandleConnected, HandleAcceptFailed, HandleResult,
           HandleError, HandleDisconnected, Receive, Selecting
      <4>3. ASSUME NEW w \in Workers, AcceptConnection(w) \/ HealthCheck(w)
            PROVE  pc' # "drain"
        BY <4>3 DEF AcceptConnection, HealthCheck, Selecting
      <4>4. ASSUME DrainEnd \/ Return \/ HealthTick \/ AcceptFailure \/ MemoryTick
            PROVE  pc' # "drain"
        BY <4>4 DEF DrainEnd, Return, HealthTick, AcceptFailure, MemoryTick, Selecting
      <4>5. ASSUME NEW m \in Mutants, DispatchOne(m) PROVE pc' # "drain"
        BY <4>5 DEF DispatchOne
      <4>6. ASSUME NEW m \in Mutants, DrainOne(m)
            PROVE  UNCHANGED <<pc, pendingAccepts, senders>>
        BY <4>6 DEF DrainOne
      <4>7. UNCHANGED vars => UNCHANGED <<pc, pendingAccepts, senders>>
        BY DEF vars
      <4> QED
        BY <1>1, <2>2, <4>1, <4>2, <4>3, <4>4, <4>5, <4>6, <4>7
           DEF Next, LoopStep, Terminated
    <3> QED
      BY <3>1 DEF PendingInv
  <2> QED
    BY <2>1, <2>2
<1> QED
  BY <1>1, NextCount DEF PendingInv

(* Every worker of the PreSpawnedPool is awaited when the loop starts.     *)
LEMMA InitPendingInv == Init => PendingInv
<1> SUFFICES ASSUME Init PROVE PendingInv
  OBVIOUS
<1>1. UnheardSet = InitialWorkers
  BY PoolAssumption DEF Init, UnheardSet, Unheard
<1> QED
  BY <1>1 DEF Init, PendingInv

(* LocalInv holds throughout.                                              *)
LEMMA LocalInvHolds == Spec => [](TypeInv /\ LocalInv)
<1> DEFINE Inv == TypeInv /\ LocalInv
<1>1. Init => Inv
  BY InitTypeInv, InitLocalInv
<1>2. Inv /\ [Next]_vars => Inv'
  BY NextTypeInv, NextLocalInv
<1> QED
  BY <1>1, <1>2, PTL DEF Spec

(* So does PendingInv, while accept() neither fails nor times out.         *)
LEMMA PendingInvHolds == ASSUME ~AcceptFails PROVE Spec => []PendingInv
<1>1. Init => PendingInv
  BY InitPendingInv
<1>2. TypeInv /\ LocalInv /\ PendingInv /\ [Next]_vars => PendingInv'
  BY NextPendingInv
<1> QED
  BY <1>1, <1>2, LocalInvHolds, PTL DEF Spec

(* pending_accepts, which the accept loop, the handlers of Connected and   *)
(* AcceptFailed and three places that respawn change by one each, counts   *)
(* exactly the workers whose handshake is still to be reported: it never   *)
(* wraps below zero or above usize, with or without a launcher, and        *)
(* whether or not workers die before they connect.                         *)
THEOREM PendingAcceptsAreExact == ASSUME ~AcceptFails PROVE Spec => []PendingIsExact
<1>1. ASSUME TypeInv, LocalInv, PendingInv PROVE PendingIsExact
  <2>1. {w \in Workers : Awaited(w)} = UnheardSet
    BY <1>1, AwaitedIsUnheard DEF UnheardSet, LocalInv, Local
  <2> QED
    BY <1>1, <2>1 DEF PendingInv, PendingIsExact
<1>2. TypeInv /\ LocalInv /\ PendingInv => PendingIsExact
  BY <1>1
<1> QED
  BY <1>2, LocalInvHolds, PendingInvHolds, PTL

(* handle_stuck writes the rest of the queue off only when no worker can   *)
(* turn up any more: none is connected, and none is booting, in the        *)
(* backlog or in its handshake.                                            *)
THEOREM NeverGivesUpEarly == ASSUME ~AcceptFails PROVE Spec => []NoPrematureGiveUp
<1>1. ASSUME TypeInv, LocalInv, PendingInv PROVE NoPrematureGiveUp
  <2>1. SUFFICES ASSUME pc = "drain", NEW w \in Workers
                 PROVE  ~Awaited(w) /\ w \notin senders
    BY DEF NoPrematureGiveUp
  <2>2. UnheardSet = {} /\ senders = {}
    BY <1>1, <2>1, UnheardFinite, FS_EmptySet DEF PendingInv
  <2> QED
    BY <1>1, <2>2, AwaitedIsUnheard DEF UnheardSet, LocalInv, Local
<1>2. TypeInv /\ LocalInv /\ PendingInv => NoPrematureGiveUp
  BY <1>1
<1> QED
  BY <1>2, LocalInvHolds, PendingInvHolds, PTL

-------------------------------------------------------------------------------
(* The size of the pool, and its end.                                      *)

(* run_worker_pool leaves no process behind: whatever still lives hangs on *)
(* a Child handle that shutdown drops (kill_on_drop), recycled workers and *)
(* those that never connected included.                                    *)
THEOREM NoWorkerOutlivesTheRun == ASSUME ~Wrapped PROVE Spec => []NoOrphans
<1>1. LocalInv => NoOrphans
  BY DEF LocalInv, Local, Parented, NoOrphans
<1> QED
  BY <1>1, LocalInvHolds, PTL

SlotInv ==
  /\ pc # "returned" => \A w \in senders : child[w] = "processes"
  /\ \A w \in Workers :
       pc # "returned" /\ conn[w] \in {"none", "backlog", "handshake", "accepted"} =>
         child[w] \in {"none", "unconnected"} /\ (proc[w] # "unborn" => child[w] = "unconnected")
  /\ Cardinality(Held) <= Cardinality(InitialWorkers)

(* The handles are finitely many.                                          *)
LEMMA HeldFinite ==
  /\ IsFiniteSet(Held) /\ Cardinality(Held) \in Nat
  /\ IsFiniteSet(InitialWorkers) /\ Cardinality(InitialWorkers) \in Nat
  BY PoolAssumption, FS_Subset, FS_CardinalityType DEF Held

(* Dropping handles, or leaving them, keeps within the number.             *)
LEMMA HeldShrinks ==
  ASSUME Held' \subseteq Held, Cardinality(Held) <= Cardinality(InitialWorkers)
  PROVE  Cardinality(Held') <= Cardinality(InitialWorkers)
<1>1. Cardinality(Held') <= Cardinality(Held) /\ Cardinality(Held') \in Nat
  BY HeldFinite, FS_Subset, FS_CardinalityType
<1> QED
  BY <1>1, HeldFinite

(* So does dropping one for one.                                           *)
LEMMA HeldSwapped ==
  ASSUME NEW w \in Held, NEW n, Held' \subseteq (Held \ {w}) \cup {n},
         Cardinality(Held) <= Cardinality(InitialWorkers)
  PROVE  Cardinality(Held') <= Cardinality(InitialWorkers)
<1> DEFINE R == Held \ {w}
<1>1. IsFiniteSet(R) /\ Cardinality(R) = Cardinality(Held) - 1
  BY HeldFinite, FS_RemoveElement
<1> HIDE DEF R
<1>2. /\ IsFiniteSet(R \cup {n})
      /\ Cardinality(R \cup {n}) = IF n \in R THEN Cardinality(R) ELSE Cardinality(R) + 1
  BY <1>1, FS_AddElement
<1>3. Cardinality(R \cup {n}) <= Cardinality(Held)
  BY <1>1, <1>2, HeldFinite
<1>4. /\ Cardinality(Held') <= Cardinality(R \cup {n}) /\ Cardinality(Held') \in Nat
      /\ Cardinality(R \cup {n}) \in Nat
  BY <1>2, FS_Subset, FS_CardinalityType DEF R
<1> QED
  BY <1>3, <1>4, HeldFinite

(* A connected worker that is replaced loses its handle.                   *)
LEMMA HandleDropped ==
  ASSUME TypeOK, NEW w \in Workers, proc[w] # "unborn", child[w] = "processes",
         RespawnWorker(Reaped(w), Dropped(w)) \/ NoRespawn(Reaped(w), Dropped(w))
  PROVE  child'[w] = "dropped"
<1>1. Dropped(w)[w] = "dropped" /\ Reaped(w)[w] = "dead" /\ DOMAIN Dropped(w) = Workers
  BY DEF TypeOK, Dropped, Reaped
<1>2. ASSUME NEW n \in Workers, Reaped(w)[n] = "unborn",
             child' = [Dropped(w) EXCEPT ![n] = "unconnected"]
      PROVE  child'[w] = "dropped"
  <2>1. n # w
    BY <1>1, <1>2
  <2> QED
    BY <1>1, <1>2, <2>1
<1> QED
  BY <1>1, <1>2 DEF RespawnWorker, NoRespawn

\* A handler that retires w, which it replaces only if w was connected.
LEMMA SlotRespawn ==
  ASSUME TypeInv, SlotInv, NEW w \in Workers, proc[w] # "unborn", pc # "returned",
         conn[w] \notin {"none", "backlog", "handshake", "accepted"},
         UNCHANGED conn, senders' = senders \ {w},
         RespawnWorker(Reaped(w), Dropped(w)) \/ NoRespawn(Reaped(w), Dropped(w)),
         w \in senders \/ NoRespawn(Reaped(w), Dropped(w))
  PROVE  SlotInv'
<1>1. NotReplaced(w) \/ \E n \in Workers : Spawned(w, n)
  BY RespawnEffect DEF TypeInv
<1>2. ASSUME NEW v \in senders' PROVE child'[v] = "processes"
  <2>1. v \in Workers /\ v # w /\ child[v] = "processes" /\ proc[v] # "unborn"
    BY <1>2, BornIfHeard DEF TypeInv, TypeOK, SlotInv
  <2> QED
    BY <1>1, <2>1 DEF NotReplaced, Spawned, Kept
<1>3. ASSUME NEW v \in Workers, conn'[v] \in {"none", "backlog", "handshake", "accepted"}
      PROVE  /\ child'[v] \in {"none", "unconnected"}
             /\ proc'[v] # "unborn" => child'[v] = "unconnected"
  <2>1. v # w /\ child[v] \in {"none", "unconnected"}
        /\ (proc[v] # "unborn" => child[v] = "unconnected")
    BY <1>3 DEF SlotInv
  <2> QED
    BY <1>1, <2>1 DEF NotReplaced, Spawned, Kept
<1>4. CASE NoRespawn(Reaped(w), Dropped(w))
  <2>1. Held' \subseteq Held
    BY <1>4 DEF NoRespawn, Dropped, Held, TypeInv, TypeOK
  <2> QED
    BY <1>2, <1>3, <2>1, HeldShrinks DEF SlotInv
<1>5. CASE w \in senders
  <2>1. w \in Held /\ child[w] = "processes" /\ child'[w] = "dropped"
    BY <1>5, HandleDropped DEF SlotInv, Held, TypeInv
  <2>2. CASE NotReplaced(w)
    <3>1. Held' \subseteq Held
      BY <2>2 DEF NotReplaced, Kept, Held
    <3> QED
      BY <1>2, <1>3, <3>1, HeldShrinks DEF SlotInv
  <2>3. ASSUME NEW n \in Workers, Spawned(w, n) PROVE SlotInv'
    <3>1. Held' \subseteq (Held \ {w}) \cup {n}
      BY <2>1, <2>3 DEF Spawned, Kept, Held
    <3> QED
      BY <1>2, <1>3, <2>1, <3>1, HeldSwapped DEF SlotInv
  <2> QED
    BY <1>1, <2>2, <2>3
<1> QED
  BY <1>4, <1>5

\* A step that leaves the handles, and the connections once open, alone.
LEMMA SlotFrame ==
  ASSUME TypeInv, SlotInv, UNCHANGED <<child, senders>>, pc = "returned" => pc' = "returned",
         \A v \in Workers :
           conn'[v] \in {"none", "backlog", "handshake", "accepted"} =>
             /\ conn[v] \in {"none", "backlog", "handshake", "accepted"}
             /\ proc'[v] # "unborn" => proc[v] # "unborn"
  PROVE  SlotInv'
<1>1. Held' = Held
  BY DEF Held
<1> QED
  BY <1>1 DEF SlotInv

(* Handling an event keeps the number of handles.                          *)
LEMMA HandleEventSlots ==
  ASSUME ~Wrapped, TypeInv, DirectInv, SlotInv, NEW w \in Workers, HandleEvent(w)
  PROVE  SlotInv'
<1>1. PICK k : Receive(w, k)
  BY DEF HandleEvent, HandleConnected, HandleAcceptFailed, HandleResult, HandleError,
     HandleDisconnected
<1>2. /\ proc[w] # "unborn" /\ TypeOK /\ pc = "select" /\ pc' = "dispatch"
      /\ events[w] # <<>> /\ events[w][1].kind = k /\ 1 \in 1 .. Len(events[w])
      /\ Handshaken(w) /\ Link(w)
  <2>1. pc = "select" /\ pc' = "dispatch" /\ events[w] # <<>> /\ events[w][1].kind = k
    BY <1>1, TakenEvent
  <2>2. 1 \in 1 .. Len(events[w])
    BY <1>1, Received
  <2> QED
    BY <2>1, <2>2, BornIfHeard DEF TypeInv, DirectInv
<1>3. k # "Connected" => conn[w] \notin {"none", "backlog", "handshake", "accepted"}
  BY <1>2 DEF Handshaken
<1>4. active[w] # NoMutant => w \in senders
  BY DEF DirectInv, Books, LoopInv
<1>5. CASE HandleConnected(w)
  <2>1. /\ Receive(w, "Connected") /\ UNCHANGED proc /\ senders' = senders \cup {w}
        /\ conn' = [conn EXCEPT ![w] = "open"]
        /\ child' = [child EXCEPT ![w] = "processes"]
    BY <1>5 DEF HandleConnected
  <2>2. conn[w] = "accepted"
    BY <1>2, <2>1, TakenEvent DEF Handshaken
  <2>3. child[w] = "unconnected"
    BY <1>2, <2>2 DEF SlotInv
  <2>4. Held' \subseteq Held
    BY <2>1, <2>3 DEF Held, TypeInv, TypeOK
  <2>5. \A v \in senders' : child'[v] = "processes"
    BY <1>2, <2>1 DEF SlotInv, TypeInv, TypeOK
  <2>6. ASSUME NEW v \in Workers, conn'[v] \in {"none", "backlog", "handshake", "accepted"}
        PROVE  /\ child'[v] \in {"none", "unconnected"}
               /\ proc'[v] # "unborn" => child'[v] = "unconnected"
    BY <1>2, <2>1, <2>6 DEF SlotInv, TypeInv, TypeOK
  <2> QED
    BY <2>4, <2>5, <2>6, HeldShrinks DEF SlotInv
<1>6. CASE HandleAcceptFailed(w) \/ HandleError(w)
  <2>1. UNCHANGED <<proc, child, senders, conn>>
    BY <1>6 DEF HandleAcceptFailed, HandleError, procVars
  <2> QED
    BY <1>2, <2>1, SlotFrame
<1>7. CASE HandleResult(w)
  <2>1. CASE w \in flagged /\ queue # {}
    <3>1. /\ k = "Result" /\ conn' = conn /\ senders' = senders \ {w}
          /\ RespawnWorker(Reaped(w), Dropped(w))
      BY <1>1, <1>7, <2>1 DEF HandleResult, Receive
    <3>2. w \in senders
      BY <1>2, <1>4, <3>1, AnswerIsCurrent, PoolAssumption DEF Answers
    <3> QED
      BY <1>2, <1>3, <3>1, <3>2, SlotRespawn
  <2>2. CASE ~(w \in flagged /\ queue # {})
    <3>1. UNCHANGED <<proc, child, senders, conn>>
      BY <1>7, <2>2 DEF HandleResult, procVars
    <3> QED
      BY <1>2, <3>1, SlotFrame
  <2> QED
    BY <2>1, <2>2
<1>8. CASE HandleDisconnected(w)
  <2>1. k = "Disconnected" /\ conn' = conn /\ senders' = senders \ {w}
    BY <1>1, <1>8 DEF HandleDisconnected, Receive
  <2>2. /\ RespawnWorker(Reaped(w), Dropped(w)) \/ NoRespawn(Reaped(w), Dropped(w))
        /\ w \in senders \/ active[w] # NoMutant \/ NoRespawn(Reaped(w), Dropped(w))
    BY <1>8 DEF HandleDisconnected
  <2> QED
    BY <1>2, <1>3, <1>4, <2>1, <2>2, SlotRespawn
<1> QED
  BY <1>5, <1>6, <1>7, <1>8 DEF HandleEvent

(* Every step does, without a launcher.                                    *)
LEMMA NextSlotInv ==
  ASSUME ~Wrapped, TypeInv, LocalInv, DirectInv, SlotInv, [Next]_vars PROVE SlotInv'
<1> USE DEF loopVars, procVars, wireVars
<1>1. ASSUME NEW w \in Workers, WorkerStep(w) PROVE SlotInv'
  <2>1. /\ UNCHANGED <<child, senders, pc>>
        /\ \A v \in Workers : v # w => UNCHANGED <<proc[v], conn[v]>>
        /\ proc[w] # "unborn"
        /\ conn'[w] = conn[w] \/ (conn[w] = "none" /\ conn'[w] = "backlog")
    BY <1>1, WorkerStepEffect
  <2> QED
    BY <2>1, SlotFrame
<1>2. ASSUME NEW w \in Workers, TaskStep(w) PROVE SlotInv'
  <2>1. UNCHANGED <<pc, child, proc, senders>>
    BY <1>2 DEF TaskStep, HandshakeReady, HandshakeFailed, HandshakeEnds, TaskForward,
       TaskRead, TaskEof, TaskTimeout, TaskDisconnects, TaskClosed
  <2>2. \A v \in Workers :
          \/ conn'[v] = conn[v]
          \/ conn[v] = "handshake"
          \/ conn'[v] \in {"eof", "timedout", "closed"}
    BY <1>2 DEF TaskStep, HandshakeReady, HandshakeFailed, HandshakeEnds, TaskForward,
       TaskRead, TaskEof, TaskTimeout, TaskDisconnects, TaskClosed, TypeInv, TypeOK
  <2> QED
    BY <2>1, <2>2, SlotFrame
<1>3. ASSUME NEW w \in Workers, HandleEvent(w) PROVE SlotInv'
  BY <1>3, HandleEventSlots
<1>4. \A w \in Workers : ~HealthCheck(w)
  BY DEF HealthCheck, DirectInv, Books, LoopInv
<1>5. CASE \/ LoopTop \/ DrainEnd \/ HealthTick \/ MemoryTick \/ AcceptFailure
           \/ \E m \in Mutants : DispatchOne(m) \/ DrainOne(m)
  <2>1. UNCHANGED <<child, proc, conn, senders>> /\ pc # "returned"
    BY <1>5 DEF LoopTop, DrainEnd, HealthTick, MemoryTick, AcceptFailure, DispatchOne,
       DrainOne, Selecting
  <2> QED
    BY <2>1, SlotFrame
<1>6. ASSUME NEW w \in Workers, AcceptConnection(w) PROVE SlotInv'
  <2>1. /\ UNCHANGED <<child, proc, senders>> /\ pc # "returned" /\ conn[w] = "backlog"
        /\ conn' = [conn EXCEPT ![w] = "handshake"]
    BY <1>6 DEF AcceptConnection, Selecting
  <2>2. \A v \in Workers : conn'[v] = conn[v] \/ conn[v] = "backlog"
    BY <2>1 DEF TypeInv, TypeOK
  <2> QED
    BY <2>1, <2>2, SlotFrame
<1>7. CASE Return
  <2>1. /\ pc' = "returned"
        /\ child' = [w \in Workers |-> IF w \in Held THEN "dropped" ELSE child[w]]
    BY <1>7 DEF Return
  <2>2. Held' \subseteq Held
    BY <2>1 DEF Held
  <2> QED
    BY <2>1, <2>2, HeldShrinks DEF SlotInv
<1>8. CASE UNCHANGED vars
  BY <1>8, SlotFrame DEF vars
<1> QED
  BY <1>1, <1>2, <1>3, <1>4, <1>5, <1>6, <1>7, <1>8 DEF Next, LoopStep, Terminated

(* The handles of the PreSpawnedPool are the first.                        *)
LEMMA InitSlotInv == Init => SlotInv
<1> SUFFICES ASSUME Init PROVE SlotInv
  OBVIOUS
<1>1. Held = InitialWorkers
  BY PoolAssumption DEF Init, Held
<1>2. Cardinality(Held) <= Cardinality(InitialWorkers)
  BY <1>1, HeldFinite
<1> QED
  BY <1>2 DEF Init, SlotInv

(* However workers are recycled for their memory, time out or crash, no    *)
(* more of them run at once than the pool was created with: a handler      *)
(* drops the handle of the worker it replaces, and replaces each once.     *)
THEOREM PoolStaysBounded == ASSUME ~Wrapped PROVE Spec => []PoolBounded
<1>1. Init => SlotInv
  BY InitSlotInv
<1>2. TypeInv /\ LocalInv /\ DirectInv /\ SlotInv /\ [Next]_vars => SlotInv'
  BY NextSlotInv
<1>3. ASSUME LocalInv, SlotInv PROVE PoolBounded
  <2> DEFINE Live == {w \in Workers : proc[w] \notin {"unborn", "dead"}}
  <2>1. Live \subseteq Held
    BY <1>3 DEF LocalInv, Local, Parented, Held
  <2>2. Cardinality(Live) <= Cardinality(Held) /\ Cardinality(Live) \in Nat
    BY <2>1, HeldFinite, FS_Subset, FS_CardinalityType
  <2>3. Cardinality(Live) <= Cardinality(InitialWorkers)
    BY <1>3, <2>2, HeldFinite DEF SlotInv
  <2> QED
    BY <2>3 DEF PoolBounded
<1>4. LocalInv /\ SlotInv => PoolBounded
  BY <1>3
<1> QED
  BY <1>1, <1>2, <1>4, LocalInvHolds, DirectInvHolds, PTL DEF Spec

-------------------------------------------------------------------------------
(* The price of a replacement.                                             *)

Replacements == {w \in Workers \ InitialWorkers : proc[w] # "unborn"}

\* The results that can pay for one, by the handlers that push them and replace
\* a worker whatever the budget.
Payers == {"handle_result", "handle_disconnect"}
Paying == {i \in DOMAIN results : results[i].by \in Payers}

SpentCrashes == {k \in 1 .. crashCount : k < MaxCrashes}

PaidInv == Cardinality(Replacements) <= Cardinality(Paying) + Cardinality(SpentCrashes)

PriceIsFinite ==
  /\ IsFiniteSet(Replacements) /\ Cardinality(Replacements) \in Nat
  /\ IsFiniteSet(Paying) /\ Cardinality(Paying) \in Nat
  /\ IsFiniteSet(SpentCrashes) /\ Cardinality(SpentCrashes) \in Nat

(* These sets are finite.                                                  *)
LEMMA PriceFiniteNow == TypeOK => PriceIsFinite
<1> SUFFICES ASSUME TypeOK PROVE PriceIsFinite
  OBVIOUS
<1>1. IsFiniteSet(Replacements) /\ Cardinality(Replacements) \in Nat
  BY PoolAssumption, FS_Subset, FS_CardinalityType DEF Replacements
<1>2. DOMAIN results = 1 .. Len(results) /\ Len(results) \in Nat /\ crashCount \in Nat
  BY DEF TypeOK
<1>3. IsFiniteSet(1 .. Len(results)) /\ IsFiniteSet(1 .. crashCount)
  BY <1>2, FS_Interval
<1>4. Paying \subseteq 1 .. Len(results) /\ SpentCrashes \subseteq 1 .. crashCount
  BY <1>2 DEF Paying, SpentCrashes
<1>5. IsFiniteSet(Paying) /\ IsFiniteSet(SpentCrashes)
  BY <1>3, <1>4, FS_Subset
<1> QED
  BY <1>1, <1>5, FS_CardinalityType DEF PriceIsFinite

(* Before a step and after it.                                             *)
LEMMA PriceFinite ==
  ASSUME TypeOK, TypeOK'
  PROVE  /\ IsFiniteSet(Replacements) /\ Cardinality(Replacements) \in Nat
         /\ IsFiniteSet(Replacements') /\ Cardinality(Replacements') \in Nat
         /\ IsFiniteSet(Paying) /\ Cardinality(Paying) \in Nat
         /\ IsFiniteSet(Paying') /\ Cardinality(Paying') \in Nat
         /\ IsFiniteSet(SpentCrashes) /\ Cardinality(SpentCrashes) \in Nat
         /\ IsFiniteSet(SpentCrashes') /\ Cardinality(SpentCrashes') \in Nat
<1>1. PriceIsFinite
  BY PriceFiniteNow
<1>2. PriceIsFinite'
  BY PriceFiniteNow, PTL
<1> QED
  BY <1>1, <1>2 DEF PriceIsFinite

(* A result never lowers what is paid, and one that can pay raises it.     *)
LEMMA VerdictPays ==
  ASSUME TypeOK, TypeOK', NEW m \in Mutants, NEW st \in Statuses, NEW h \in Handlers,
         results' = Append(results, Verdict(m, st, h))
  PROVE  /\ Cardinality(Paying) <= Cardinality(Paying')
         /\ h \in Payers => Cardinality(Paying) + 1 <= Cardinality(Paying')
<1> DEFINE n == Len(results)
<1>1. /\ n \in Nat /\ DOMAIN results = 1 .. n /\ DOMAIN results' = 1 .. n + 1
      /\ \A i \in 1 .. n : results'[i] = results[i]
      /\ results'[n + 1].by = h
  BY DEF TypeOK, Verdict
<1> HIDE DEF n
<1>2. Paying \subseteq Paying' /\ n + 1 \notin Paying
  BY <1>1 DEF Paying
<1>3. /\ IsFiniteSet(Paying) /\ Cardinality(Paying) \in Nat
      /\ IsFiniteSet(Paying') /\ Cardinality(Paying') \in Nat
  BY PriceFinite
<1>4. Cardinality(Paying) <= Cardinality(Paying')
  BY <1>2, <1>3, FS_Subset
<1>5. ASSUME h \in Payers
      PROVE  Cardinality(Paying) + 1 <= Cardinality(Paying')
  <2>1. Paying \cup {n + 1} \subseteq Paying'
    BY <1>1, <1>2, <1>5 DEF Paying
  <2>2. Cardinality(Paying \cup {n + 1}) = Cardinality(Paying) + 1
    BY <1>2, <1>3, FS_AddElement
  <2>3. Cardinality(Paying \cup {n + 1}) <= Cardinality(Paying')
    BY <1>3, <2>1, FS_Subset
  <2> QED
    BY <2>2, <2>3
<1> QED
  BY <1>4, <1>5

(* A crash never lowers it, and one within the budget raises it.           *)
LEMMA CrashPays ==
  ASSUME TypeOK, TypeOK', crashCount' = crashCount + 1
  PROVE  /\ Cardinality(SpentCrashes) <= Cardinality(SpentCrashes')
         /\ BudgetLeft(crashCount') =>
              Cardinality(SpentCrashes) + 1 <= Cardinality(SpentCrashes')
<1>1. crashCount \in Nat
  BY DEF TypeOK
<1>2. SpentCrashes \subseteq SpentCrashes' /\ crashCount + 1 \notin SpentCrashes
  BY <1>1 DEF SpentCrashes, MaxCrashes
<1>3. /\ IsFiniteSet(SpentCrashes) /\ Cardinality(SpentCrashes) \in Nat
      /\ IsFiniteSet(SpentCrashes') /\ Cardinality(SpentCrashes') \in Nat
  BY PriceFinite
<1>4. Cardinality(SpentCrashes) <= Cardinality(SpentCrashes')
  BY <1>2, <1>3, FS_Subset
<1>5. ASSUME BudgetLeft(crashCount')
      PROVE  Cardinality(SpentCrashes) + 1 <= Cardinality(SpentCrashes')
  <2>1. crashCount + 1 \in SpentCrashes'
    BY <1>1, <1>5 DEF SpentCrashes, MaxCrashes, BudgetLeft
  <2>2. SpentCrashes \cup {crashCount + 1} \subseteq SpentCrashes'
    BY <1>2, <2>1
  <2>3. Cardinality(SpentCrashes \cup {crashCount + 1}) = Cardinality(SpentCrashes) + 1
    BY <1>2, <1>3, FS_AddElement
  <2>4. Cardinality(SpentCrashes \cup {crashCount + 1}) <= Cardinality(SpentCrashes')
    BY <1>3, <2>2, FS_Subset
  <2> QED
    BY <2>3, <2>4
<1> QED
  BY <1>4, <1>5

(* A handler adds one replacement at most.                                 *)
LEMMA OneReplacement ==
  ASSUME TypeOK, TypeOK', NEW w \in Workers
  PROVE  /\ NotReplaced(w) => Cardinality(Replacements') <= Cardinality(Replacements)
         /\ (\E n \in Workers : Spawned(w, n)) =>
              Cardinality(Replacements') <= Cardinality(Replacements) + 1
<1>1. /\ IsFiniteSet(Replacements) /\ Cardinality(Replacements) \in Nat
      /\ IsFiniteSet(Replacements') /\ Cardinality(Replacements') \in Nat
  BY PriceFinite
<1>2. ASSUME NotReplaced(w)
      PROVE  Cardinality(Replacements') <= Cardinality(Replacements)
  <2>1. Replacements' \subseteq Replacements
    BY <1>2 DEF NotReplaced, Kept, Replacements
  <2> QED
    BY <1>1, <2>1, FS_Subset
<1>3. ASSUME NEW n \in Workers, Spawned(w, n)
      PROVE  Cardinality(Replacements') <= Cardinality(Replacements) + 1
  <2>1. Replacements' \subseteq Replacements \cup {n}
    BY <1>3 DEF Spawned, Kept, Replacements
  <2>2. /\ IsFiniteSet(Replacements \cup {n})
        /\ Cardinality(Replacements \cup {n}) =
             IF n \in Replacements THEN Cardinality(Replacements)
             ELSE Cardinality(Replacements) + 1
    BY <1>1, FS_AddElement
  <2>3. Cardinality(Replacements') <= Cardinality(Replacements \cup {n})
    BY <2>1, <2>2, FS_Subset
  <2> QED
    BY <1>1, <2>2, <2>3
<1> QED
  BY <1>2, <1>3

\* A step that spawns nothing and pushes a verdict or none.
LEMMA PaidFrame ==
  ASSUME TypeOK, TypeOK', PaidInv, UNCHANGED crashCount,
         \A v \in Workers : proc[v] = "unborn" => proc'[v] = "unborn",
         \/ UNCHANGED results
         \/ \E m \in Mutants, st \in Statuses, h \in Handlers :
              results' = Append(results, Verdict(m, st, h))
  PROVE  PaidInv'
<1>1. Replacements' \subseteq Replacements /\ SpentCrashes' = SpentCrashes
  BY DEF Replacements, SpentCrashes
<1>2. Cardinality(Replacements') <= Cardinality(Replacements)
  BY <1>1, PriceFinite, FS_Subset
<1>3. Cardinality(Paying) <= Cardinality(Paying')
  <2>1. CASE UNCHANGED results
    <3>1. Paying' = Paying
      BY <2>1 DEF Paying
    <3> QED
      BY <3>1, PriceFinite
  <2>2. ASSUME NEW m \in Mutants, NEW st \in Statuses, NEW h \in Handlers,
               results' = Append(results, Verdict(m, st, h))
        PROVE  Cardinality(Paying) <= Cardinality(Paying')
    BY <2>2, VerdictPays
  <2> QED
    BY <2>1, <2>2
<1>4. /\ Cardinality(Replacements) \in Nat /\ Cardinality(Replacements') \in Nat
      /\ Cardinality(Paying) \in Nat /\ Cardinality(Paying') \in Nat
      /\ Cardinality(SpentCrashes) \in Nat
  BY PriceFinite
<1> QED
  BY <1>1, <1>2, <1>3, <1>4 DEF PaidInv

\* A step that spawns one replacement and pays for it.
LEMMA PaidRespawn ==
  ASSUME TypeOK, TypeOK', PaidInv, NEW w \in Workers,
         NotReplaced(w) \/ \E n \in Workers : Spawned(w, n),
         Cardinality(Paying) <= Cardinality(Paying'),
         Cardinality(SpentCrashes) <= Cardinality(SpentCrashes'),
         \/ NotReplaced(w)
         \/ Cardinality(Paying) + 1 <= Cardinality(Paying')
         \/ Cardinality(SpentCrashes) + 1 <= Cardinality(SpentCrashes')
  PROVE  PaidInv'
<1>1. /\ Cardinality(Replacements) \in Nat /\ Cardinality(Replacements') \in Nat
      /\ Cardinality(Paying) \in Nat /\ Cardinality(Paying') \in Nat
      /\ Cardinality(SpentCrashes) \in Nat /\ Cardinality(SpentCrashes') \in Nat
  BY PriceFinite
<1>2. \/ Cardinality(Replacements') <= Cardinality(Replacements)
      \/ ~NotReplaced(w) /\ Cardinality(Replacements') <= Cardinality(Replacements) + 1
  BY OneReplacement
<1> QED
  BY <1>1, <1>2 DEF PaidInv

(* A Result event pays for the worker it recycles.                         *)
LEMMA HandleResultPaid ==
  ASSUME TypeInv, TypeOK', PaidInv, NEW w \in Workers, HandleResult(w)
  PROVE  PaidInv'
<1> DEFINE ev == Head(events[w])
<1>1. Receive(w, "Result") /\ crashCount' = crashCount
      /\ results' = Append(results, Verdict(ev.mutant, ev.status, "handle_result"))
  BY DEF HandleResult
<1>2. /\ proc[w] # "unborn" /\ ev \in WorkerEvents /\ ev.kind = "Result"
      /\ ev = events[w][1] /\ 1 \in 1 .. Len(events[w])
  BY <1>1, Received, BornIfHeard
<1>3. ev.mutant \in Mutants /\ ev.status \in Statuses
  BY <1>2, AnswerEvent DEF Answers
<1>4. "handle_result" \in Handlers /\ "handle_result" \in Payers
  BY DEF Handlers, Payers
<1>5. TypeOK
  BY DEF TypeInv
<1>6. /\ Cardinality(Paying) + 1 <= Cardinality(Paying')
      /\ Cardinality(Paying) <= Cardinality(Paying')
  BY <1>1, <1>3, <1>4, <1>5, VerdictPays
<1>7. Cardinality(SpentCrashes) <= Cardinality(SpentCrashes')
  <2>1. SpentCrashes' = SpentCrashes
    BY <1>1 DEF SpentCrashes
  <2> QED
    BY <1>5, <2>1, PriceFinite
<1>8. NotReplaced(w) \/ \E n \in Workers : Spawned(w, n)
  <2>1. CASE w \in flagged /\ queue # {}
    BY <1>2, <1>5, <2>1, RespawnEffect DEF HandleResult
  <2>2. CASE ~(w \in flagged /\ queue # {})
    BY <2>2 DEF HandleResult, procVars, NotReplaced, Kept
  <2> QED
    BY <2>1, <2>2
<1> QED
  BY <1>5, <1>6, <1>7, <1>8, PaidRespawn

\* A worker that disconnects pays for its replacement with a timeout, or with
\* a crash within the budget.
LEMMA HandleDisconnectedPaid ==
  ASSUME TypeInv, TypeOK', PaidInv, NEW w \in Workers, HandleDisconnected(w)
  PROVE  PaidInv'
<1>1. proc[w] # "unborn" /\ TypeOK
  <2>1. Receive(w, "Disconnected")
    BY DEF HandleDisconnected
  <2> QED
    BY <2>1, BornIfHeard, TakenEvent DEF TypeInv
<1>2. /\ NotReplaced(w) \/ \E n \in Workers : Spawned(w, n)
      /\ TimedOut(w) \/ NotReplaced(w) \/ BudgetLeft(crashCount')
  <2>1. RespawnWorker(Reaped(w), Dropped(w)) \/ NoRespawn(Reaped(w), Dropped(w))
    BY DEF HandleDisconnected
  <2>2. NoRespawn(Reaped(w), Dropped(w)) => NotReplaced(w)
    BY <1>1 DEF NoRespawn, NotReplaced, Kept, Reaped, Dropped, TypeOK
  <2>3. TimedOut(w) \/ NoRespawn(Reaped(w), Dropped(w)) \/ BudgetLeft(crashCount')
    BY DEF HandleDisconnected
  <2> QED
    BY <1>1, <2>1, <2>2, <2>3, RespawnEffect
<1>3. CASE TimedOut(w)
  <2>1. /\ results' = Append(results, Verdict(active[w], "Timeout", "handle_disconnect"))
        /\ crashCount' = crashCount
        /\ active[w] \in Mutants /\ "Timeout" \in Statuses
        /\ "handle_disconnect" \in Handlers /\ "handle_disconnect" \in Payers
    BY <1>1, <1>3 DEF HandleDisconnected, TimedOut, TypeOK, MaybeMutant, Statuses, Handlers,
       Payers
  <2>2. /\ Cardinality(Paying) + 1 <= Cardinality(Paying')
        /\ Cardinality(Paying) <= Cardinality(Paying')
    BY <1>1, <2>1, VerdictPays
  <2>3. Cardinality(SpentCrashes) <= Cardinality(SpentCrashes')
    <3>1. SpentCrashes' = SpentCrashes
      BY <2>1 DEF SpentCrashes
    <3> QED
      BY <1>1, <3>1, PriceFinite
  <2> QED
    BY <1>1, <1>2, <2>2, <2>3, PaidRespawn
<1>4. CASE ~TimedOut(w)
  <2>1. results' = results /\ (crashCount' = crashCount + 1 \/ NotReplaced(w))
        /\ (crashCount' = crashCount \/ crashCount' = crashCount + 1)
    <3>1. results' = results
      BY <1>4 DEF HandleDisconnected
    <3>2. CASE w \notin senders /\ active[w] = NoMutant
      <4>1. NoRespawn(Reaped(w), Dropped(w)) /\ crashCount' = crashCount
        BY <3>2 DEF HandleDisconnected
      <4>2. NotReplaced(w)
        BY <1>1, <4>1 DEF NoRespawn, NotReplaced, Kept, Reaped, Dropped, TypeOK
      <4> QED
        BY <3>1, <4>1, <4>2
    <3>3. CASE ~(w \notin senders /\ active[w] = NoMutant)
      BY <1>4, <3>1, <3>3 DEF HandleDisconnected
    <3> QED
      BY <3>2, <3>3
  <2>2. Cardinality(Paying) <= Cardinality(Paying')
    <3>1. Paying' = Paying
      BY <2>1 DEF Paying
    <3> QED
      BY <1>1, <3>1, PriceFinite
  <2>3. Cardinality(SpentCrashes) <= Cardinality(SpentCrashes')
    <3>1. crashCount' = crashCount => SpentCrashes' = SpentCrashes
      BY DEF SpentCrashes
    <3> QED
      BY <1>1, <2>1, <3>1, PriceFinite, CrashPays
  <2>4. \/ NotReplaced(w)
        \/ Cardinality(SpentCrashes) + 1 <= Cardinality(SpentCrashes')
    BY <1>1, <1>2, <1>4, <2>1, CrashPays
  <2> QED
    BY <1>1, <1>2, <2>2, <2>3, <2>4, PaidRespawn
<1> QED
  BY <1>3, <1>4

(* A health check pays with a crash within the budget.                     *)
LEMMA HealthCheckPaid ==
  ASSUME TypeInv, TypeOK', LocalInv, PaidInv, NEW w \in Workers, HealthCheck(w)
  PROVE  PaidInv'
<1>1. /\ TypeOK /\ proc[w] # "unborn" /\ crashCount' = crashCount + 1
      /\ active[w] \in Mutants /\ "Error" \in Statuses /\ "handle_health_check" \in Handlers
      /\ results' = Append(results, Verdict(active[w], "Error", "handle_health_check"))
  BY DEF HealthCheck, LocalInv, BornInv, TypeInv, SuspectsActive, TypeOK, MaybeMutant,
     Statuses, Handlers
<1>2. /\ NotReplaced(w) \/ \E n \in Workers : Spawned(w, n)
      /\ NotReplaced(w) \/ BudgetLeft(crashCount')
  <2>1. NoRespawn(proc, child) => NotReplaced(w)
    BY DEF NoRespawn, NotReplaced, Kept
  <2>2. NoRespawn(proc, child) \/ RespawnWorker(proc, child)
    BY DEF HealthCheck
  <2>3. NoRespawn(proc, child) \/ BudgetLeft(crashCount')
    BY DEF HealthCheck
  <2> QED
    BY <1>1, <2>1, <2>2, <2>3, RespawnEffect
<1>3. Cardinality(Paying) <= Cardinality(Paying')
  BY <1>1, VerdictPays
<1>4. /\ Cardinality(SpentCrashes) <= Cardinality(SpentCrashes')
      /\ NotReplaced(w) \/ Cardinality(SpentCrashes) + 1 <= Cardinality(SpentCrashes')
  BY <1>1, <1>2, CrashPays
<1> QED
  BY <1>1, <1>2, <1>3, <1>4, PaidRespawn

(* Every step pays for what it spawns.                                     *)
LEMMA NextPaidInv ==
  ASSUME TypeInv, TypeOK', LocalInv, PaidInv, [Next]_vars PROVE PaidInv'
<1> USE DEF loopVars, procVars, wireVars
<1>0. TypeOK
  BY DEF TypeInv
<1>1. ASSUME NEW w \in Workers, WorkerStep(w) PROVE PaidInv'
  <2>1. /\ UNCHANGED <<results, crashCount>>
        /\ \A v \in Workers : v # w => proc'[v] = proc[v]
        /\ proc[w] # "unborn"
    BY <1>1, WorkerStepEffect
  <2> QED
    BY <1>0, <2>1, PaidFrame
<1>2. ASSUME NEW w \in Workers, TaskStep(w) PROVE PaidInv'
  <2>1. UNCHANGED <<results, crashCount, proc>>
    BY <1>2 DEF TaskStep, HandshakeReady, HandshakeFailed, HandshakeEnds, TaskForward,
       TaskRead, TaskEof, TaskTimeout, TaskDisconnects, TaskClosed
  <2> QED
    BY <1>0, <2>1, PaidFrame
<1>3. ASSUME NEW w \in Workers, HandleConnected(w) \/ HandleAcceptFailed(w) PROVE PaidInv'
  BY <1>0, <1>3, PaidFrame DEF HandleConnected, HandleAcceptFailed
<1>4. ASSUME NEW w \in Workers, HandleError(w) PROVE PaidInv'
  <2>1. Head(events[w]) \in WorkerEvents /\ Head(events[w]).kind = "Error"
    BY <1>4, Received DEF HandleError
  <2>2. /\ Head(events[w]).mutant \in Mutants /\ "Error" \in Statuses
        /\ "handle_error" \in Handlers
    BY <2>1, AnswerEvent DEF Answers, Statuses, Handlers
  <2>3. /\ UNCHANGED <<crashCount, proc>>
        /\ results' = Append(results, Verdict(Head(events[w]).mutant, "Error", "handle_error"))
    BY <1>4 DEF HandleError
  <2> QED
    BY <1>0, <2>2, <2>3, PaidFrame
<1>5. ASSUME NEW w \in Workers, HandleResult(w) \/ HandleDisconnected(w) PROVE PaidInv'
  BY <1>5, HandleResultPaid, HandleDisconnectedPaid
<1>6. ASSUME NEW w \in Workers, HealthCheck(w) PROVE PaidInv'
  BY <1>6, HealthCheckPaid
<1>7. CASE \/ LoopTop \/ DrainEnd \/ HealthTick \/ MemoryTick \/ AcceptFailure
           \/ \E w \in Workers : AcceptConnection(w)
  <2>1. UNCHANGED <<results, crashCount, proc>>
    BY <1>7 DEF LoopTop, DrainEnd, HealthTick, MemoryTick, AcceptFailure, AcceptConnection
  <2> QED
    BY <1>0, <2>1, PaidFrame
<1>8. ASSUME NEW m \in Mutants, DispatchOne(m) \/ DrainOne(m) PROVE PaidInv'
  <2>1. /\ UNCHANGED <<crashCount, proc>> /\ "Error" \in Statuses
        /\ \/ UNCHANGED results
           \/ \E h \in Handlers : results' = Append(results, Verdict(m, "Error", h))
    BY <1>8 DEF DispatchOne, DrainOne, Statuses, Handlers
  <2> QED
    BY <1>0, <2>1, PaidFrame
<1>9. CASE Return
  <2>1. /\ UNCHANGED <<results, crashCount>>
        /\ proc' = [w \in Workers |-> IF w \in Held /\ ~Wrapped THEN "dead" ELSE proc[w]]
    BY <1>9 DEF Return
  <2>2. \A v \in Workers : proc[v] = "unborn" => proc'[v] = "unborn"
    BY <2>1 DEF LocalInv, Local, Parented, Held
  <2> QED
    BY <1>0, <2>1, <2>2, PaidFrame
<1>10. CASE UNCHANGED vars
  BY <1>0, <1>10, PaidFrame DEF vars
<1> QED
  BY <1>1, <1>2, <1>3, <1>4, <1>5, <1>6, <1>7, <1>8, <1>9, <1>10
     DEF Next, LoopStep, HandleEvent, Terminated

(* Nothing is spent when the loop starts.                                  *)
LEMMA InitPaidInv == Init => PaidInv
<1> SUFFICES ASSUME Init PROVE PaidInv
  OBVIOUS
<1>1. Replacements = {}
  BY DEF Init, Replacements
<1>2. PriceIsFinite
  BY InitTypeInv, PriceFiniteNow DEF TypeInv
<1> QED
  BY <1>1, <1>2, FS_EmptySet DEF PaidInv, PriceIsFinite

(* PaidInv holds throughout, whatever the interpreter is, and however      *)
(* workers die and accept() fails.                                         *)
LEMMA PaidInvHolds == Spec => []PaidInv
<1>1. Init => PaidInv
  BY InitPaidInv
<1>2. TypeInv /\ TypeInv' /\ LocalInv /\ PaidInv /\ [Next]_vars => PaidInv'
  BY NextPaidInv DEF TypeInv
<1> QED
  BY <1>1, <1>2, LocalInvHolds, PTL DEF Spec

(* Each replacement is paid for, in the three places that respawn: a       *)
(* recycled worker has answered, whatever its exit code; a disconnected    *)
(* one leaves a Timeout; and a crash is counted before the budget is       *)
(* compared.  Nothing is assumed of the exit codes, of the interpreter, of *)
(* accept() or of how workers die.                                         *)
THEOREM EveryRespawnIsPaidFor == Spec => []RespawnsPaidFor
<1>1. PaidInv => RespawnsPaidFor
  BY DEF PaidInv, RespawnsPaidFor, Replacements, Paying, Payers, SpentCrashes
<1> QED
  BY <1>1, PaidInvHolds, PTL

\* An element of a typed sequence.
LEMMA ElementType ==
  ASSUME NEW S, NEW s \in Seq(S) PROVE \A i \in DOMAIN s : s[i] \in S
  OBVIOUS

(* The pool spawns no more replacements than there are mutants and crashes *)
(* in the budget, whatever the exit codes: no run respawns for ever, and a *)
(* finite set of processes is enough to model one.                         *)
ReplacementsBounded == Cardinality(Replacements) <= Cardinality(Mutants) + MaxCrashes

(* respawn_worker is called at most once for a mutant and once for a crash *)
(* below max_crashes.                                                      *)
THEOREM ReplacementsAreBounded == ASSUME ~Wrapped PROVE Spec => []ReplacementsBounded
<1>1. ASSUME TypeInv, Ledger, PaidInv PROVE ReplacementsBounded
  <2> DEFINE f == [i \in Paying |-> results[i].mutant]
  <2>1. PriceIsFinite /\ TypeOK
    BY <1>1, PriceFiniteNow DEF TypeInv
  <2>2. IsFiniteSet(Mutants) /\ Cardinality(Mutants) \in Nat
    BY PoolAssumption, FS_CardinalityType
  <2>3. f \in Injection(Paying, Mutants)
    <3>1. \A i \in Paying : i \in DOMAIN results /\ results[i].mutant \in Mutants
      <4>1. results \in Seq(Records)
        BY <2>1 DEF TypeOK
      <4>2. \A i \in DOMAIN results : results[i] \in Records
        BY <4>1, ElementType
      <4> QED
        BY <4>2 DEF Paying, Records
    <3>2. \A i, j \in DOMAIN results : results[i].mutant = results[j].mutant => i = j
      BY <1>1 DEF Ledger
    <3> QED
      BY <3>1, <3>2 DEF Injection, IsInjective
  <2>4. Cardinality(Paying) <= Cardinality(Mutants)
    BY <2>2, <2>3, FS_Injection
  <2>5. MaxCrashes \in Nat
    BY PoolAssumption, HeldFinite DEF MaxCrashes
  <2>6. SpentCrashes \subseteq 1 .. MaxCrashes
    BY <2>1, <2>5 DEF SpentCrashes, TypeOK
  <2>7. IsFiniteSet(1 .. MaxCrashes) /\ Cardinality(1 .. MaxCrashes) = MaxCrashes
    <3>1. 1 \in Int /\ MaxCrashes \in Int /\ MaxCrashes \in Nat
      BY <2>5
    <3>2. /\ IsFiniteSet(1 .. MaxCrashes)
          /\ Cardinality(1 .. MaxCrashes) = IF 1 > MaxCrashes THEN 0 ELSE MaxCrashes - 1 + 1
      BY ONLY <3>1, FS_Interval
    <3> QED
      BY ONLY <3>1, <3>2
  <2>8. Cardinality(SpentCrashes) <= MaxCrashes
    BY <2>6, <2>7, FS_Subset
  <2> QED
    BY <1>1, <2>1, <2>2, <2>4, <2>5, <2>8
       DEF PaidInv, ReplacementsBounded, PriceIsFinite
<1>2. TypeInv /\ Ledger /\ PaidInv => ReplacementsBounded
  BY <1>1
<1> QED
  BY <1>2, LocalInvHolds, LedgerHolds, PaidInvHolds, PTL
===============================================================================
