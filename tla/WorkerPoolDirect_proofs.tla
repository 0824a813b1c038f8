---------------------- MODULE WorkerPoolDirect_proofs ----------------------
(***************************************************************************)
(* The pool whose interpreter is the worker itself (~Wrapped): the health  *)
(* check then never finds a dead worker, because a process it has spawned  *)
(* and not yet waited for still answers kill(pid, 0).  Under that          *)
(* condition no mutant is lost or settled twice.                           *)
(*                                                                         *)
(* Ledger is not inductive.  That an answer settles the mutant its worker  *)
(* is active on depends on what travels between the two: at most one       *)
(* message, and about that mutant (OpenInv); once the connection is over,  *)
(* at most one answer, then the Disconnected event (ClosedInv).  That a    *)
(* worker given a mutant had none depends on the idle stack (IdleInv).     *)
(***************************************************************************)
EXTENDS WorkerPool_proofs

\* At most one message or test is under way between the loop and a worker.
OneUnderWay(w) ==
  /\ Len(mailbox[w]) < 2 /\ Len(toWorker[w]) < 2
  /\ Len(fromWorker[w]) < 2 /\ Len(events[w]) < 2
  /\ mailbox[w] # <<>> =>
       toWorker[w] = <<>> /\ fromWorker[w] = <<>> /\ events[w] = <<>> /\ job[w] = NoMutant
  /\ toWorker[w] # <<>> =>
       fromWorker[w] = <<>> /\ events[w] = <<>> /\ job[w] = NoMutant
  /\ fromWorker[w] # <<>> => events[w] = <<>> /\ job[w] = NoMutant
  /\ events[w] # <<>> => job[w] = NoMutant

\* A message to the worker is about its active mutant, or retires it.
Addressed(w, msg) ==
  IF msg.kind = "Run" THEN msg.mutant = active[w] ELSE w \notin senders

OpenInv(w) ==
  conn[w] = "open" /\ pc # "returned" =>
    /\ OneUnderWay(w)
    /\ mailbox[w] # <<>> => Addressed(w, mailbox[w][1])
    /\ toWorker[w] # <<>> => Addressed(w, toWorker[w][1])
    /\ job[w] # NoMutant => job[w] = active[w]
    /\ fromWorker[w] # <<>> => fromWorker[w][1].mutant = active[w]
    /\ events[w] # <<>> =>
         events[w][1].kind \in Answers /\ events[w][1].mutant = active[w]

ClosedInv(w) ==
  /\ conn[w] = "failed" =>
       Len(events[w]) < 2 /\ (events[w] # <<>> => events[w][1].kind = "AcceptFailed")
  /\ conn[w] = "closed" => events[w] = <<>> /\ w \notin senders
  /\ conn[w] \in {"eof", "timedout"} =>
       /\ Len(events[w]) < 3
       /\ events[w] = <<>> => w \notin senders
       /\ events[w] # <<>> => events[w][Len(events[w])].kind = "Disconnected"
       /\ Len(events[w]) > 1 =>
            events[w][1].kind \in Answers /\ events[w][1].mutant = active[w]

IdleInv ==
  /\ pc # "returned" => IdleIsFree
  /\ pc # "dispatch" /\ queue # {} => idle = <<>>

LoopInv ==
  /\ suspects = {} /\ pc # "health"
  /\ \A w \in Workers : active[w] # NoMutant => w \in senders
  /\ pc = "drain" => NoneActive
  /\ pc \in {"shutdown", "returned"} => Settled = Mutants

Link(w) == OpenInv(w) /\ ClosedInv(w)

Books == Ledger /\ IdleInv /\ LoopInv

DirectInv == Books /\ \A w \in Workers : Link(w)

-------------------------------------------------------------------------------
(* The ledger: assigning, settling, giving up.                             *)

(* Settled after a verdict is pushed.                                      *)
LEMMA SettledAppend ==
  ASSUME TypeOK, NEW m \in Mutants, NEW st \in Statuses, NEW h,
         results' = Append(results, Verdict(m, st, h))
  PROVE  /\ Settled' = Settled \cup {m}
         /\ m \notin Settled
              /\ (\A i, j \in DOMAIN results : results[i].mutant = results[j].mutant => i = j)
            => \A i, j \in DOMAIN results' :
                 results'[i].mutant = results'[j].mutant => i = j
<1> DEFINE n == Len(results)
<1>1. /\ n \in Nat /\ DOMAIN results = 1 .. n /\ DOMAIN results' = 1 .. n + 1
      /\ \A i \in 1 .. n : results'[i] = results[i]
      /\ results'[n + 1].mutant = m
  BY DEF TypeOK, Verdict
<1> HIDE DEF n
<1>2. Settled = {results[i].mutant : i \in 1 .. n}
  BY <1>1 DEF Settled
<1>3. Settled' = {results'[i].mutant : i \in 1 .. n + 1}
  BY <1>1 DEF Settled
<1>4. Settled' = Settled \cup {m}
  <2>1. ASSUME NEW x \in Settled' PROVE x \in Settled \cup {m}
    BY <1>1, <1>2, <1>3
  <2>2. ASSUME NEW x \in Settled \cup {m} PROVE x \in Settled'
    BY <1>1, <1>2, <1>3
  <2> QED
    BY <2>1, <2>2
<1> QED
  BY <1>1, <1>2, <1>4

(* The ledger balances after a dispatch.                                   *)
LEMMA AssignLedger ==
  ASSUME TypeOK, Ledger, NEW w \in Workers, active[w] = NoMutant, NEW m \in queue,
         queue' = queue \ {m}, active' = [active EXCEPT ![w] = m], UNCHANGED results
  PROVE  Ledger'
<1>1. m \in Mutants /\ m # NoMutant /\ m \notin Assigned
  BY PoolAssumption DEF TypeOK, Ledger
<1>2. Settled' = Settled
  BY DEF Settled
<1>3. /\ \A v \in Workers : v # w => active'[v] = active[v]
      /\ active'[w] = m
  BY DEF TypeOK
<1>4. Assigned' = Assigned \cup {m}
  BY <1>1, <1>3 DEF Assigned
<1>5. \A u, v \in Workers : active'[u] = active'[v] /\ active'[u] # NoMutant => u = v
  BY <1>1, <1>3 DEF Ledger, Assigned
<1> QED
  BY <1>1, <1>2, <1>4, <1>5 DEF Ledger, TypeOK

(* The ledger balances after the mutant of a worker is settled.            *)
LEMMA SettleLedger ==
  ASSUME TypeOK, Ledger, NEW w \in Workers, active[w] # NoMutant, NEW st \in Statuses,
         NEW h, active' = Cleared(w), results' = Append(results, Verdict(active[w], st, h)),
         UNCHANGED queue
  PROVE  Ledger'
<1>1. active[w] \in Mutants /\ active[w] \in Assigned
  BY DEF TypeOK, MaybeMutant, Assigned
<1>2. /\ \A v \in Workers : v # w => active'[v] = active[v]
      /\ active'[w] = NoMutant
  BY DEF TypeOK, Cleared
<1>3. \A u, v \in Workers : active[u] = active[v] /\ active[u] # NoMutant => u = v
  BY DEF Ledger
<1>4. Assigned' = Assigned \ {active[w]}
  BY <1>2, <1>3 DEF Assigned
<1>5. \A u, v \in Workers : active'[u] = active'[v] /\ active'[u] # NoMutant => u = v
  BY <1>2, <1>3
<1>6. active[w] \notin Settled
  BY <1>1 DEF Ledger
<1> QED
  BY <1>1, <1>4, <1>5, <1>6, SettledAppend DEF Ledger

(* The ledger balances after a queued mutant is settled as an error.       *)
LEMMA GiveUpLedger ==
  ASSUME TypeOK, Ledger, NEW m \in queue, NEW st \in Statuses, NEW h,
         queue' = queue \ {m}, results' = Append(results, Verdict(m, st, h)), UNCHANGED active
  PROVE  Ledger'
<1>1. m \in Mutants /\ m \notin Settled /\ m \notin Assigned
  BY DEF TypeOK, Ledger
<1>2. Assigned' = Assigned
  BY DEF Assigned
<1> QED
  BY <1>1, <1>2, SettledAppend DEF Ledger

(* The ledger depends on queue, active and results alone.                  *)
LEMMA LedgerFrame ==
  ASSUME Ledger, UNCHANGED <<queue, results, active>> PROVE Ledger'
  BY DEF Ledger, Settled, Assigned

\* With as many results as mutants, all are settled.
LEMMA AllSettled ==
  ASSUME TypeOK, Ledger, Len(results) >= Cardinality(Mutants)
  PROVE  Settled = Mutants
<1> DEFINE n == Len(results)
           f == [i \in 1 .. n |-> results[i].mutant]
<1>1. n \in Nat /\ DOMAIN results = 1 .. n /\ Settled \subseteq Mutants
  BY DEF TypeOK, Ledger
<1>2. IsFiniteSet(Mutants) /\ IsFiniteSet(Settled)
  BY <1>1, PoolAssumption, FS_Subset
<1>3. f \in Injection(1 .. n, Settled)
  BY <1>1 DEF Ledger, Settled, Injection, IsInjective
<1>4. Cardinality(1 .. n) = n
  <2>1. 1 \in Int /\ n \in Int /\ n \in Nat
    BY <1>1
  <2>2. Cardinality(1 .. n) = IF 1 > n THEN 0 ELSE n - 1 + 1
    BY ONLY <2>1, FS_Interval
  <2> QED
    BY ONLY <2>1, <2>2
<1>5. n <= Cardinality(Settled)
  BY <1>2, <1>3, <1>4, FS_Injection
<1>6. Cardinality(Settled) = Cardinality(Mutants)
  BY <1>1, <1>2, <1>5, FS_Subset, FS_CardinalityType
<1> QED
  BY <1>1, <1>2, <1>6, FS_Subset

-------------------------------------------------------------------------------
(* The link between the loop and a worker.                                 *)

(* The link of a worker depends on its own variables alone.                *)
LEMMA LinkFrame ==
  ASSUME NEW v \in Workers, Link(v), pc = "returned" => pc' = "returned",
         v \in senders' <=> v \in senders,
         UNCHANGED <<active[v], conn[v], job[v], mailbox[v], toWorker[v], fromWorker[v],
                     events[v]>>
  PROVE  Link(v)'
  BY DEF Link, OpenInv, ClosedInv, OneUnderWay, Addressed

(* Facts about short sequences, in the form the provers use.               *)
LEMMA Lengths ==
  ASSUME TypeOK, NEW w \in Workers
  PROVE  /\ mailbox[w] \in Seq(OrchestratorMessages) /\ toWorker[w] \in Seq(OrchestratorMessages)
         /\ fromWorker[w] \in Seq(WorkerMessages) /\ events[w] \in Seq(WorkerEvents)
         /\ Len(mailbox[w]) \in Nat /\ Len(toWorker[w]) \in Nat
         /\ Len(fromWorker[w]) \in Nat /\ Len(events[w]) \in Nat
  BY DEF TypeOK

\* Nothing is under way to or from a worker that has a sender and no mutant.
LEMMA FreeIsQuiet ==
  ASSUME TypeInv, NEW w \in Workers, Link(w), conn[w] = "open", pc # "returned",
         w \in senders, active[w] = NoMutant
  PROVE  /\ mailbox[w] = <<>> /\ toWorker[w] = <<>> /\ fromWorker[w] = <<>>
         /\ events[w] = <<>> /\ job[w] = NoMutant
<1>1. TypeOK /\ NoMutant \notin Mutants
  BY PoolAssumption DEF TypeInv
<1>2. ASSUME NEW msg \in OrchestratorMessages PROVE ~Addressed(w, msg)
  BY <1>1 DEF Addressed, OrchestratorMessages, Shutdown
<1>3. mailbox[w] = <<>> /\ toWorker[w] = <<>>
  <2>1. /\ mailbox[w] # <<>> => mailbox[w][1] \in OrchestratorMessages
        /\ toWorker[w] # <<>> => toWorker[w][1] \in OrchestratorMessages
    BY <1>1, Lengths
  <2> QED
    BY <1>2, <2>1 DEF Link, OpenInv
<1>4. fromWorker[w] = <<>>
  <2>1. fromWorker[w] # <<>> =>
          fromWorker[w][1] \in WorkerMessages /\ Len(fromWorker[w]) > 0
    BY <1>1, Lengths
  <2>2. fromWorker[w] # <<>> => fromWorker[w][1].kind # "Ready"
    BY <1>1, <2>1, Lengths DEF TypeInv, Handshaken
  <2>3. ASSUME fromWorker[w] # <<>> PROVE fromWorker[w][1].mutant \in Mutants
    BY <2>1, <2>2, <2>3 DEF WorkerMessages, ReadyMsg
  <2> QED
    BY <1>1, <2>3 DEF Link, OpenInv
<1>5. events[w] = <<>>
  <2>1. ASSUME events[w] # <<>> PROVE events[w][1] \in WorkerEvents
    BY <1>1, <2>1, Lengths
  <2> QED
    BY <1>1, <2>1, AnswerEvent DEF Link, OpenInv
<1>6. job[w] = NoMutant
  BY DEF Link, OpenInv
<1> QED
  BY <1>3, <1>4, <1>5, <1>6

\* An answer that reaches the loop is about the mutant of its worker, and on a
\* connection that is still open nothing else is under way.
LEMMA AnswerIsCurrent ==
  ASSUME TypeInv, NEW w \in Workers, Link(w), pc = "select", events[w] # <<>>,
         events[w][1].kind \in Answers
  PROVE  /\ events[w][1].mutant = active[w] /\ active[w] \in Mutants
         /\ \/ /\ conn[w] = "open" /\ Len(events[w]) < 2
               /\ mailbox[w] = <<>> /\ toWorker[w] = <<>> /\ fromWorker[w] = <<>>
               /\ job[w] = NoMutant
            \/ /\ conn[w] \in {"eof", "timedout"}
               /\ Len(events[w]) > 1 /\ Len(events[w]) < 3
               /\ events[w][Len(events[w])].kind = "Disconnected"
<1>1. TypeOK /\ Len(events[w]) > 0 /\ events[w][1] \in WorkerEvents
  BY Lengths DEF TypeInv
<1>2. conn[w] \in {"open", "eof", "timedout"}
  <2>1. conn[w] \notin {"none", "backlog", "handshake", "accepted"}
    BY DEF TypeInv, Handshaken, Answers
  <2>2. conn[w] \notin {"failed", "closed"}
    BY DEF Link, ClosedInv, Answers
  <2> QED
    BY <1>1, <2>1, <2>2 DEF TypeOK, ConnStates
<1>3. CASE conn[w] = "open"
  <2>1. OneUnderWay(w) /\ events[w][1].mutant = active[w]
    BY <1>3 DEF Link, OpenInv
  <2>2. /\ mailbox[w] = <<>> /\ toWorker[w] = <<>> /\ fromWorker[w] = <<>>
        /\ job[w] = NoMutant /\ Len(events[w]) < 2
    BY <2>1 DEF OneUnderWay
  <2> QED
    BY <1>1, <1>3, <2>1, <2>2, AnswerEvent
<1>4. CASE conn[w] \in {"eof", "timedout"}
  <2>1. Len(events[w]) > 1 /\ Len(events[w]) < 3
    <3>1. ASSUME ~(Len(events[w]) > 1) PROVE FALSE
      <4>1. events[w][Len(events[w])].kind = "Disconnected"
        BY <1>4 DEF Link, ClosedInv
      <4>2. \A n \in Nat : n > 0 /\ ~(n > 1) => n = 1
        OBVIOUS
      <4>3. events[w][Len(events[w])] = events[w][1]
        BY <1>1, <3>1, <4>2, Lengths
      <4> QED
        BY <4>1, <4>3 DEF Answers
    <3> QED
      BY <1>4, <3>1 DEF Link, ClosedInv
  <2>2. /\ events[w][1].mutant = active[w]
        /\ events[w][Len(events[w])].kind = "Disconnected"
    BY <1>4, <2>1 DEF Link, ClosedInv
  <2> QED
    BY <1>1, <1>4, <2>1, <2>2, AnswerEvent
<1> QED
  BY <1>2, <1>3, <1>4

\* The Disconnected event is the last of its worker.
LEMMA DisconnectedIsLast ==
  ASSUME TypeInv, NEW w \in Workers, Link(w), pc = "select", events[w] # <<>>,
         events[w][1].kind = "Disconnected"
  PROVE  conn[w] \in {"eof", "timedout"} /\ Len(events[w]) < 2
<1>1. TypeOK /\ Len(events[w]) > 0
  BY Lengths DEF TypeInv
<1>2. conn[w] \notin {"none", "backlog", "handshake", "accepted"}
  BY DEF TypeInv, Handshaken
<1>3. conn[w] \notin {"failed", "closed"}
  BY DEF Link, ClosedInv
<1>4. conn[w] # "open"
  BY DEF Link, OpenInv, Answers
<1>5. conn[w] \in {"eof", "timedout"}
  BY <1>1, <1>2, <1>3, <1>4 DEF TypeOK, ConnStates
<1>6. ~(Len(events[w]) > 1)
  BY <1>5 DEF Link, ClosedInv, Answers
<1> QED
  BY <1>1, <1>5, <1>6, Lengths

-------------------------------------------------------------------------------
(* Workers and tasks do not touch the books, and keep the links.           *)

booksVars == <<pc, queue, results, idle, active, senders, suspects>>

(* The books depend on the variables of the dispatch loop alone.           *)
LEMMA BooksFrame == ASSUME Books, UNCHANGED booksVars PROVE Books'
<1>1. Ledger'
  BY LedgerFrame DEF Books, booksVars
<1>2. IdleInv'
  BY DEF Books, booksVars, IdleInv, IdleIsFree
<1>3. LoopInv'
  BY DEF Books, booksVars, LoopInv, NoneActive, Settled
<1> QED
  BY <1>1, <1>2, <1>3 DEF Books

(* A message sent on an empty channel is alone on it.                      *)
LEMMA AppendToEmpty ==
  ASSUME NEW e
  PROVE  /\ Append(<<>>, e) # <<>> /\ Len(Append(<<>>, e)) < 2 /\ Append(<<>>, e)[1] = e
  OBVIOUS

(* Taking the only message of a channel empties it.                        *)
LEMMA TailOfOne ==
  ASSUME NEW S, NEW q \in Seq(S), q # <<>>, Len(q) < 2
  PROVE  Tail(q) = <<>>
<1>1. Tail(q) \in Seq(S) /\ Len(Tail(q)) = Len(q) - 1 /\ Len(q) \in Nat
  OBVIOUS
<1>2. ~(Len(Tail(q)) > 0)
  BY <1>1
<1> QED
  BY <1>1, <1>2

(* A step of a worker keeps its link.                                      *)
LEMMA WorkerStepLinks ==
  ASSUME TypeInv, NEW w \in Workers, WorkerStep(w), \A v \in Workers : Link(v)
  PROVE  UNCHANGED booksVars /\ \A v \in Workers : Link(v)'
<1> USE DEF TypeInv, loopVars, wireVars
<1>1. CASE WorkerConnect(w)
  <2>1. UNCHANGED booksVars
    BY <1>1 DEF WorkerConnect, booksVars
  <2>2. Link(w)'
    BY <1>1 DEF WorkerConnect, TypeOK, Link, OpenInv, ClosedInv
  <2>3. ASSUME NEW v \in Workers, v # w PROVE Link(v)'
    BY <1>1, <2>3, LinkFrame DEF WorkerConnect, TypeOK
  <2> QED
    BY <2>1, <2>2, <2>3
<1>2. CASE WorkerReady(w)
  <2>1. UNCHANGED booksVars
    BY <1>2 DEF WorkerReady, booksVars
  <2>2. conn[w] # "open"
    BY <1>2 DEF WorkerReady, Handshaken
  <2>3. Link(w)'
    BY <1>2, <2>2 DEF WorkerReady, Link, OpenInv, ClosedInv
  <2>4. ASSUME NEW v \in Workers, v # w PROVE Link(v)'
    BY <1>2, <2>4, LinkFrame DEF WorkerReady, TypeOK
  <2> QED
    BY <2>1, <2>3, <2>4
<1>3. CASE WorkerTake(w)
  <2> DEFINE msg == Head(toWorker[w])
  <2>1. UNCHANGED booksVars
    BY <1>3 DEF WorkerTake, booksVars
  <2>2. /\ UNCHANGED <<conn, mailbox, fromWorker, events>>
        /\ toWorker' = [toWorker EXCEPT ![w] = Tail(@)]
        /\ toWorker[w] # <<>> /\ msg = toWorker[w][1]
        /\ \/ job' = job
           \/ msg.kind = "Run" /\ job' = [job EXCEPT ![w] = msg.mutant]
    <3>1. toWorker[w] # <<>> => Head(toWorker[w]) = toWorker[w][1]
      BY Lengths, Taking
    <3> QED
      BY <1>3, <3>1 DEF WorkerTake
  <2>3. ASSUME conn[w] = "open", pc # "returned" PROVE OpenInv(w)'
    <3>1. OneUnderWay(w) /\ Addressed(w, msg)
      BY <2>2, <2>3 DEF Link, OpenInv
    <3>2. toWorker'[w] = <<>> /\ mailbox[w] = <<>> /\ fromWorker[w] = <<>> /\ events[w] = <<>>
      BY <2>2, <3>1, Lengths, TailOfOne DEF OneUnderWay, TypeOK
    <3>3. job'[w] # NoMutant => job'[w] = active[w]
      BY <2>2, <2>3, <3>1 DEF Addressed, Link, OpenInv, TypeOK
    <3>4. OneUnderWay(w)'
      BY <2>2, <3>2, <3>1 DEF OneUnderWay
    <3> QED
      BY <2>1, <2>2, <3>2, <3>3, <3>4 DEF OpenInv, booksVars
  <2>4. Link(w)'
    BY <2>1, <2>2, <2>3 DEF Link, OpenInv, ClosedInv, booksVars
  <2>5. ASSUME NEW v \in Workers, v # w PROVE Link(v)'
    BY <2>1, <2>2, <2>5, LinkFrame DEF TypeOK, booksVars
  <2> QED
    BY <2>1, <2>4, <2>5
<1>4. ASSUME NEW msg, msg.mutant = job[w], WorkerAnswer(w, msg)
      PROVE  UNCHANGED booksVars /\ \A v \in Workers : Link(v)'
  <2>1. UNCHANGED booksVars
    BY <1>4 DEF WorkerAnswer, booksVars
  <2>2. /\ UNCHANGED <<conn, mailbox, toWorker, events>> /\ job[w] # NoMutant
        /\ fromWorker' = [fromWorker EXCEPT ![w] = Append(@, msg)]
        /\ job' = [job EXCEPT ![w] = NoMutant]
    BY <1>4 DEF WorkerAnswer, Handshaken
  <2>3. ASSUME conn[w] = "open", pc # "returned" PROVE OpenInv(w)'
    <3>1. OneUnderWay(w) /\ job[w] = active[w]
      BY <2>2, <2>3 DEF Link, OpenInv
    <3>2. /\ fromWorker[w] = <<>> /\ mailbox[w] = <<>> /\ toWorker[w] = <<>>
          /\ events[w] = <<>>
      BY <2>2, <3>1 DEF OneUnderWay
    <3>3. /\ fromWorker'[w] # <<>> /\ Len(fromWorker'[w]) < 2 /\ fromWorker'[w][1] = msg
          /\ job'[w] = NoMutant
      BY <2>2, <3>2, AppendToEmpty DEF TypeOK
    <3> QED
      BY <1>4, <2>1, <2>2, <3>1, <3>2, <3>3 DEF OpenInv, OneUnderWay, booksVars
  <2>4. Link(w)'
    BY <2>1, <2>2, <2>3 DEF Link, OpenInv, ClosedInv, booksVars
  <2>5. ASSUME NEW v \in Workers, v # w PROVE Link(v)'
    BY <2>1, <2>2, <2>5, LinkFrame DEF TypeOK, booksVars
  <2> QED
    BY <2>1, <2>4, <2>5
<1>5. CASE WorkerResult(w) \/ WorkerFault(w)
  BY <1>4, <1>5 DEF WorkerResult, WorkerFault, ResultMsg, ErrorMsg
<1>6. CASE WorkerDie(w)
  <2>1. UNCHANGED booksVars
    BY <1>6 DEF WorkerDie, booksVars
  <2>2. UNCHANGED wireVars /\ job' = [job EXCEPT ![w] = NoMutant]
    BY <1>6 DEF WorkerDie
  <2>3. Link(w)'
    BY <2>1, <2>2 DEF Link, OpenInv, ClosedInv, OneUnderWay, Addressed, booksVars, TypeOK
  <2>4. ASSUME NEW v \in Workers, v # w PROVE Link(v)'
    BY <2>1, <2>2, <2>4, LinkFrame DEF TypeOK, booksVars
  <2> QED
    BY <2>1, <2>3, <2>4
<1> QED
  BY <1>1, <1>2, <1>3, <1>5, <1>6 DEF WorkerStep

\* Disconnected goes behind the answer that may still wait to be handled.
LEMMA AppendLast ==
  ASSUME NEW S, NEW q \in Seq(S), NEW e \in S, Len(q) < 2
  PROVE  /\ Append(q, e) # <<>> /\ Len(Append(q, e)) < 3
         /\ Append(q, e)[Len(Append(q, e))] = e
         /\ Len(Append(q, e)) > 1 => q # <<>> /\ Append(q, e)[1] = q[1]
<1>1. Append(q, e) \in Seq(S) /\ Len(Append(q, e)) = Len(q) + 1 /\ Len(q) \in Nat
  OBVIOUS
<1>2. Append(q, e)[Len(q) + 1] = e /\ \A i \in 1 .. Len(q) : Append(q, e)[i] = q[i]
  OBVIOUS
<1>3. Len(q) > 0 => 1 \in 1 .. Len(q)
  BY <1>1
<1>4. Len(Append(q, e)) > 1 => q # <<>> /\ Len(q) > 0
  BY <1>1
<1> QED
  BY <1>1, <1>2, <1>3, <1>4

(* A step of the task of a connection keeps its link.                      *)
LEMMA TaskStepLinks ==
  ASSUME TypeInv, NEW w \in Workers, TaskStep(w), Books, \A v \in Workers : Link(v)
  PROVE  UNCHANGED booksVars /\ \A v \in Workers : Link(v)'
<1> USE DEF TypeInv, loopVars, procVars
<1>1. UNCHANGED booksVars /\ pc # "returned" /\ pc' = pc
  BY DEF TaskStep, HandshakeReady, HandshakeFailed, HandshakeEnds, TaskForward, TaskRead,
     TaskEof, TaskTimeout, TaskDisconnects, TaskClosed, Up, booksVars
<1>2. \A v \in Workers \ {w} :
        UNCHANGED <<conn[v], job[v], mailbox[v], toWorker[v], fromWorker[v], events[v]>>
  BY DEF TaskStep, HandshakeReady, HandshakeFailed, HandshakeEnds, TaskForward, TaskRead,
     TaskEof, TaskTimeout, TaskDisconnects, TaskClosed, TypeOK
<1>3. ASSUME NEW v \in Workers, v # w PROVE Link(v)'
  BY <1>1, <1>2, <1>3, LinkFrame DEF booksVars
<1>4. UNCHANGED <<active, senders, job>>
  BY <1>1 DEF booksVars, TaskStep, HandshakeReady, HandshakeFailed, HandshakeEnds,
     TaskForward, TaskRead, TaskEof, TaskTimeout, TaskDisconnects, TaskClosed
<1>5. ASSUME HandshakeReady(w) PROVE Link(w)'
  BY <1>5 DEF HandshakeReady, HandshakeEnds, TypeOK, Link, OpenInv, ClosedInv
<1>6. ASSUME HandshakeFailed(w) PROVE Link(w)'
  <2> DEFINE e == Event("AcceptFailed", NoMutant, "Error")
  <2>1. conn'[w] = "failed" /\ events'[w] = Append(<<>>, e)
    BY <1>6 DEF HandshakeFailed, HandshakeEnds, TypeOK, Handshaken
  <2>2. Len(events'[w]) < 2 /\ events'[w][1] = e
    BY <2>1, AppendToEmpty
  <2> QED
    BY <2>1, <2>2 DEF Link, OpenInv, ClosedInv, Event
<1>7. ASSUME TaskForward(w) PROVE Link(w)'
  <2>1. /\ conn[w] = "open" /\ conn'[w] = "open" /\ mailbox[w] # <<>>
        /\ mailbox'[w] = Tail(mailbox[w])
        /\ toWorker'[w] = Append(toWorker[w], Head(mailbox[w]))
        /\ UNCHANGED <<fromWorker, events>>
    BY <1>7 DEF TaskForward, TypeOK
  <2>2. OneUnderWay(w) /\ Addressed(w, Head(mailbox[w]))
    <3>1. Head(mailbox[w]) = mailbox[w][1]
      BY <2>1, Lengths, Taking
    <3> QED
      BY <1>1, <2>1, <3>1 DEF Link, OpenInv
  <2>3. toWorker[w] = <<>> /\ fromWorker[w] = <<>> /\ events[w] = <<>> /\ job[w] = NoMutant
    BY <2>1, <2>2 DEF OneUnderWay
  <2>4. mailbox'[w] = <<>>
    BY <2>1, <2>2, Lengths, TailOfOne DEF OneUnderWay
  <2>5. /\ toWorker'[w] # <<>> /\ Len(toWorker'[w]) < 2
        /\ toWorker'[w][1] = Head(mailbox[w])
    BY <2>1, <2>3, AppendToEmpty
  <2>6. OneUnderWay(w)'
    BY <1>4, <2>1, <2>3, <2>4, <2>5, <2>2 DEF OneUnderWay
  <2>7. OpenInv(w)'
    BY <1>4, <2>1, <2>2, <2>3, <2>4, <2>5, <2>6 DEF OpenInv, Addressed
  <2> QED
    BY <2>1, <2>7 DEF Link, ClosedInv
<1>8. ASSUME TaskRead(w) PROVE Link(w)'
  <2> DEFINE msg == Head(fromWorker[w])
             status == IF msg.kind = "Result" THEN FromExitCode(msg.code) ELSE "Error"
             e == Event(msg.kind, msg.mutant, status)
  <2>1. /\ conn[w] = "open" /\ conn'[w] = "open" /\ fromWorker[w] # <<>>
        /\ fromWorker'[w] = Tail(fromWorker[w]) /\ events'[w] = Append(events[w], e)
        /\ UNCHANGED <<mailbox, toWorker>>
    BY <1>8 DEF TaskRead, TypeOK
  <2>2. msg = fromWorker[w][1] /\ msg \in WorkerMessages /\ Len(fromWorker[w]) > 0
    BY <2>1, Lengths, Taking
  <2>3. OneUnderWay(w) /\ msg.mutant = active[w]
    BY <1>1, <2>1, <2>2 DEF Link, OpenInv
  <2>4. msg.kind \in Answers
    <3>1. msg.kind # "Ready"
      BY <2>1, <2>2, Lengths DEF Handshaken
    <3> QED
      BY <2>2, <3>1 DEF WorkerMessages, ReadyMsg
  <2>5. /\ events[w] = <<>> /\ job[w] = NoMutant /\ mailbox[w] = <<>> /\ toWorker[w] = <<>>
    BY <2>1, <2>3 DEF OneUnderWay
  <2>6. fromWorker'[w] = <<>>
    BY <2>1, <2>3, Lengths, TailOfOne DEF OneUnderWay
  <2>7. events'[w] # <<>> /\ Len(events'[w]) < 2 /\ events'[w][1] = e
    BY <2>1, <2>5, AppendToEmpty
  <2>8. OneUnderWay(w)'
    BY <1>4, <2>1, <2>3, <2>5, <2>6, <2>7 DEF OneUnderWay
  <2>9. e.kind \in Answers /\ e.mutant = active'[w]
    BY <1>4, <2>3, <2>4 DEF Event
  <2>10. OpenInv(w)'
    BY <1>4, <2>1, <2>5, <2>6, <2>7, <2>8, <2>9 DEF OpenInv
  <2> QED
    BY <2>1, <2>10 DEF Link, ClosedInv
<1>9. ASSUME NEW c \in {"eof", "timedout"}, TaskDisconnects(w, c) PROVE Link(w)'
  <2> DEFINE e == Event("Disconnected", NoMutant, "Error")
  <2>1. /\ conn[w] = "open" /\ conn'[w] = c /\ events'[w] = Append(events[w], e)
    BY <1>9 DEF TaskDisconnects, TypeOK
  <2>2. /\ OneUnderWay(w)
        /\ events[w] # <<>> =>
             events[w][1].kind \in Answers /\ events[w][1].mutant = active[w]
    BY <1>1, <2>1 DEF Link, OpenInv
  <2>3. e \in WorkerEvents /\ e.kind = "Disconnected"
    BY DEF WorkerEvents, Event
  <2>4. /\ events'[w] # <<>> /\ Len(events'[w]) < 3
        /\ events'[w][Len(events'[w])] = e
        /\ Len(events'[w]) > 1 => events[w] # <<>> /\ events'[w][1] = events[w][1]
    BY <2>1, <2>2, <2>3, Lengths, AppendLast DEF OneUnderWay
  <2> QED
    BY <1>4, <2>1, <2>2, <2>3, <2>4 DEF Link, OpenInv, ClosedInv
<1>10. ASSUME TaskClosed(w) PROVE Link(w)'
  <2>1. /\ conn[w] = "open" /\ conn'[w] = "closed" /\ w \notin senders
        /\ UNCHANGED events
    BY <1>10 DEF TaskClosed, TypeOK
  <2>2. active[w] = NoMutant
    BY <2>1 DEF Books, LoopInv
  <2>3. events[w] = <<>>
    <3>1. events[w] # <<>> => events[w][1] \in WorkerEvents
      BY Lengths
    <3>2. events[w] # <<>> =>
            events[w][1].kind \in Answers /\ events[w][1].mutant = NoMutant
      BY <1>1, <2>1, <2>2 DEF Link, OpenInv
    <3> QED
      BY <3>1, <3>2, AnswerEvent, PoolAssumption
  <2> QED
    BY <1>4, <2>1, <2>3 DEF Link, OpenInv, ClosedInv
<1>11. Link(w)'
  BY <1>5, <1>6, <1>7, <1>8, <1>9, <1>10 DEF TaskStep, TaskEof, TaskTimeout
<1> QED
  BY <1>1, <1>3, <1>11

-------------------------------------------------------------------------------
(* The dispatch loop between two events.                                   *)

(* The links of the workers a step does not touch are kept.                *)
LEMMA LinksFrame ==
  ASSUME \A v \in Workers : Link(v), pc = "returned" => pc' = "returned",
         UNCHANGED <<active, senders, conn, job, mailbox, toWorker, fromWorker, events>>
  PROVE  \A v \in Workers : Link(v)'
  BY LinkFrame

(* LoopTop keeps the invariant: it leaves the loop only when all is        *)
(* settled.                                                                *)
LEMMA LoopTopDirect == ASSUME TypeInv, DirectInv, LoopTop PROVE DirectInv'
<1> USE DEF TypeInv, DirectInv, Books, loopVars, procVars, wireVars
<1>1. /\ pc = "dispatch" /\ ~CanDispatch /\ TypeOK
      /\ UNCHANGED <<queue, results, idle, active, senders, suspects>>
      /\ UNCHANGED <<job, conn, mailbox, toWorker, fromWorker, events>>
      /\ pc' = IF IsDone THEN "shutdown" ELSE IF IsStuck THEN "drain" ELSE "select"
  BY DEF LoopTop
<1>2. Ledger'
  BY <1>1, LedgerFrame
<1>3. IdleInv'
  BY <1>1 DEF IdleInv, IdleIsFree, CanDispatch
<1>4. ASSUME IsDone PROVE Settled = Mutants
  <2>1. CASE Len(results) >= Cardinality(Mutants)
    BY <1>1, <2>1, AllSettled
  <2>2. CASE NoneActive /\ queue = {}
    BY <2>2 DEF NoneActive, Ledger, Assigned
  <2> QED
    BY <1>4, <2>1, <2>2 DEF IsDone
<1>5. LoopInv'
  <2>1. pc' = "drain" => NoneActive'
    BY <1>1 DEF IsStuck, NoneActive
  <2>2. pc' \in {"shutdown", "returned"} => Settled' = Mutants
    BY <1>1, <1>4 DEF Settled
  <2> QED
    BY <1>1, <2>1, <2>2 DEF LoopInv
<1>6. \A v \in Workers : Link(v)'
  BY <1>1, LinksFrame
<1> QED
  BY <1>2, <1>3, <1>5, <1>6

(* The drain of handle_stuck keeps the invariant.                          *)
LEMMA DrainDirect ==
  ASSUME TypeInv, DirectInv, DrainEnd \/ \E m \in Mutants : DrainOne(m) PROVE DirectInv'
<1> USE DEF TypeInv, DirectInv, Books, loopVars, procVars, wireVars
<1>1. CASE DrainEnd
  <2>1. /\ pc = "drain" /\ pc' = "shutdown" /\ queue = {}
        /\ UNCHANGED <<queue, results, idle, active, senders, suspects>>
        /\ UNCHANGED <<job, conn, mailbox, toWorker, fromWorker, events>>
    BY <1>1 DEF DrainEnd
  <2>2. Settled = Mutants
    BY <2>1 DEF LoopInv, NoneActive, Ledger, Assigned
  <2>3. Settled' = Mutants
    BY <2>1, <2>2 DEF Settled
  <2>4. Ledger' /\ \A v \in Workers : Link(v)'
    BY <2>1, LedgerFrame, LinksFrame
  <2>5. IdleInv' /\ LoopInv'
    BY <2>1, <2>3 DEF IdleInv, IdleIsFree, LoopInv
  <2> QED
    BY <2>4, <2>5
<1>2. ASSUME NEW m \in Mutants, DrainOne(m) PROVE DirectInv'
  <2>1. /\ pc = "drain" /\ m \in queue /\ queue' = queue \ {m}
        /\ results' = Append(results, Verdict(m, "Error", "handle_stuck"))
        /\ UNCHANGED <<pc, idle, active, senders, suspects>>
        /\ UNCHANGED <<job, conn, mailbox, toWorker, fromWorker, events>>
    BY <1>2 DEF DrainOne, Longest
  <2>2. Ledger'
    BY <2>1, GiveUpLedger DEF Statuses
  <2>3. \A v \in Workers : Link(v)'
    BY <2>1, LinksFrame
  <2>4. idle = <<>>
    BY <2>1 DEF IdleInv
  <2>5. IdleInv' /\ LoopInv'
    BY <2>1, <2>4 DEF IdleInv, IdleIsFree, LoopInv, NoneActive
  <2> QED
    BY <2>2, <2>3, <2>5
<1> QED
  BY <1>1, <1>2

(* A memory check or a failed accept keeps the invariant; a health check   *)
(* finds no suspect.                                                       *)
LEMMA TicksDirect ==
  ASSUME ~Wrapped, TypeInv, DirectInv, HealthTick \/ MemoryTick \/ AcceptFailure
  PROVE  DirectInv'
<1> USE DEF TypeInv, DirectInv, Books, loopVars, procVars, wireVars
<1>1. ~HealthTick
  BY DEF HealthTick, IsProcessAlive
<1>2. /\ pc = "select" /\ pc' = "dispatch"
      /\ UNCHANGED <<queue, results, idle, active, senders, suspects>>
      /\ UNCHANGED <<job, conn, mailbox, toWorker, fromWorker, events>>
  BY <1>1 DEF MemoryTick, AcceptFailure, Selecting
<1>3. Ledger' /\ \A v \in Workers : Link(v)'
  BY <1>2, LedgerFrame, LinksFrame
<1>4. IdleInv' /\ LoopInv'
  BY <1>2 DEF IdleInv, IdleIsFree, LoopInv
<1> QED
  BY <1>3, <1>4

(* Accepting a connection keeps the invariant.                             *)
LEMMA AcceptConnectionDirect ==
  ASSUME TypeInv, DirectInv, NEW w \in Workers, AcceptConnection(w) PROVE DirectInv'
<1> USE DEF TypeInv, DirectInv, Books, loopVars, procVars
<1>1. /\ pc = "select" /\ pc' = "dispatch" /\ conn' = [conn EXCEPT ![w] = "handshake"]
      /\ UNCHANGED <<queue, results, idle, active, senders, suspects>>
      /\ UNCHANGED <<job, mailbox, toWorker, fromWorker, events>>
  BY DEF AcceptConnection, Selecting
<1>2. Ledger'
  BY <1>1, LedgerFrame
<1>3. IdleInv' /\ LoopInv'
  BY <1>1 DEF IdleInv, IdleIsFree, LoopInv
<1>4. ASSUME NEW v \in Workers PROVE Link(v)'
  <2>1. CASE v = w
    BY <1>1, <2>1 DEF TypeOK, Link, OpenInv, ClosedInv
  <2>2. CASE v # w
    BY <1>1, <2>2, LinkFrame DEF TypeOK
  <2> QED
    BY <2>1, <2>2
<1> QED
  BY <1>2, <1>3, <1>4

(* Shutdown keeps the invariant.                                           *)
LEMMA ReturnDirect == ASSUME TypeInv, DirectInv, Return PROVE DirectInv'
<1> USE DEF TypeInv, DirectInv, Books, loopVars
<1>1. /\ pc = "shutdown" /\ pc' = "returned"
      /\ UNCHANGED <<queue, results, idle, active, senders, suspects>>
      /\ UNCHANGED <<conn, events>>
  BY DEF Return
<1>2. Ledger'
  BY <1>1, LedgerFrame
<1>3. IdleInv' /\ LoopInv'
  BY <1>1 DEF IdleInv, LoopInv, Settled
<1>4. ASSUME NEW v \in Workers PROVE Link(v)'
  BY <1>1 DEF Link, OpenInv, ClosedInv
<1> QED
  BY <1>2, <1>3, <1>4

(* dispatch_pending keeps the invariant: the worker it pops is free.       *)
LEMMA DispatchDirect ==
  ASSUME TypeInv, DirectInv, NEW m \in Mutants, DispatchOne(m) PROVE DirectInv'
<1> USE DEF TypeInv, DirectInv, Books, procVars
<1>1. /\ pc = "dispatch" /\ pc' = pc /\ idle # <<>> /\ m \in queue
      /\ queue' = queue \ {m} /\ idle' = Front(idle)
      /\ UNCHANGED <<senders, suspects, conn, job, toWorker, fromWorker, events>>
  BY DEF DispatchOne, CanDispatch, Longest
<1>0. PICK w \in Workers : w = Last(idle)
  BY <1>1, LastFront DEF TypeOK
<1>2. /\ Len(idle) \in Nat \ {0} /\ w \in Workers /\ w = idle[Len(idle)]
      /\ idle' \in Seq(Workers) /\ Len(idle') = Len(idle) - 1
      /\ \A i \in 1 .. Len(idle) - 1 : idle'[i] = idle[i]
  BY <1>1, <1>0, LastFront DEF TypeOK
<1>3. /\ w \in senders /\ active[w] = NoMutant
      /\ \A i \in 1 .. Len(idle) - 1 : idle[i] # w
  <2>1. DOMAIN idle = 1 .. Len(idle) /\ Len(idle) \in DOMAIN idle
    <3>1. idle \in Seq(Workers)
      BY DEF TypeOK
    <3> HIDE DEF TypeInv, DirectInv, Books
    <3> QED
      BY <1>2, <3>1
  <2> QED
    BY <1>1, <1>2, <2>1 DEF IdleInv, IdleIsFree
<1>4. \A i \in DOMAIN idle' :
        /\ idle'[i] \in senders /\ active[idle'[i]] = NoMutant /\ idle'[i] # w
        /\ \A j \in DOMAIN idle' : idle'[j] = idle'[i] => i = j
  <2>1. /\ DOMAIN idle' = 1 .. Len(idle) - 1 /\ DOMAIN idle = 1 .. Len(idle)
        /\ DOMAIN idle' \subseteq DOMAIN idle
    <3>1. DOMAIN idle' = 1 .. Len(idle') /\ DOMAIN idle = 1 .. Len(idle)
      BY <1>2 DEF TypeOK
    <3> QED
      BY <1>2, <3>1
  <2>2. \A i \in DOMAIN idle :
          /\ idle[i] \in senders /\ active[idle[i]] = NoMutant
          /\ \A j \in DOMAIN idle : idle[j] = idle[i] => i = j
    BY <1>1 DEF IdleInv, IdleIsFree
  <2> QED
    BY <1>2, <1>3, <2>1, <2>2
<1>5. CASE conn[w] # "open"
  <2>1. /\ active' = active /\ UNCHANGED mailbox
        /\ results' = Append(results, Verdict(m, "Error", "dispatch_pending"))
    <3>1. SendFails(w) /\ ~SendWorks(w)
      BY <1>3, <1>5 DEF SendFails, SendWorks
    <3>2. active' = [active EXCEPT ![w] = NoMutant]
      BY <1>0, <3>1 DEF DispatchOne
    <3> QED
      BY <1>3, <1>0, <3>1, <3>2 DEF DispatchOne, TypeOK
  <2>2. Ledger'
    BY <1>1, <2>1, GiveUpLedger DEF Statuses
  <2>3. IdleInv' /\ LoopInv'
    BY <1>1, <1>4, <2>1 DEF IdleInv, IdleIsFree, LoopInv
  <2>4. \A v \in Workers : Link(v)'
    BY <1>1, <2>1, LinksFrame
  <2> QED
    BY <2>2, <2>3, <2>4
<1>6. CASE conn[w] = "open"
  <2>1. /\ active' = [active EXCEPT ![w] = m] /\ UNCHANGED results
        /\ mailbox' = [mailbox EXCEPT ![w] = Append(@, Run(m))]
    <3>1. ~SendFails(w) /\ SendWorks(w)
      BY <1>3, <1>6 DEF SendFails, SendWorks
    <3> QED
      BY <1>0, <3>1 DEF DispatchOne
  <2>2. Ledger'
    BY <1>1, <1>2, <1>3, <2>1, AssignLedger
  <2>3. IdleInv' /\ LoopInv'
    BY <1>1, <1>2, <1>3, <1>4, <2>1 DEF IdleInv, IdleIsFree, LoopInv, TypeOK
  <2>4. /\ mailbox[w] = <<>> /\ toWorker[w] = <<>> /\ fromWorker[w] = <<>>
        /\ events[w] = <<>> /\ job[w] = NoMutant
    BY <1>1, <1>2, <1>3, <1>6, FreeIsQuiet
  <2>5. /\ mailbox'[w] # <<>> /\ Len(mailbox'[w]) < 2 /\ mailbox'[w][1] = Run(m)
    BY <1>2, <2>1, <2>4, AppendToEmpty DEF TypeOK
  <2>6. active'[w] = m
    BY <1>2, <2>1 DEF TypeOK
  <2>7. Link(w)'
    <3>1. /\ conn'[w] = "open" /\ toWorker'[w] = <<>> /\ fromWorker'[w] = <<>>
          /\ events'[w] = <<>> /\ job'[w] = NoMutant
      BY <1>1, <1>6, <2>4
    <3>2. OneUnderWay(w)'
      <4>1. Len(<<>>) < 2
        OBVIOUS
      <4> QED
        BY <2>5, <3>1, <4>1 DEF OneUnderWay
    <3>3. Addressed(w, Run(m))'
      BY <2>6 DEF Addressed, Run
    <3> QED
      BY <2>5, <3>1, <3>2, <3>3 DEF Link, OpenInv, ClosedInv, Addressed
  <2>8. ASSUME NEW v \in Workers, v # w PROVE Link(v)'
    BY <1>1, <2>1, <2>8, LinkFrame DEF TypeOK
  <2>9. \A v \in Workers : Link(v)'
    BY <2>7, <2>8
  <2> QED
    BY <2>2, <2>3, <2>9
<1> QED
  BY <1>5, <1>6

-------------------------------------------------------------------------------
(* The events.                                                             *)

(* An id that is not on the stack is on it once after a push.              *)
LEMMA OneEntry ==
  ASSUME NEW e
  PROVE  /\ \A i \in DOMAIN Append(<<>>, e) : Append(<<>>, e)[i] = e
         /\ \A i, j \in DOMAIN Append(<<>>, e) : i = j
  OBVIOUS

(* A worker that becomes free may be pushed on the idle stack.             *)
LEMMA IdleAfterEvent ==
  ASSUME IdleInv, NEW w \in Workers, pc = "select", pc' = "dispatch", UNCHANGED queue,
         idle' = idle \/ idle' = Append(idle, w),
         idle' # idle => w \in senders' /\ active'[w] = NoMutant
  PROVE  IdleInv'
<1>1. queue # {} => idle = <<>>
  BY DEF IdleInv
<1>2. CASE idle' = idle
  BY <1>1, <1>2 DEF IdleInv, IdleIsFree
<1>3. CASE idle' # idle
  BY <1>1, <1>3, OneEntry DEF IdleInv, IdleIsFree
<1> QED
  BY <1>2, <1>3

\* What taking an event off the queue leaves behind it.
LEMMA TakenEvent ==
  ASSUME TypeInv, NEW w \in Workers, NEW k, Receive(w, k)
  PROVE  /\ pc = "select" /\ pc' = "dispatch" /\ suspects = {}
         /\ events[w] # <<>> /\ events[w][1].kind = k /\ Head(events[w]) = events[w][1]
         /\ \A v \in Workers : v # w => events'[v] = events[v]
         /\ Len(events[w]) < 2 => events'[w] = <<>>
         /\ Len(events[w]) > 1 /\ Len(events[w]) < 3 =>
              /\ events'[w] # <<>> /\ Len(events'[w]) < 2
              /\ events'[w][Len(events'[w])] = events[w][Len(events[w])]
<1>1. /\ pc = "select" /\ pc' = "dispatch" /\ suspects = {}
      /\ events[w] # <<>> /\ events[w][1].kind = k /\ Head(events[w]) = events[w][1]
  BY Received
<1>2. \A v \in Workers : v # w => events'[v] = events[v]
  BY DEF Receive, TypeInv, TypeOK
<1>3. events[w] \in Seq(WorkerEvents) /\ events'[w] = Tail(events[w])
  BY DEF Receive, TypeInv, TypeOK
<1>4. Len(events[w]) < 2 => events'[w] = <<>>
  BY <1>1, <1>3, TailOfOne
<1>5. ASSUME Len(events[w]) > 1, Len(events[w]) < 3
      PROVE  /\ events'[w] # <<>> /\ Len(events'[w]) < 2
             /\ events'[w][Len(events'[w])] = events[w][Len(events[w])]
  <2>1. /\ Len(events[w]) \in Nat /\ Len(events'[w]) = Len(events[w]) - 1
        /\ \A i \in 1 .. Len(events'[w]) : events'[w][i] = events[w][i + 1]
    BY Received
  <2>2. /\ Len(events'[w]) \in 1 .. Len(events'[w]) /\ Len(events'[w]) > 0
        /\ Len(events'[w]) + 1 = Len(events[w]) /\ Len(events'[w]) < 2
    BY <1>5, <2>1
  <2> QED
    BY <2>1, <2>2
<1> QED
  BY <1>1, <1>2, <1>4, <1>5

(* Handling Connected keeps the invariant.                                 *)
LEMMA ConnectedDirect ==
  ASSUME TypeInv, DirectInv, NEW w \in Workers, HandleConnected(w) PROVE DirectInv'
<1> USE DEF DirectInv, Books
<1>1. Receive(w, "Connected")
  BY DEF HandleConnected
<1>2. /\ conn[w] = "accepted" /\ fromWorker[w] = <<>> /\ mailbox[w] = <<>>
      /\ toWorker[w] = <<>> /\ job[w] = NoMutant /\ w \notin senders
  BY <1>1, TakenEvent DEF TypeInv, Handshaken, PreOpen
<1>3. events'[w] = <<>>
  <2>1. Len(events[w]) = 1
    BY <1>2 DEF TypeInv, Handshaken
  <2>2. Len(events[w]) < 2
    BY <2>1
  <2> QED
    BY <1>1, <2>2, TakenEvent
<1>4. /\ senders' = senders \cup {w} /\ conn' = [conn EXCEPT ![w] = "open"]
      /\ idle' = Append(idle, w)
      /\ UNCHANGED <<queue, results, active, suspects, job, mailbox, toWorker, fromWorker>>
  BY DEF HandleConnected
<1>5. active[w] = NoMutant
  BY <1>2 DEF LoopInv
<1>6. Ledger' /\ IdleInv'
  BY <1>1, <1>4, <1>5, TakenEvent, LedgerFrame, IdleAfterEvent
<1>7. LoopInv'
  BY <1>1, <1>4, TakenEvent DEF LoopInv
<1>8. Link(w)'
  <2>1. conn'[w] = "open"
    BY <1>4 DEF TypeInv, TypeOK
  <2>2. OneUnderWay(w)'
    BY <1>2, <1>3, <1>4 DEF OneUnderWay
  <2> QED
    BY <1>2, <1>3, <1>4, <2>1, <2>2 DEF Link, OpenInv, ClosedInv
<1>9. ASSUME NEW v \in Workers, v # w PROVE Link(v)'
  <2>1. pc = "select" /\ Link(v) /\ events'[v] = events[v]
    BY <1>1, <1>9 DEF Receive, Selecting, TypeInv, TypeOK
  <2>2. conn'[v] = conn[v] /\ (v \in senders' <=> v \in senders)
    BY <1>4, <1>9 DEF TypeInv, TypeOK
  <2> QED
    BY <1>4, <2>1, <2>2, LinkFrame
<1>10. \A v \in Workers : Link(v)'
  BY <1>8, <1>9
<1> QED
  BY <1>6, <1>7, <1>10

(* Handling AcceptFailed keeps the invariant.                              *)
LEMMA AcceptFailedDirect ==
  ASSUME TypeInv, DirectInv, NEW w \in Workers, HandleAcceptFailed(w) PROVE DirectInv'
<1> USE DEF DirectInv, Books
<1>1. Receive(w, "AcceptFailed")
  BY DEF HandleAcceptFailed
<1>2. /\ pc = "select" /\ events[w] # <<>> /\ events[w][1].kind = "AcceptFailed"
  BY <1>1, TakenEvent
<1>3. conn[w] = "failed" /\ Len(events[w]) < 2
  <2>1. conn[w] \notin {"none", "backlog", "handshake", "accepted"}
    BY <1>2 DEF TypeInv, Handshaken
  <2>2. conn[w] \notin {"open", "closed"}
    BY <1>2 DEF Link, OpenInv, ClosedInv, Answers
  <2>3. conn[w] \notin {"eof", "timedout"}
    <3>1. ASSUME conn[w] \in {"eof", "timedout"} PROVE FALSE
      <4>1. events[w][Len(events[w])].kind = "Disconnected" /\ ~(Len(events[w]) > 1)
        BY <1>2, <3>1 DEF Link, ClosedInv, Answers
      <4>2. Len(events[w]) \in Nat /\ Len(events[w]) > 0
        BY <1>2, Lengths DEF TypeInv
      <4>3. \A n \in Nat : n > 0 /\ ~(n > 1) => n = 1
        OBVIOUS
      <4>4. events[w][Len(events[w])] = events[w][1]
        BY <4>1, <4>2, <4>3
      <4> QED
        BY <1>2, <4>1, <4>4
    <3> QED
      BY <3>1
  <2>4. conn[w] = "failed"
    BY <2>1, <2>2, <2>3 DEF TypeInv, TypeOK, ConnStates
  <2> QED
    BY <2>4 DEF Link, ClosedInv
<1>4. UNCHANGED <<queue, results, idle, active, senders, suspects, conn, job, mailbox,
                  toWorker, fromWorker>>
  BY DEF HandleAcceptFailed, procVars
<1>5. Ledger' /\ IdleInv'
  BY <1>1, <1>4, TakenEvent, LedgerFrame, IdleAfterEvent
<1>6. LoopInv'
  BY <1>1, <1>4, TakenEvent DEF LoopInv
<1>7. Link(w)'
  BY <1>1, <1>3, <1>4, TakenEvent DEF Link, OpenInv, ClosedInv
<1>8. ASSUME NEW v \in Workers, v # w PROVE Link(v)'
  BY <1>1, <1>4, <1>8, TakenEvent, LinkFrame
<1>9. \A v \in Workers : Link(v)'
  BY <1>7, <1>8
<1> QED
  BY <1>5, <1>6, <1>9

\* An answer settles the mutant of its worker, which is idle again or retired.
LEMMA AnswerDirect ==
  ASSUME TypeInv, DirectInv, NEW w \in Workers, NEW k \in Answers, Receive(w, k),
         NEW st \in Statuses, NEW h,
         results' = Append(results, Verdict(Head(events[w]).mutant, st, h)),
         active' = Cleared(w), UNCHANGED <<queue, suspects, conn, toWorker, fromWorker>>,
         \A v \in Workers : v # w => job'[v] = job[v],
         job'[w] \in {job[w], NoMutant},
         \/ idle' = Append(idle, w) /\ UNCHANGED <<senders, mailbox>>
         \/ /\ idle' = idle /\ senders' = senders \ {w}
            /\ mailbox' = IF SendWorks(w) THEN [mailbox EXCEPT ![w] = Append(@, Shutdown)]
                          ELSE mailbox
  PROVE  DirectInv'
<1> USE DEF DirectInv, Books
<1>1. /\ pc = "select" /\ pc' = "dispatch" /\ events[w] # <<>> /\ events[w][1].kind \in Answers
      /\ Head(events[w]) = events[w][1]
  BY TakenEvent
<1>2. events[w][1].mutant = active[w] /\ active[w] \in Mutants /\ active[w] # NoMutant
  BY <1>1, AnswerIsCurrent, PoolAssumption
<1>3. /\ active'[w] = NoMutant
      /\ \A v \in Workers : v # w => active'[v] = active[v]
      /\ \A v \in Workers : v # w => mailbox'[v] = mailbox[v] /\ events'[v] = events[v]
  BY TakenEvent DEF Cleared, TypeInv, TypeOK
<1>4. w \in senders
  BY <1>2 DEF LoopInv
<1>5. Ledger'
  BY <1>1, <1>2, SettleLedger DEF TypeInv
<1>6. IdleInv'
  BY <1>1, <1>3, <1>4, IdleAfterEvent
<1>7. LoopInv'
  BY <1>1, <1>3 DEF LoopInv
<1>8. Link(w)'
  <2>1. CASE conn[w] = "open"
    <3>1. /\ Len(events[w]) < 2 /\ mailbox[w] = <<>> /\ toWorker[w] = <<>>
          /\ fromWorker[w] = <<>> /\ job[w] = NoMutant
      BY <1>1, <2>1, AnswerIsCurrent
    <3>2. /\ events'[w] = <<>> /\ toWorker'[w] = <<>> /\ fromWorker'[w] = <<>>
          /\ job'[w] = NoMutant
      BY <3>1, TakenEvent
    <3>3. \/ mailbox'[w] = <<>>
          \/ /\ mailbox'[w] # <<>> /\ Len(mailbox'[w]) < 2 /\ mailbox'[w][1] = Shutdown
             /\ w \notin senders'
      <4>1. CASE mailbox' = mailbox
        BY <3>1, <4>1
      <4>2. CASE /\ senders' = senders \ {w}
                 /\ mailbox' = [mailbox EXCEPT ![w] = Append(@, Shutdown)]
        <5>1. mailbox'[w] = Append(<<>>, Shutdown)
          BY <3>1, <4>2 DEF TypeInv, TypeOK
        <5> QED
          BY <4>2, <5>1, AppendToEmpty
      <4> QED
        BY <4>1, <4>2
    <3>4. OneUnderWay(w)'
      BY <3>2, <3>3 DEF OneUnderWay
    <3>5. mailbox'[w] # <<>> => Addressed(w, mailbox[w][1])'
      BY <3>3 DEF Addressed, Shutdown
    <3> QED
      BY <2>1, <3>2, <3>4, <3>5 DEF Link, OpenInv, ClosedInv
  <2>2. CASE conn[w] # "open"
    <3>1. /\ conn[w] \in {"eof", "timedout"} /\ Len(events[w]) > 1 /\ Len(events[w]) < 3
          /\ events[w][Len(events[w])].kind = "Disconnected"
      BY <1>1, <2>2, AnswerIsCurrent
    <3>2. /\ events'[w] # <<>> /\ Len(events'[w]) < 2
          /\ events'[w][Len(events'[w])].kind = "Disconnected"
      BY <3>1, TakenEvent
    <3>3. Len(events'[w]) < 3 /\ ~(Len(events'[w]) > 1)
      <4>1. \A n \in Nat : n < 2 => n < 3 /\ ~(n > 1)
        OBVIOUS
      <4>2. Len(events'[w]) \in Nat
        BY Received
      <4> QED
        BY <3>2, <4>1, <4>2
    <3> QED
      BY <3>1, <3>2, <3>3 DEF Link, OpenInv, ClosedInv
  <2> QED
    BY <2>1, <2>2
<1>9. ASSUME NEW v \in Workers, v # w PROVE Link(v)'
  BY <1>1, <1>3, <1>9, LinkFrame
<1>10. \A v \in Workers : Link(v)'
  BY <1>8, <1>9
<1> QED
  BY <1>5, <1>6, <1>7, <1>10

(* Handling Error keeps the invariant.                                     *)
LEMMA ErrorDirect ==
  ASSUME TypeInv, DirectInv, NEW w \in Workers, HandleError(w) PROVE DirectInv'
<1>1. Receive(w, "Error") /\ "Error" \in Answers /\ "Error" \in Statuses
  BY DEF HandleError, Answers, Statuses
<1>2. /\ results' = Append(results, Verdict(Head(events[w]).mutant, "Error", "handle_error"))
      /\ active' = Cleared(w) /\ idle' = Append(idle, w)
      /\ UNCHANGED <<queue, suspects, conn, toWorker, fromWorker, job, senders, mailbox>>
  BY DEF HandleError, procVars
<1> QED
  BY <1>1, <1>2, AnswerDirect

(* Handling Result keeps the invariant, whether the worker is recycled or  *)
(* not.                                                                    *)
LEMMA ResultDirect ==
  ASSUME TypeInv, DirectInv, NEW w \in Workers, HandleResult(w) PROVE DirectInv'
<1>1. Receive(w, "Result") /\ "Result" \in Answers
  BY DEF HandleResult, Answers
<1>2. Head(events[w]).status \in Statuses
  BY <1>1, Received, AnswerEvent
<1>3. /\ results' = Append(results, Verdict(Head(events[w]).mutant, Head(events[w]).status,
                                            "handle_result"))
      /\ active' = Cleared(w) /\ UNCHANGED <<queue, suspects, conn, toWorker, fromWorker>>
  BY DEF HandleResult
<1>4. CASE w \in flagged /\ queue # {}
  <2>1. /\ idle' = idle /\ senders' = senders \ {w} /\ job' = DropJob(w)
        /\ mailbox' = IF SendWorks(w) THEN [mailbox EXCEPT ![w] = Append(@, Shutdown)]
                      ELSE mailbox
    BY <1>4 DEF HandleResult
  <2>2. /\ \A v \in Workers : v # w => job'[v] = job[v]
        /\ job'[w] \in {job[w], NoMutant}
    BY <2>1 DEF DropJob, TypeInv, TypeOK
  <2> QED
    BY <1>1, <1>2, <1>3, <2>1, <2>2, AnswerDirect
<1>5. CASE ~(w \in flagged /\ queue # {})
  <2>1. idle' = Append(idle, w) /\ UNCHANGED <<senders, mailbox, job>>
    BY <1>5 DEF HandleResult, procVars
  <2> QED
    BY <1>1, <1>2, <1>3, <2>1, AnswerDirect
<1> QED
  BY <1>4, <1>5

(* Handling Disconnected keeps the invariant.                              *)
LEMMA DisconnectedDirect ==
  ASSUME TypeInv, DirectInv, NEW w \in Workers, HandleDisconnected(w) PROVE DirectInv'
<1> USE DEF DirectInv, Books
<1>1. Receive(w, "Disconnected")
  BY DEF HandleDisconnected
<1>2. conn[w] \in {"eof", "timedout"} /\ events'[w] = <<>>
  BY <1>1, TakenEvent, DisconnectedIsLast
<1>3. /\ senders' = senders \ {w} /\ active' = Cleared(w) /\ job' = DropJob(w)
      /\ UNCHANGED <<queue, idle, suspects, conn, mailbox, toWorker, fromWorker>>
      /\ results' = IF TimedOut(w)
                    THEN Append(results, Verdict(active[w], "Timeout", "handle_disconnect"))
                    ELSE results
  BY DEF HandleDisconnected
<1>4. /\ active'[w] = NoMutant
      /\ \A v \in Workers : v # w => active'[v] = active[v] /\ job'[v] = job[v]
  BY <1>3 DEF Cleared, DropJob, TypeInv, TypeOK
<1>5. Ledger'
  <2>1. CASE TimedOut(w)
    BY <1>3, <2>1, SettleLedger DEF TimedOut, TypeInv, Statuses
  <2>2. CASE ~TimedOut(w)
    <3>1. active' = active
      BY <1>3, <2>2 DEF TimedOut, Cleared, TypeInv, TypeOK
    <3> QED
      BY <1>3, <2>2, <3>1, LedgerFrame
  <2> QED
    BY <2>1, <2>2
<1>6. IdleInv'
  BY <1>1, <1>3, TakenEvent, IdleAfterEvent
<1>7. LoopInv'
  BY <1>1, <1>3, <1>4, TakenEvent DEF LoopInv
<1>8. Link(w)'
  <2>1. Len(<<>>) < 3 /\ ~(Len(<<>>) > 1)
    OBVIOUS
  <2> QED
    BY <1>2, <1>3, <2>1 DEF Link, OpenInv, ClosedInv
<1>9. ASSUME NEW v \in Workers, v # w PROVE Link(v)'
  BY <1>1, <1>3, <1>4, <1>9, TakenEvent, LinkFrame
<1>10. \A v \in Workers : Link(v)'
  BY <1>8, <1>9
<1> QED
  BY <1>5, <1>6, <1>7, <1>10

(* Every step keeps the invariant.                                         *)
LEMMA NextDirectInv == ASSUME ~Wrapped, TypeInv, DirectInv, [Next]_vars PROVE DirectInv'
<1>1. CASE LoopStep
  <2>1. \A w \in Workers : ~HealthCheck(w)
    BY DEF HealthCheck, DirectInv, Books, LoopInv
  <2> QED
    BY <1>1, <2>1, LoopTopDirect, DrainDirect, TicksDirect, ReturnDirect, DispatchDirect,
       AcceptConnectionDirect, ConnectedDirect, AcceptFailedDirect, ResultDirect,
       ErrorDirect, DisconnectedDirect
       DEF LoopStep, HandleEvent
<1>2. CASE AcceptFailure \/ MemoryTick
  BY <1>2, TicksDirect
<1>3. ASSUME NEW w \in Workers, TaskStep(w) \/ WorkerStep(w) PROVE DirectInv'
  <2>1. UNCHANGED booksVars /\ \A v \in Workers : Link(v)'
    BY <1>3, TaskStepLinks, WorkerStepLinks DEF DirectInv
  <2> QED
    BY <2>1, BooksFrame DEF DirectInv
<1>4. CASE UNCHANGED vars
  <2>1. UNCHANGED booksVars /\ \A v \in Workers : Link(v)'
    BY <1>4, LinksFrame DEF vars, loopVars, procVars, wireVars, booksVars, DirectInv
  <2> QED
    BY <2>1, BooksFrame DEF DirectInv
<1> QED
  BY <1>1, <1>2, <1>3, <1>4 DEF Next, Terminated

(* The invariant holds when dispatch_work starts.                          *)
LEMMA InitDirectInv == Init => DirectInv
<1> SUFFICES ASSUME Init PROVE DirectInv
  OBVIOUS
<1>1. /\ pc = "dispatch" /\ queue = Mutants /\ results = <<>> /\ idle = <<>>
      /\ active = [w \in Workers |-> NoMutant] /\ suspects = {}
      /\ conn = [w \in Workers |-> "none"]
  BY DEF Init
<1>2. Settled = {} /\ Assigned = {} /\ DOMAIN results = {}
  BY <1>1 DEF Settled, Assigned
<1>3. Ledger
  BY <1>1, <1>2 DEF Ledger
<1>4. IdleInv /\ LoopInv
  BY <1>1 DEF IdleInv, IdleIsFree, LoopInv
<1>5. \A w \in Workers : Link(w)
  BY <1>1 DEF Link, OpenInv, ClosedInv
<1> QED
  BY <1>3, <1>4, <1>5 DEF DirectInv, Books

(* The inductive invariant of the pool without a launcher.                 *)
LEMMA DirectInvHolds == ASSUME ~Wrapped PROVE Spec => [](TypeInv /\ DirectInv)
<1> DEFINE Inv == TypeInv /\ DirectInv
<1>1. Init => Inv
  BY InitTypeInv, InitDirectInv
<1>2. Inv /\ [Next]_vars => Inv'
  BY NextTypeInv, NextDirectInv
<1> QED
  BY <1>1, <1>2, PTL DEF Spec

(* At every moment every mutant is in exactly one place: the queue, one    *)
(* worker, or the results, once (the loop of run_worker_pool hands mutants *)
(* on with no check against the other two).                                *)
THEOREM LedgerHolds == ASSUME ~Wrapped PROVE Spec => []Ledger
<1>1. TypeInv /\ DirectInv => Ledger
  BY DEF DirectInv, Books
<1> QED
  BY <1>1, DirectInvHolds, PTL

(* What run_worker_pool returns has one result for every mutant: however   *)
(* workers crash, time out, are recycled, replaced or fail to connect, and *)
(* even when accept() fails.                                               *)
THEOREM OneResultEach == ASSUME ~Wrapped PROVE Spec => []ExactlyOneResult
<1>1. ASSUME TypeInv, DirectInv PROVE ExactlyOneResult
  <2>1. SUFFICES ASSUME pc = "returned", NEW m \in Mutants
                 PROVE  \E i \in DOMAIN results :
                          \A j \in DOMAIN results : results[j].mutant = m <=> j = i
    BY DEF ExactlyOneResult
  <2>2. Settled = Mutants
    BY <1>1, <2>1 DEF DirectInv, Books, LoopInv
  <2>3. PICK i \in DOMAIN results : results[i].mutant = m
    BY <2>2 DEF Settled
  <2> QED
    BY <1>1, <2>3 DEF DirectInv, Books, Ledger
<1>2. TypeInv /\ DirectInv => ExactlyOneResult
  BY <1>1
<1> QED
  BY <1>2, DirectInvHolds, PTL

(* dispatch_pending pops a worker off the idle stack without looking at    *)
(* it: while work waits, whatever it pops is connected, has no mutant and  *)
(* is on the stack once.                                                   *)
THEOREM IdleWorkersAreFree == ASSUME ~Wrapped PROVE Spec => []IdleIsFree
<1>1. ASSUME TypeInv, DirectInv PROVE IdleIsFree
  <2>1. CASE pc # "returned"
    BY <1>1, <2>1 DEF DirectInv, Books, IdleInv
  <2>2. CASE pc = "returned"
    BY <1>1, <2>2 DEF DirectInv, Books, LoopInv, Ledger, IdleIsFree, TypeInv, TypeOK
  <2> QED
    BY <2>1, <2>2
<1>2. TypeInv /\ DirectInv => IdleIsFree
  BY <1>1
<1> QED
  BY <1>2, DirectInvHolds, PTL

-----------------------------------------------------------------------------
(* WorkerPool implements MutantLedger.  The refinement mapping reads a      *)
(* mutant's line off the queue, active_mutants and results; DirectInv makes *)
(* it well defined.                                                         *)


\* The verdict of a mutant that results names once.
LEMMA VerdictAt ==
  ASSUME NEW r, \A i, j \in DOMAIN r : r[i].mutant = r[j].mutant => i = j,
         NEW i \in DOMAIN r
  PROVE  r[CHOOSE j \in DOMAIN r : r[j].mutant = r[i].mutant].status = r[i].status
<1>1. \E j \in DOMAIN r : r[j].mutant = r[i].mutant
  OBVIOUS
<1>2. (CHOOSE j \in DOMAIN r : r[j].mutant = r[i].mutant) = i
  BY <1>1
<1> QED
  BY <1>2

\* A new verdict is read back, and revises none of the others.
LEMMA VerdictKept ==
  ASSUME TypeOK, Ledger, NEW m \in Mutants, m \notin Settled, NEW st \in Statuses,
         NEW h, results' = Append(results, Verdict(m, st, h))
  PROVE  VerdictOf(m)' = st /\ \A n \in Settled : VerdictOf(n)' = VerdictOf(n)
<1> DEFINE len == Len(results)
<1>1. /\ len \in Nat /\ DOMAIN results = 1 .. len /\ DOMAIN results' = 1 .. len + 1
      /\ \A i \in 1 .. len : results'[i] = results[i]
      /\ results'[len + 1].mutant = m /\ results'[len + 1].status = st
  BY DEF TypeOK, Verdict
<1> HIDE DEF len
<1>2. \A i, j \in DOMAIN results : results[i].mutant = results[j].mutant => i = j
  BY DEF Ledger
<1>3. \A i, j \in DOMAIN results' : results'[i].mutant = results'[j].mutant => i = j
  BY <1>2, SettledAppend
<1>4. VerdictOf(m)' = st
  <2>1. len + 1 \in DOMAIN results'
    BY <1>1
  <2> QED
    BY <1>1, <1>3, <2>1, VerdictAt DEF VerdictOf
<1>5. ASSUME NEW n \in Settled PROVE VerdictOf(n)' = VerdictOf(n)
  <2>1. PICK i \in DOMAIN results : results[i].mutant = n
    BY DEF Settled
  <2>2. i \in DOMAIN results' /\ results'[i] = results[i]
    BY <1>1
  <2>3. VerdictOf(n) = results[i].status
    BY <1>2, <2>1, VerdictAt DEF VerdictOf
  <2>4. VerdictOf(n)' = results'[i].status
    BY <1>3, <2>1, <2>2, VerdictAt DEF VerdictOf
  <2> QED
    BY <2>2, <2>3, <2>4
<1> QED
  BY <1>4, <1>5

(* A step that touches neither queue, active nor results leaves the ledger *)
(* alone.                                                                  *)
LEMMA ViewFrame ==
  ASSUME UNCHANGED <<queue, results, active>>
  PROVE  LedgerView' = LedgerView
  BY DEF LedgerView, VerdictOf, Assigned

(* A mutant taken off the queue by a free worker goes from queued to       *)
(* assigned.                                                               *)
LEMMA ViewAssign ==
  ASSUME TypeOK, Ledger, NEW w \in Workers, active[w] = NoMutant, NEW m \in queue,
         queue' = queue \ {m}, active' = [active EXCEPT ![w] = m], UNCHANGED results
  PROVE  LedgerView[m] = "queued" /\ LedgerView' = [LedgerView EXCEPT ![m] = "assigned"]
<1>1. m \in Mutants /\ m # NoMutant
  BY PoolAssumption DEF TypeOK
<1>2. Assigned' = Assigned \cup {m}
  BY <1>1 DEF Assigned, TypeOK
<1>3. \A n \in Mutants : VerdictOf(n)' = VerdictOf(n)
  BY DEF VerdictOf
<1> QED
  BY <1>1, <1>2, <1>3 DEF LedgerView

(* A queued mutant settled as an error goes from queued to its verdict.    *)
LEMMA ViewGiveUp ==
  ASSUME TypeOK, Ledger, NEW m \in queue, NEW st \in Statuses, NEW h,
         queue' = queue \ {m}, results' = Append(results, Verdict(m, st, h)), UNCHANGED active
  PROVE  LedgerView[m] = "queued" /\ LedgerView' = [LedgerView EXCEPT ![m] = st]
<1>1. m \in Mutants /\ m \notin Settled /\ m \notin Assigned
  BY DEF TypeOK, Ledger
<1>2. Assigned' = Assigned
  BY DEF Assigned
<1>3. VerdictOf(m)' = st /\ \A n \in Settled : VerdictOf(n)' = VerdictOf(n)
  BY <1>1, VerdictKept
<1>4. \A n \in Mutants : n \in queue \/ n \in Assigned \/ n \in Settled
  BY DEF Ledger
<1> QED
  BY <1>1, <1>2, <1>3, <1>4 DEF LedgerView

(* The mutant of a worker, cleared and recorded, goes from assigned to its *)
(* verdict.                                                                *)
LEMMA ViewSettle ==
  ASSUME TypeOK, Ledger, NEW w \in Workers, active[w] # NoMutant, NEW st \in Statuses,
         NEW h, active' = Cleared(w), results' = Append(results, Verdict(active[w], st, h)),
         UNCHANGED queue
  PROVE  /\ LedgerView[active[w]] = "assigned"
         /\ LedgerView' = [LedgerView EXCEPT ![active[w]] = st]
<1> DEFINE m == active[w]
<1>1. m \in Mutants /\ m \in Assigned /\ m \notin Settled /\ m \notin queue
  BY DEF TypeOK, MaybeMutant, Assigned, Ledger
<1>2. Assigned' = Assigned \ {m}
  <2>1. /\ \A v \in Workers : v # w => active'[v] = active[v]
        /\ active'[w] = NoMutant
    BY DEF TypeOK, Cleared
  <2>2. \A u, v \in Workers : active[u] = active[v] /\ active[u] # NoMutant => u = v
    BY DEF Ledger
  <2> QED
    BY <2>1, <2>2 DEF Assigned
<1>3. PICK a \in Mutants : a = m
  BY <1>1
<1>4. VerdictOf(a)' = st /\ \A n \in Settled : VerdictOf(n)' = VerdictOf(n)
  BY <1>1, <1>3, VerdictKept
<1>5. \A n \in Mutants : n \in queue \/ n \in Assigned \/ n \in Settled
  BY DEF Ledger
<1>6. LedgerView[a] = "assigned" /\ LedgerView' = [LedgerView EXCEPT ![a] = st]
  BY <1>1, <1>2, <1>3, <1>4, <1>5 DEF LedgerView
<1> QED
  BY <1>3, <1>6

-------------------------------------------------------------------------------
(* Steps of the pool are steps of the ledger, or stutter.                  *)

(* A step that changes neither the ledger nor returned is a stutter.       *)
LEMMA RefineStutter ==
  ASSUME UNCHANGED <<queue, results, active>>, (pc = "returned") <=> (pc' = "returned")
  PROVE  UNCHANGED Abstract!vars
  BY ViewFrame DEF Abstract!vars

(* Dispatching a mutant is Assign, or GiveUp when the send fails.          *)
LEMMA RefineDispatch ==
  ASSUME TypeInv, DirectInv, NEW m \in Mutants, DispatchOne(m) PROVE Abstract!Next
<1> USE DEF TypeInv, DirectInv, Books
<1>1. /\ pc = "dispatch" /\ pc' = pc /\ idle # <<>> /\ m \in queue /\ queue' = queue \ {m}
  BY DEF DispatchOne, CanDispatch, Longest
<1>2. Last(idle) \in Workers /\ active[Last(idle)] = NoMutant
  <2>1. /\ Len(idle) \in Nat \ {0} /\ Last(idle) \in Workers /\ Last(idle) = idle[Len(idle)]
    BY <1>1, LastFront DEF TypeOK
  <2>2. DOMAIN idle = 1 .. Len(idle) /\ Len(idle) \in DOMAIN idle
    BY <2>1 DEF TypeOK
  <2> QED
    BY <1>1, <2>1, <2>2 DEF IdleInv, IdleIsFree
<1>3. CASE SendFails(Last(idle))
  <2>1. results' = Append(results, Verdict(m, "Error", "dispatch_pending")) /\ active' = active
    BY <1>2, <1>3 DEF DispatchOne, TypeOK
  <2>2. LedgerView[m] = "queued" /\ LedgerView' = [LedgerView EXCEPT ![m] = "Error"]
    BY <1>1, <2>1, ViewGiveUp DEF Statuses
  <2> QED
    BY <1>1, <2>2 DEF Abstract!Next, Abstract!GiveUp
<1>4. CASE ~SendFails(Last(idle))
  <2>1. UNCHANGED results /\ active' = [active EXCEPT ![Last(idle)] = m]
    BY <1>4 DEF DispatchOne
  <2>2. LedgerView[m] = "queued" /\ LedgerView' = [LedgerView EXCEPT ![m] = "assigned"]
    BY <1>1, <1>2, <2>1, ViewAssign
  <2> QED
    BY <1>1, <2>2 DEF Abstract!Next, Abstract!Assign
<1> QED
  BY <1>3, <1>4

(* Draining a mutant in handle_stuck is GiveUp.                            *)
LEMMA RefineDrain ==
  ASSUME TypeInv, DirectInv, NEW m \in Mutants, DrainOne(m) PROVE Abstract!Next
<1>1. /\ m \in queue /\ queue' = queue \ {m} /\ UNCHANGED <<pc, active>>
      /\ results' = Append(results, Verdict(m, "Error", "handle_stuck"))
  BY DEF DrainOne, Longest
<1>2. LedgerView[m] = "queued" /\ LedgerView' = [LedgerView EXCEPT ![m] = "Error"]
  BY <1>1, ViewGiveUp DEF Statuses, TypeInv, DirectInv, Books
<1> QED
  BY <1>1, <1>2 DEF Abstract!Next, Abstract!GiveUp

(* Shutdown is Return: every mutant is settled by then.                    *)
LEMMA RefineReturn == ASSUME TypeInv, DirectInv, Return PROVE Abstract!Next
<1>1. pc = "shutdown" /\ pc' = "returned" /\ UNCHANGED <<queue, results, active>>
  BY DEF Return, loopVars
<1>2. Settled = Mutants /\ queue = {} /\ Assigned = {}
  BY <1>1 DEF DirectInv, Books, LoopInv, Ledger, TypeInv, TypeOK
<1>3. ASSUME NEW m \in Mutants PROVE LedgerView[m] \in Statuses
  <2>1. PICK i \in DOMAIN results : results[i].mutant = m
    BY <1>2 DEF Settled
  <2>2. VerdictOf(m) = results[i].status
    BY <2>1, VerdictAt DEF VerdictOf, DirectInv, Books, Ledger
  <2>3. results[i].status \in Statuses
    <3>1. results[i] \in Records
      <4>1. results \in Seq(Records)
        BY DEF TypeInv, TypeOK
      <4>2. i \in 1 .. Len(results)
        BY <2>1, <4>1
      <4> QED
        BY <4>1, <4>2, ElementOfSeq
    <3> QED
      BY <3>1 DEF Records
  <2> QED
    BY <1>2, <2>2, <2>3 DEF LedgerView
<1>4. LedgerView' = LedgerView
  BY <1>1, ViewFrame
<1> QED
  BY <1>1, <1>3, <1>4 DEF Abstract!Next, Abstract!Return

(* Handling a Result or an Error settles the mutant of its worker.         *)
LEMMA RefineAnswer ==
  ASSUME TypeInv, DirectInv, NEW w \in Workers, HandleResult(w) \/ HandleError(w)
  PROVE  Abstract!Next
<1> USE DEF TypeInv, DirectInv, Books
<1>1. PICK k \in Answers, st \in Statuses, h \in Handlers :
        /\ Receive(w, k)
        /\ results' = Append(results, Verdict(Head(events[w]).mutant, st, h))
  <2>1. CASE HandleResult(w)
    <3>1. Receive(w, "Result") /\ "Result" \in Answers
      BY <2>1 DEF HandleResult, Answers
    <3>2. Head(events[w]).status \in Statuses
      BY <3>1, Received, AnswerEvent
    <3> QED
      BY <2>1, <3>1, <3>2 DEF HandleResult, Handlers
  <2>2. CASE HandleError(w)
    BY <2>2 DEF HandleError, Answers, Statuses, Handlers
  <2> QED
    BY <2>1, <2>2
<1>2. /\ pc = "select" /\ pc' = "dispatch" /\ Head(events[w]).mutant = active[w]
      /\ active[w] \in Mutants /\ active[w] # NoMutant
  <2>1. /\ pc = "select" /\ pc' = "dispatch" /\ events[w] # <<>>
        /\ events[w][1].kind \in Answers /\ Head(events[w]) = events[w][1]
    BY <1>1, TakenEvent
  <2> QED
    BY <2>1, AnswerIsCurrent, PoolAssumption
<1>3. active' = Cleared(w) /\ UNCHANGED queue
  BY DEF HandleResult, HandleError
<1>4. /\ LedgerView[active[w]] = "assigned"
      /\ LedgerView' = [LedgerView EXCEPT ![active[w]] = st]
  BY <1>1, <1>2, <1>3, ViewSettle
<1> QED
  BY <1>2, <1>4 DEF Abstract!Next, Abstract!Settle

(* A disconnect settles the mutant of its worker as a timeout, or is a     *)
(* stutter.                                                                *)
LEMMA RefineDisconnected ==
  ASSUME TypeInv, DirectInv, NEW w \in Workers, HandleDisconnected(w)
  PROVE  [Abstract!Next]_(Abstract!vars)
<1> USE DEF TypeInv, DirectInv, Books
<1>1. /\ pc = "select" /\ pc' = "dispatch" /\ active' = Cleared(w) /\ UNCHANGED queue
      /\ results' = IF TimedOut(w)
                    THEN Append(results, Verdict(active[w], "Timeout", "handle_disconnect"))
                    ELSE results
  BY DEF HandleDisconnected, Receive, Selecting
<1>2. CASE TimedOut(w)
  <2>1. active[w] # NoMutant /\ active[w] \in Mutants /\ "Timeout" \in Statuses
    BY <1>2 DEF TimedOut, TypeOK, MaybeMutant, Statuses
  <2>2. /\ LedgerView[active[w]] = "assigned"
        /\ LedgerView' = [LedgerView EXCEPT ![active[w]] = "Timeout"]
    BY <1>1, <1>2, <2>1, ViewSettle
  <2> QED
    BY <1>1, <2>1, <2>2 DEF Abstract!Next, Abstract!Settle
<1>3. CASE ~TimedOut(w)
  <2>1. UNCHANGED <<queue, results, active>>
    BY <1>1, <1>3 DEF TimedOut, Cleared, TypeOK
  <2> QED
    BY <1>1, <2>1, RefineStutter
<1> QED
  BY <1>2, <1>3

(* Every other step is a stutter.                                          *)
LEMMA RefineQuiet ==
  ASSUME TypeInv, DirectInv,
         \/ LoopTop \/ DrainEnd \/ AcceptFailure \/ MemoryTick
         \/ \E w \in Workers :
              \/ AcceptConnection(w) \/ HandleConnected(w) \/ HandleAcceptFailed(w)
              \/ TaskStep(w) \/ WorkerStep(w)
         \/ UNCHANGED vars
  PROVE  UNCHANGED Abstract!vars
<1> USE DEF loopVars, procVars, wireVars
<1>1. CASE LoopTop \/ DrainEnd
  BY <1>1, RefineStutter DEF LoopTop, DrainEnd
<1>2. CASE AcceptFailure \/ MemoryTick
  BY <1>2, RefineStutter DEF AcceptFailure, MemoryTick, Selecting
<1>3. ASSUME NEW w \in Workers,
             AcceptConnection(w) \/ HandleConnected(w) \/ HandleAcceptFailed(w)
      PROVE  UNCHANGED Abstract!vars
  BY <1>3, RefineStutter
     DEF AcceptConnection, HandleConnected, HandleAcceptFailed, Receive, Selecting
<1>4. ASSUME NEW w \in Workers, TaskStep(w) \/ WorkerStep(w)
      PROVE  UNCHANGED Abstract!vars
  <2>1. UNCHANGED booksVars
    BY <1>4, TaskStepLinks, WorkerStepLinks DEF DirectInv
  <2> QED
    BY <2>1, RefineStutter DEF booksVars
<1>5. CASE UNCHANGED vars
  BY <1>5, RefineStutter DEF vars
<1> QED
  BY <1>1, <1>2, <1>3, <1>4, <1>5

(* Every step of the pool is a step of the ledger or a stutter.            *)
LEMMA RefineStep ==
  ASSUME ~Wrapped, TypeInv, DirectInv, [Next]_vars PROVE [Abstract!Next]_(Abstract!vars)
<1>1. CASE LoopStep
  <2>1. (\A w \in Workers : ~HealthCheck(w)) /\ ~HealthTick
    BY DEF HealthCheck, HealthTick, IsProcessAlive, DirectInv, Books, LoopInv
  <2> QED
    BY <1>1, <2>1, RefineDispatch, RefineDrain, RefineReturn, RefineAnswer,
       RefineDisconnected, RefineQuiet
       DEF LoopStep, HandleEvent
<1>2. CASE ~LoopStep
  BY <1>2, RefineQuiet DEF Next, Terminated
<1> QED
  BY <1>1, <1>2

(* Every behaviour of the pool is one of the ledger: a mutant is assigned, *)
(* settled once, never revised, and the results are returned when all are  *)
(* settled.  The dispatch loop of run_worker_pool and its handlers, seen   *)
(* from the caller.                                                        *)
THEOREM PoolImplementsLedger == ASSUME ~Wrapped PROVE Spec => ImplementsLedger
<1>1. Init => Abstract!Init
  BY DEF Init, Abstract!Init, LedgerView
<1>2. TypeInv /\ DirectInv /\ [Next]_vars => [Abstract!Next]_(Abstract!vars)
  BY RefineStep
<1> QED
  BY <1>1, <1>2, DirectInvHolds, PTL DEF Spec, ImplementsLedger, Abstract!Spec
===============================================================================
