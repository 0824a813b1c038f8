----------------------------- MODULE MutantLedger -----------------------------
(***************************************************************************)
(* What run_worker_pool promises its caller (src/orchestrator.rs: "Returns *)
(* the results for all mutants").  A mutant waits in the queue, is handed  *)
(* to a worker, and receives one verdict that is never revised; a mutant   *)
(* the pool gives up on is settled as an error without a worker; the run   *)
(* returns only when every mutant is settled.  Nothing is said of workers, *)
(* sockets or processes: WorkerPool implements this module.                *)
(***************************************************************************)
CONSTANTS
  Mutants,      \* the work items of one run
  Verdicts,     \* what can be recorded for a mutant, with ErrorVerdict
  ErrorVerdict  \* the verdict of a mutant that was never tested

VARIABLES
  ledger,       \* [Mutants -> {"queued", "assigned"} \cup Verdicts]
  returned      \* has the pool handed its results to the caller

vars == <<ledger, returned>>

TypeOK ==
  /\ ledger \in [Mutants -> {"queued", "assigned"} \cup Verdicts]
  /\ returned \in BOOLEAN

Init ==
  /\ ledger = [m \in Mutants |-> "queued"]
  /\ returned = FALSE

Assign(m) ==
  /\ ledger[m] = "queued"
  /\ ledger' = [ledger EXCEPT ![m] = "assigned"]
  /\ UNCHANGED returned

Settle(m, v) ==
  /\ ledger[m] = "assigned"
  /\ ledger' = [ledger EXCEPT ![m] = v]
  /\ UNCHANGED returned

GiveUp(m) ==
  /\ ledger[m] = "queued"
  /\ ledger' = [ledger EXCEPT ![m] = ErrorVerdict]
  /\ UNCHANGED returned

Return ==
  /\ \A m \in Mutants : ledger[m] \in Verdicts
  /\ ~returned
  /\ returned' = TRUE
  /\ UNCHANGED ledger

Next ==
  \/ \E m \in Mutants : Assign(m) \/ GiveUp(m) \/ \E v \in Verdicts : Settle(m, v)
  \/ Return

Spec == Init /\ [][Next]_vars
===============================================================================
