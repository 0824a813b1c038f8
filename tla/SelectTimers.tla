---------------------------- MODULE SelectTimers ----------------------------
(***************************************************************************)
(* The clocks of the dispatch loop of src/orchestrator.rs (dispatch_work). *)
(* Each iteration builds its select! anew: timeout(30 s, listener.accept())*)
(* starts a fresh timer, while health_check is an interval that lives      *)
(* outside the loop.  WorkerPool leaves time out; this module is about     *)
(* which of the two clocks can ring when a spawned worker never connects.  *)
(* Time advances in units chosen by the constants (500 ms below).          *)
(***************************************************************************)
EXTENDS Integers

CONSTANTS
  AcceptTimeout,   \* accept_timeout: 30 s
  HealthPeriod,    \* the period of health_check: 500 ms
  Silent,          \* spawned workers that died before connecting
  MaxBusy          \* bounds the time handlers may take out of the health clock

VARIABLES
  at,              \* "select" while the loop waits in its select!, or "handler"
  acceptLeft,      \* time left on the current select's accept timer
  healthLeft,      \* time to the next health tick; it may be overdue
  pendingAccepts   \* pending_accepts

vars == <<at, acceptLeft, healthLeft, pendingAccepts>>

Init ==
  /\ at = "handler"
  /\ acceptLeft = AcceptTimeout
  /\ healthLeft = 0
  /\ pendingAccepts = Silent

(* dispatch_pending, is_done and handle_stuck find nothing to do, and the  *)
(* select! is entered with a new accept timer.                             *)
EnterSelect ==
  /\ at = "handler"
  /\ at' = "select"
  /\ acceptLeft' = AcceptTimeout
  /\ UNCHANGED <<healthLeft, pendingAccepts>>

(* Time passes in the select until a timer is due; the runtime polls a     *)
(* timer that is due before it lets more time pass.                        *)
Wait ==
  /\ at = "select" /\ healthLeft > 0 /\ acceptLeft > 0
  /\ healthLeft' = healthLeft - 1
  /\ acceptLeft' = acceptLeft - 1
  /\ UNCHANGED <<at, pendingAccepts>>

(* Time passes in a handler; the interval falls behind.                    *)
Work ==
  /\ at = "handler" /\ healthLeft > HealthPeriod - MaxBusy
  /\ healthLeft' = healthLeft - 1
  /\ UNCHANGED <<at, acceptLeft, pendingAccepts>>

(* health_check.tick(): a late interval catches up tick by tick.           *)
HealthTick ==
  /\ at = "select" /\ healthLeft <= 0
  /\ healthLeft' = healthLeft + HealthPeriod
  /\ at' = "handler"
  /\ UNCHANGED <<acceptLeft, pendingAccepts>>

(* The Err(_) arm of the accept branch.                                    *)
AcceptTimesOut ==
  /\ at = "select" /\ acceptLeft <= 0 /\ pendingAccepts > 0
  /\ pendingAccepts' = pendingAccepts - 1
  /\ at' = "handler"
  /\ UNCHANGED <<acceptLeft, healthLeft>>

Next == EnterSelect \/ Wait \/ Work \/ HealthTick \/ AcceptTimesOut

Spec == Init /\ [][Next]_vars

(* Time passes, and the loop takes the branches that are ready, at random: *)
(* none is passed over for ever.                                           *)
FairSpec ==
  /\ Spec
  /\ WF_vars(EnterSelect) /\ WF_vars(Wait)
  /\ SF_vars(HealthTick) /\ SF_vars(AcceptTimesOut)

(* A worker that never connects is given up: pending_accepts reaches zero, *)
(* so that is_done and handle_stuck can end the run.                       *)
SilentWorkersGivenUp == <>(pendingAccepts = 0)
=============================================================================
