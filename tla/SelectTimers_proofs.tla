------------------------- MODULE SelectTimers_proofs -------------------------
(***************************************************************************)
(* The accept timer never rings, whatever the two periods are, as long as  *)
(* the health period is the shorter one.  The invariant: a select that is  *)
(* waiting has at least as much time left on its accept timer as the       *)
(* difference of the periods plus what is left of the health period, for   *)
(* it started with the whole of the first and at most the whole of the     *)
(* second, and the two run down together.                                  *)
(***************************************************************************)
EXTENDS SelectTimers, TLAPS

(* No handler of the accept timeout is ever run.                           *)
NeverDue == at = "select" => acceptLeft > 0

TimersInv ==
  /\ at \in {"select", "handler"}
  /\ acceptLeft \in Int /\ healthLeft \in Int
  /\ healthLeft <= HealthPeriod
  /\ at = "select" => acceptLeft >= AcceptTimeout - HealthPeriod + healthLeft
  /\ at = "select" => acceptLeft >= AcceptTimeout - HealthPeriod

(* With a health period below the accept timeout (500 ms against 30 s) the *)
(* accept timeout of dispatch_work never elapses: the branch that logs     *)
(* "Timeout waiting for worker connection" is dead code.                   *)
THEOREM AcceptNeverTimesOut ==
  ASSUME AcceptTimeout \in Nat, HealthPeriod \in Nat,
         0 < HealthPeriod, HealthPeriod < AcceptTimeout
  PROVE  Spec => []NeverDue
<1>1. Init => TimersInv
  BY DEF Init, TimersInv
<1>2. TimersInv /\ [Next]_vars => TimersInv'
  <2> SUFFICES ASSUME TimersInv, [Next]_vars PROVE TimersInv'
    OBVIOUS
  <2> USE DEF TimersInv
  <2>1. CASE EnterSelect
    BY <2>1 DEF EnterSelect
  <2>2. CASE Wait
    BY <2>2 DEF Wait
  <2>3. CASE Work
    BY <2>3 DEF Work
  <2>4. CASE HealthTick
    BY <2>4 DEF HealthTick
  <2>5. CASE AcceptTimesOut
    BY <2>5 DEF AcceptTimesOut
  <2>6. CASE UNCHANGED vars
    BY <2>6 DEF vars
  <2> QED BY <2>1, <2>2, <2>3, <2>4, <2>5, <2>6 DEF Next
<1>3. TimersInv => NeverDue
  BY DEF TimersInv, NeverDue
<1> QED BY <1>1, <1>2, <1>3, PTL DEF Spec
==============================================================================
