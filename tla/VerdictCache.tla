----------------------------- MODULE VerdictCache -----------------------------
(***************************************************************************)
(* What the result cache promises the runs that share it: a map from cache *)
(* key to verdict.  A run takes a verdict from the map whole or tests the  *)
(* mutant itself; an entry is written only by a run that tested a mutant   *)
(* of that key, with the verdict it reports or the correction that its     *)
(* verification found; anybody may lose an entry.  Nothing is said of      *)
(* files: ResultCache implements this module.                              *)
(***************************************************************************)
CONSTANTS
  Runs,      \* processes of `irradiate run` on one project
  Mutants,   \* the mutants every run schedules
  Keys,      \* cache keys
  KeyOf,     \* [Mutants -> Keys]: build_cache_key
  Verdicts,  \* what an entry can say
  NoVerdict, \* no entry, or nothing reported yet
  Warm,      \* [Mutants -> SUBSET Verdicts]: what a warm worker may find
  Isolated   \* [Mutants -> Verdicts]: what a fresh process finds

VARIABLES
  cache,     \* [Keys -> Verdicts \cup {NoVerdict}]
  tested,    \* [Runs -> SUBSET Mutants]: the mutants a run tested itself
  report     \* [Runs -> [Mutants -> Verdicts \cup {NoVerdict}]]

vars == <<cache, tested, report>>

Init ==
  /\ cache = [k \in Keys |-> NoVerdict]
  /\ tested = [r \in Runs |-> {}]
  /\ report = [r \in Runs |-> [m \in Mutants |-> NoVerdict]]

Hit(r, m) ==
  /\ report[r][m] = NoVerdict
  /\ cache[KeyOf[m]] \in Verdicts
  /\ report' = [report EXCEPT ![r][m] = cache[KeyOf[m]]]
  /\ UNCHANGED <<cache, tested>>

Test(r, found) ==
  /\ \A m \in DOMAIN found : report[r][m] = NoVerdict /\ found[m] \in Warm[m]
  /\ tested' = [tested EXCEPT ![r] = DOMAIN found]
  /\ report' = [report EXCEPT ![r] =
                  [m \in Mutants |-> IF m \in DOMAIN found THEN found[m] ELSE @[m]]]
  /\ UNCHANGED cache

Record(r, m) ==
  /\ m \in tested[r]
  /\ cache' = [cache EXCEPT ![KeyOf[m]] = report[r][m]]
  /\ UNCHANGED <<tested, report>>

Correct(r, m) ==
  /\ m \in tested[r]
  /\ report[r][m] = "survived" /\ Isolated[m] = "killed"
  /\ cache' = [cache EXCEPT ![KeyOf[m]] = "killed"]
  /\ UNCHANGED <<tested, report>>

Amend(r, wrong) ==
  /\ \A m \in wrong : report[r][m] = "survived" /\ Isolated[m] = "killed"
  /\ report' = [report EXCEPT ![r] =
                  [m \in Mutants |-> IF m \in wrong THEN "killed" ELSE @[m]]]
  /\ UNCHANGED <<cache, tested>>

Lose(k) ==
  /\ cache' = [cache EXCEPT ![k] = NoVerdict]
  /\ UNCHANGED <<tested, report>>

Next ==
  \/ \E r \in Runs :
       \/ \E m \in Mutants : Hit(r, m) \/ Record(r, m) \/ Correct(r, m)
       \/ \E S \in SUBSET Mutants :
            Amend(r, S) \/ \E found \in [S -> Verdicts] : Test(r, found)
  \/ \E k \in Keys : Lose(k)

Spec == Init /\ [][Next]_vars
===============================================================================
