----------------------------- MODULE MCWorkerPool -----------------------------
(* Small instances of WorkerPool.                                          *)
EXTENDS WorkerPool, TLC

CONSTANTS m1, m2, m3, w1, w2, w3, w4

\* The longest mutant first, then two that may be taken in either order.
MCEstimatedSecs == [m \in Mutants |-> IF m = m1 THEN 2 ELSE 1]

MCExitCodes == {1}

\* One more code, which from_exit_code has no verdict for and makes an Error.
MCStrayExitCodes == {1, 99}

\* Without work nobody is replaced: no state beyond can overstep a budget.
WorkIsLeft == queue # {}

\* Only the replacements are interchangeable.
Spares == Permutations(Workers \ InitialWorkers)
===============================================================================
