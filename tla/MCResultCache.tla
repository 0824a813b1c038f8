---------------------------- MODULE MCResultCache ----------------------------
(* Small instances of ResultCache.                                         *)
EXTENDS ResultCache, TLC

CONSTANTS m1, m2, r1, r2, k1, k2, b1

OneBucket == [k \in Keys |-> b1]

\* Every mutant its own key, as mutants of different functions have.
OwnKeys == [m \in Mutants |-> IF m = m1 THEN k1 ELSE k2]

\* Mutants of two functions with the same text and the same tests.
OneKey == [m \in Mutants |-> k1]

\* m1 would be killed, and so would every mutant but m2.
MCIsolated == [m \in Mutants |-> IF m = m2 THEN "survived" ELSE "killed"]

\* State of earlier mutants may hide a failure from a warm worker ...
Leaky == [m \in Mutants |-> {"survived", MCIsolated[m]}]

\* ... or workers behave as a fresh process does.
Sound == [m \in Mutants |-> {MCIsolated[m]}]

Interchangeable == Permutations(Runs)
===============================================================================
