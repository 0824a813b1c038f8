------------------------------ MODULE Sampling ------------------------------
(***************************************************************************)
(* How many mutants of each operator --sample keeps: sample_mutants of     *)
(* src/src/pipeline.rs.  The mutants are given by the number of each       *)
(* operator's, in the order of the operators' names, the value by a pair   *)
(* <<p, q>> for p/q.  Which of its mutants an operator keeps is drawn.     *)
(***************************************************************************)
EXTENDS Integers, Sequences, FiniteSetsExt

\* The sums of the first numbers.
Sums(counts) ==
    LET Sum[i \in 0..Len(counts)] == IF i = 0 THEN 0 ELSE Sum[i - 1] + counts[i] IN Sum

Total(counts) == Sums(counts)[Len(counts)]

Ceil(p, q)  == (p + q - 1) \div q
Round(p, q) == (2 * p + q) \div (2 * q)

\* A fraction up to one, or a number of mutants.
TargetCount(total, value) ==
    Max({1, IF value[1] > 0 /\ value[1] <= value[2] THEN Ceil(total * value[1], value[2])
            ELSE Min({value[1] \div value[2], total})})

\* The share is rounded, and nothing keeps it from being zero.
RoundedShare(counts, i, target, remaining) ==
    Min({remaining, counts[i],
         IF i = Len(counts) THEN remaining ELSE Round(counts[i] * target, Total(counts))})

\* The share of an operator: in proportion, one at least, of what remains; the last one
\* gets what the others have left.
Share(counts, i, target, remaining) ==
    Min({remaining, counts[i],
         IF i = Len(counts) THEN remaining
         ELSE Max({1, Round(counts[i] * target, Total(counts))})})

\* What each operator leaves of the target.
Remaining(counts, target) ==
    LET Left[i \in 0..Len(counts)] ==
            IF i = 0 THEN target ELSE Left[i - 1] - Share(counts, i, target, Left[i - 1])
    IN Left

SampleMutants(counts, value) ==
    LET target == TargetCount(Total(counts), value)
    IN IF target >= Total(counts) THEN counts
       ELSE [i \in DOMAIN counts |-> Share(counts, i, target, Remaining(counts, target)[i - 1])]
=============================================================================
