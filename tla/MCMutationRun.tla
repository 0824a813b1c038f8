--------------------------- MODULE MCMutationRun ---------------------------
(* Small instances of MutationRun. *)
EXTENDS MutationRun, TLC

CONSTANTS f, g, d, t1, t2

\* Tests t1 and, in the second version, t2 call f.  g is called by the second versions
\* of f and of d, and by the second version of the tests.
MCReach ==
    [seen \in Seen |->
        f :> (IF seen.tests = 2 THEN {t1, t2} ELSE {t1})
        @@ d :> {t2}
        @@ g :> (IF seen.tests = 2 \/ 2 \in {seen.text[f], seen.text[d]} THEN {t2} ELSE {})]

MCPatchReach ==
    [seen \in Seen |-> d :> IF seen.tests = 2 THEN {t1, t2} ELSE {t1}]

\* A run that verifies its survivors; one without statistics; an incremental, isolated,
\* uncached one of what is covered that narrows its mutants and type-checks them.
MCSettings == { {"verify"},
                {"no_stats"},
                {"diff", "isolate", "covered_only", "no_cache", "type_check",
                 "no_source_patch", "filter", "operators"} }

\* Two runs without statistics.
MCPatchSettings == { {"no_stats"} }
=============================================================================
