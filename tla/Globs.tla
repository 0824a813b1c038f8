-------------------------------- MODULE Globs --------------------------------
(***************************************************************************)
(* The patterns of do_not_mutate, --ignore, --operators and                *)
(* --skip-operators: path_matches_glob and OperatorFilter of               *)
(* src/src/pipeline.rs.  A segment is a sequence of characters, a path a   *)
(* sequence of segments; "*" and "?" are the wildcards of a segment, the   *)
(* segment <<"*", "*">> that of a path.  Matches is the meaning the        *)
(* comment on path_matches_glob gives the wildcards.                       *)
(***************************************************************************)
EXTENDS Naturals, Sequences, SequencesExt

AnySegments == <<"*", "*">>

\* A star stands for one character at least, except at the end.
StarOfOne(s, p) ==
    LET rest[x \in (0..Len(s)) \X (0..Len(p))] ==
            LET i == x[1]
                j == x[2]
            IN IF i = Len(s) THEN \A k \in j + 1..Len(p) : p[k] = "*"
               ELSE IF j = Len(p) THEN FALSE
               ELSE IF j + 1 = Len(p) /\ p[j + 1] = "*" THEN TRUE
               ELSE CASE p[j + 1] = "?" -> rest[<<i + 1, j + 1>>]
                      [] p[j + 1] = "*" -> rest[<<i + 1, j + 1>>] \/ rest[<<i + 1, j>>]
                      [] OTHER -> s[i + 1] = p[j + 1] /\ rest[<<i + 1, j + 1>>]
    IN rest[<<0, 0>>]

\* rest is whether s without its first i characters matches p without its first j.
GlobMatchBytes(s, p) ==
    LET rest[x \in (0..Len(s)) \X (0..Len(p))] ==
            LET i == x[1]
                j == x[2]
            IN IF i = Len(s) THEN \A k \in j + 1..Len(p) : p[k] = "*"
               ELSE IF j = Len(p) THEN FALSE
               ELSE IF j + 1 = Len(p) /\ p[j + 1] = "*" THEN TRUE
               ELSE CASE p[j + 1] = "?" -> rest[<<i + 1, j + 1>>]
                      [] p[j + 1] = "*" -> rest[<<i, j + 1>>] \/ rest[<<i + 1, j>>]
                      [] OTHER -> s[i + 1] = p[j + 1] /\ rest[<<i + 1, j + 1>>]
    IN rest[<<0, 0>>]

\* A path that is used up matches one last ** and no second one.
GlobMatchSegs(path, pattern) ==
    LET rest[x \in (0..Len(path)) \X (0..Len(pattern))] ==
            LET i == x[1]
                j == x[2]
            IN IF i = Len(path) THEN
                   j = Len(pattern) \/ (j + 1 = Len(pattern) /\ pattern[j + 1] = AnySegments)
               ELSE IF j = Len(pattern) THEN FALSE
               ELSE IF pattern[j + 1] = AnySegments
               THEN j + 1 = Len(pattern) \/ \E k \in i..Len(path) : rest[<<k, j + 1>>]
               ELSE GlobMatchBytes(path[i + 1], pattern[j + 1]) /\ rest[<<i + 1, j + 1>>]
    IN rest[<<0, 0>>]

\* OperatorFilter::allows, for the mode and its patterns.
Allows(mode, patterns, operator) ==
    LET named == \E i \in DOMAIN patterns : GlobMatchBytes(operator, patterns[i])
    IN IF mode = "Allow" THEN named ELSE ~named

-----------------------------------------------------------------------------

\* A way to cut s into as many pieces as the pattern has parts.
Cuts(s, p) ==
    {c \in [0..Len(p) -> 0..Len(s)] :
        /\ c[0] = 0 /\ c[Len(p)] = Len(s)
        /\ \A i \in 1..Len(p) : c[i - 1] <= c[i]}

MatchesSegment(s, p) ==
    \E c \in Cuts(s, p) : \A i \in DOMAIN p :
        \/ p[i] = "*"
        \/ c[i] = c[i - 1] + 1 /\ p[i] \in {"?", s[c[i]]}

Matches(path, pattern) ==
    \E c \in Cuts(path, pattern) : \A i \in DOMAIN pattern :
        \/ pattern[i] = AnySegments
        \/ c[i] = c[i - 1] + 1 /\ MatchesSegment(path[c[i]], pattern[i])
=============================================================================
