----------------------------- MODULE Algorithms -----------------------------
(***************************************************************************)
(* All the sequential parts of the program: those of CallsAndFilters, and  *)
(* the ones that go down a tree or a text.                                 *)
(***************************************************************************)
EXTENDS CallsAndFilters

CONSTANTS
    Programs     \* functions, as syntax trees            (MutationOperators)

Ops      == INSTANCE MutationOperators
Source   == INSTANCE SourceFile

Init ==
    /\ \/ Given("program", Programs)
       \/ Given("file", Files)
       \/ GivenCallOrFilter
    /\ Unstarted

Mutate == subject = "program" /\ Gives("program", Ops!FunctionMutations(input))

Generate == subject = "file" /\ Gives("file", Source!MutateFile(input))

Next ==
    \/ Mutate \/ Generate
    \/ Call \/ Dispatch \/ TypeCheck \/ ParseDiff \/ Sample \/ ReportTwice \/ Match \/ ImportAll
    \/ NameMutants \/ ScanText

Spec == Init /\ [][Next]_vars

-----------------------------------------------------------------------------
(* Mutation operators                                                       *)

Mutants == [i \in DOMAIN output |-> Ops!ApplyMutation(input, output[i])]

\* The condition of a statement, by its path.
IsCondition(at) ==
    /\ at # <<>> /\ Last(at) = 1
    /\ Ops!NodeAt(input, Front(at)).kind \in {"if_statement", "elif_clause", "while_statement"}

\* A call that passes None by keyword already.
PassesNone(m) ==
    \E i \in DOMAIN m.new.kids : /\ m.new.kids[i] = Ops!NodeAt(input, m.at).kids[i]
                                /\ m.new.kids[i].kind = "keyword_argument"
                                /\ m.new.kids[i].kids = << Ops!None >>

\* A pattern that is nothing but one anchor or boundary.
LoneAssertion(m) == m.new = Ops!Empty /\ Ops!NodeAt(input, Front(m.at)).kind = "string"

\* An operator that is applied twice, of which one application is removed.
AppliedTwice(m) ==
    LET n == Ops!NodeAt(input, m.at)
    IN m.operator = "unary_removal" /\ m.new.kind = n.kind /\ m.new.text = n.text

\* No mutant is the program itself and no two are the same program, save for the literal that
\* two operators both make of a condition, a lone assertion of a pattern, not not and ~~, of
\* which either may go, and a None passed by keyword that is written again as it is
\* (tree_sitter_mutation.rs:1590).
MutantsAreDistinct ==
    Finished("program") =>
        \A i \in DOMAIN output :
            /\ Mutants[i] = input => output[i].operator = "arg_removal" /\ PassesNone(output[i])
            /\ \A j \in 1..i - 1 :
                  Mutants[i] = Mutants[j] =>
                      \/ IsCondition(output[i].at) /\ output[i].new.kind \in {"true", "false"}
                      \/ LoneAssertion(output[i])
                      \/ LoneAssertion(output[j])
                      \/ AppliedTwice(output[j]) /\ output[i].operator = "unary_removal"
                      \/ output[i].operator = "arg_removal" /\ Mutants[i] = input

\* How two values compare; a length is not below zero.
Orders(comparison) ==
    IF Ops!IsLenComparedToZero(comparison) THEN {"=", ">"} ELSE {"<", "=", ">"}

Meaning ==
    [op \in {"<", "<=", ">", ">=", "==", "!="} |->
        CASE op = "<" -> {"<"} [] op = "<=" -> {"<", "="} [] op = ">" -> {">"}
          [] op = ">=" -> {">", "="} [] op = "==" -> {"="} [] op = "!=" -> {"<", ">"}]

\* The orders in which a condition holds.
Holds(condition, orders) ==
    CASE condition.kind = "true"  -> orders
      [] condition.kind = "false" -> {}
      [] OTHER -> Meaning[condition.text] \cap orders

\* What the replacements of the operator of an if statement's comparison leave of the others.
Condition == << 2, 1, 1 >>

ComparesInIf ==
    /\ input.kids[2].kids[1].kind = "if_statement"
    /\ Ops!IsOrdinal(Ops!NodeAt(input, Condition))

\* The replacements that some tests which kill every mutant of the comparison leave alive.
Unseen ==
    LET original == Ops!NodeAt(input, Condition)
        orders   == Orders(original)
        Kills(tests, meaning) == \E o \in tests : o \in Holds(original, orders) <=> o \notin meaning
        mutants  == {Holds(output[i].new, orders) :
                        i \in {k \in DOMAIN output : output[k].at = Condition}}
                        \ {Holds(original, orders)}
        faults   == {op \in DOMAIN Meaning : Meaning[op] \cap orders # Holds(original, orders)}
    IN {op \in faults : \E tests \in SUBSET orders :
            /\ \A m \in mutants : Kills(tests, m)
            /\ ~Kills(tests, Meaning[op] \cap orders)}

\* The comparisons of which COMPOP_SUFFICIENT leaves a fault unseen: the replacements of
\* == and !=, each given those of the other, and those of len() against zero without the
\* pair that add_comparison_mutation takes for equivalent.
Insufficient(comparison) ==
    \/ comparison.text \in {"==", "!="}
    \/ Ops!IsLenComparedToZero(comparison) /\ comparison.text \in {">", "<="}

\* "3 mutants suffice" (tree_sitter_mutation.rs:94): tests that kill the two replacements of a
\* relational operator and the boolean of its condition kill every other replacement.
\* Insufficient excepts the comparisons for which they do not, although that comment and
\* the one on equivalent mutants (tree_sitter_mutation.rs:707) speak of all of them.
RelationalMutantsSuffice ==
    Finished("program") =>
        (ComparesInIf /\ ~Insufficient(Ops!NodeAt(input, Condition)) => Unseen = {})

-----------------------------------------------------------------------------
(* Generated files                                                          *)

IsMutated(at) ==
    \E i \in DOMAIN Source!FunctionsOf(input) : IsPrefix(Source!FunctionsOf(input)[i].at, at)

\* The file with every function that is mutated replaced where it stands.
InPlace ==
    LET lines == Source!Lines(input)
        First(c, i) == /\ IsPrefix(c.at, lines[i].at)
                       /\ i = 1 \/ ~IsPrefix(c.at, lines[i - 1].at)
        At(i) == IF ~IsMutated(lines[i].at) THEN << Source!Kept(lines[i]) >>
                 ELSE LET begins == SelectSeq(Source!FunctionsOf(input), LAMBDA c : First(c, i))
                      IN [k \in DOMAIN begins |-> Source!Written(begins[k])]
    IN FlattenSeq([i \in DOMAIN lines |-> At(i)])

RECURSIVE ItemAt(_, _)
ItemAt(items, at) ==
    IF Len(at) = 1 THEN items[at[1]] ELSE ItemAt(items[at[1]].body, Tail(at))

\* The writer knows a class by a one-line header, up to the next class or a line at column 0.
Blurred(holder) ==
    \/ holder.flags \cap {"wide", "text", "remark"} # {}
    \/ \E k \in DOMAIN holder.body :
          \/ holder.body[k].kind = "class"
          \/ holder.body[k].flags \cap {"text", "remark"} # {} /\ ~Source!Trampolined(holder.body[k])

\* A definition the writer takes for a function of the same class and name: one above it that
\* is not mutated itself.
Impersonated(c) ==
    \E i \in DOMAIN Source!Lines(input) :
        LET line   == Source!Lines(input)[i]
            holder == input[line.at[1]]
        IN /\ line.kind = "def" /\ line.name = c.d.name /\ ~IsMutated(line.at)
           /\ i < CHOOSE k \in DOMAIN Source!Lines(input) : Source!Lines(input)[k].at = c.at
           /\ \/ holder.name = input[c.at[1]].name
              \/ c.class = Source!NoClass /\ (holder.kind = "class" => Blurred(holder))

\* The first line after it opens a triple-quoted string.
FollowedByText(c) ==
    LET lines == Source!Lines(input)
    IN \E i \in 2..Len(lines) : /\ lines[i].quotes = 1 /\ ~IsPrefix(c.at, lines[i].at)
                                /\ IsPrefix(c.at, lines[i - 1].at)

\* The shapes of a file by which codegen.rs loses track of where it is.
LosesTrack ==
    \/ \E i \in DOMAIN Source!FunctionsOf(input) :
          LET c == Source!FunctionsOf(input)[i]
              holder == input[c.at[1]]
          IN \/ "remark" \in c.d.flags
             \/ \E k \in DOMAIN c.d.decs : c.d.decs[k] = "comment" /\ k > 1
             \/ Impersonated(c)
             \/ FollowedByText(c)
             \/ /\ c.class # Source!NoClass
                /\ Blurred([holder EXCEPT !.body = SubSeq(@, 1, Last(c.at) - 1)])
    \/ \E i \in DOMAIN input : /\ input[i].kind = "plain docstring"
                              /\ \E j \in DOMAIN input : j > i /\ input[j].kind = "future"

\* Every line outside the mutated functions is kept, once and in order, each of these
\* functions gives way to its trampoline, and the runtime comes after the __future__ imports;
\* but for the shapes above.
FileIsRewrittenInPlace ==
    Finished("file") =>
        \/ LosesTrack
        \/ LET runtime == {i \in DOMAIN output : output[i] = Source!Runtime}
           IN /\ SelectSeq(output, LAMBDA piece : piece # Source!Runtime) = InPlace
              /\ Cardinality(runtime) = 1
              /\ \A i \in DOMAIN output, r \in runtime :
                    (/\ output[i].what = "line"
                     /\ ItemAt(input, output[i].at).kind = "future") => i < r
=============================================================================
