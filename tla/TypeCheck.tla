----------------------------- MODULE TypeCheck -----------------------------
(***************************************************************************)
(* Which mutants src/src/type_check.rs takes to be caught by the type      *)
(* checker.  A generated file is a sequence of lines, each with the def it *)
(* opens ("" for none) and whether that def is async, and, to judge the    *)
(* outcome by, the definition whose text it is part of.  The name of a     *)
(* definition is [key, nr]: the function's key and the mutant's number, 0  *)
(* for the original.  An error has a line and a message.                   *)
(***************************************************************************)
EXTENDS Naturals, Sequences, SequencesExt, FiniteSets

NoName == [key |-> "", nr |-> 0]
Orig(name) == [name EXCEPT !.nr = 0]

\* The text that generate_trampoline gives a function: the original and the variants, each
\* a def and the lines of its body (bodies has their numbers, the original's first), then the
\* table and the wrapper, which belong to none of them.
TextLine(def, async, of) == [def |-> def, async |-> async, of |-> of]

DefinitionText(f, k) ==
    LET name == [key |-> f.key, nr |-> k - 1]
    IN << TextLine(name, f.async, name) >> \o
       [l \in 1..f.bodies[k] |-> TextLine(NoName, FALSE, name)]

FunctionText(f) ==
    FlattenSeq([k \in DOMAIN f.bodies |-> DefinitionText(f, k)]) \o
    << TextLine(NoName, FALSE, NoName) >>

FileText(functions) ==
    FlattenSeq([i \in DOMAIN functions |-> FunctionText(functions[i])])

-----------------------------------------------------------------------------

\* parse_trampoline_functions: the lines that begin with "def " and name an original or a
\* variant; each reaches to the next one or to the end of the file.
Defs(text) == {i \in DOMAIN text : text[i].def # NoName /\ ~text[i].async}

TrampolineFunctions(text) ==
    {[name  |-> text[i].def,
      lines |-> {l \in i..Len(text) : Defs(text) \cap (i + 1..l) = {}}] : i \in Defs(text)}

\* The messages of the errors that fall to a definition of the file.
MessagesOf(text, errors, name) ==
    {e.message : e \in {x \in errors :
        \E f \in TrampolineFunctions(text) : f.name = name /\ x.line \in f.lines}}

\* Every error counts, the original's own included.
AnyErrors(text, errors, name) == MessagesOf(text, errors, name)

\* An error the original has as well is nobody's doing.
NewErrors(text, errors, name) ==
    MessagesOf(text, errors, name) \ MessagesOf(text, errors, Orig(name))

\* func_to_mutant: a variant's name without its module leads to one mutant; of two modules
\* with the same name, to the one inserted last.
MutantNamed(modules, files, name) ==
    LET having == {m \in DOMAIN modules :
                      \E i \in DOMAIN files[modules[m]] :
                          /\ files[modules[m]][i].key = name.key
                          /\ name.nr + 1 \in DOMAIN files[modules[m]][i].bodies}
    IN [module |-> modules[CHOOSE m \in having : \A n \in having : n <= m], name |-> name]

\* map_errors_to_mutants, for the modules in the order of their descriptors.
MapErrorsToMutants(modules, files, errors) ==
    UNION {LET text == FileText(files[m])
               variants == {n \in {text[i].def : i \in DOMAIN text} : n.nr > 0}
           IN {MutantNamed(modules, files, n) :
                   n \in {v \in variants : NewErrors(text, errors[m], v) # {}}} :
           m \in ToSet(modules)}
=============================================================================
