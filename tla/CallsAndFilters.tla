--------------------------- MODULE CallsAndFilters ---------------------------
(***************************************************************************)
(* The sequential parts of the program that loop over lists of no great    *)
(* depth: how a call is forwarded and dispatched, what an import loads,    *)
(* which mutants are kept, and what is reported of them.  A subject is one *)
(* of them, run on every input of a set; its action computes the output.   *)
(* Every property compares an output with what the code's documentation,   *)
(* or the language it reads or writes, says of the input.                  *)
(***************************************************************************)
EXTENDS Integers, Sequences, SequencesExt, FiniteSets, Functions

CONSTANTS
    Calls,       \* [params, self, values, keywords]      (Trampoline)
    Dispatches,  \* [f, mro, mutants, active]             (Trampoline)
    Words,       \* what the names in them are made of
    Checks,      \* [modules, files, errors]              (TypeCheck)
    Diffs,       \* sequences of [path, status, edit]     (DiffFilter)
    Samples,     \* [counts, value]                       (Sampling)
    Reports,     \* [layout, results]                     (Report)
    Patterns,    \* [path, pattern]                       (Globs)
    Imports,     \* [sources, mutants, events]            (ImportHook)
    Files,       \* sequences of items                    (MutantNames)
    BodyMutations,
    Texts        \* sequences of characters               (StringScanner)

VARIABLES subject, input, output, done

vars == <<subject, input, output, done>>

Tramp    == INSTANCE Trampoline
Types    == INSTANCE TypeCheck
Diff     == INSTANCE DiffFilter
Sampler  == INSTANCE Sampling
Rep      == INSTANCE Report
Glob     == INSTANCE Globs
Hook     == INSTANCE ImportHook
Namer    == INSTANCE MutantNames
Scanner  == INSTANCE StringScanner

\* A mutant is in a group with others of its operator, so no group is empty.
SamplesAssumption ==
    \A s \in Samples : /\ s.counts \in Seq(Nat \ {0}) /\ s.counts # <<>>
                       /\ s.value \in Nat \X (Nat \ {0})

\* No function of the program bears a mark of the generated ones.
Marks == {"__irradiate_", "__sp_"}

WordsAssumption == {"x_", "x|", "|"} \subseteq Words /\ (Marks \cup {"."}) \cap Words = {}

\* The parts of a name in full.
Parts == Words \cup {"."}

Defines(class, f) == class.class = f.class /\ f.name \in class.methods

\* A method is found in a class: left out are __class_getitem__, which Python makes a
\* classmethod without a decorator, and methods that WrapperIsTransparent excepts, neither of
\* which the wrapper finds.  What is active is a mode, or the name of some mutant, and one
\* of the function's own is in its table.
DispatchesAssumption ==
    \A d \in Dispatches :
        /\ d.f \in [module : Seq(Parts), class : Words, name : Seq(Words)]
        /\ d.mro \in Seq([module : Seq(Parts), class : Words, methods : SUBSET Seq(Words)])
        /\ d.f.class # "" => \E i \in DOMAIN d.mro : Defines(d.mro[i], d.f)
        /\ d.mutants \subseteq Words
        /\ \/ d.active \in {<<>>, <<"fail">>, <<"stats">>}
           \/ LET last == Len(d.active)
              IN /\ d.active \in Seq(Parts \cup Marks)
                 /\ last >= 2 /\ SubSeq(d.active, 1, last - 2) \in Seq(Parts)
                 /\ d.active[last - 1] \in Marks /\ d.active[last] \in Words
                 /\ d.active = Tramp!MutantKey(d.f, d.active[last]) => d.active[last] \in d.mutants

Kinds == {"slash", "star", "args", "kwargs", "param"}

\* What Python allows of a parameter list, as far as it bears on the order of the arguments.
LegalSignature(params) ==
    LET At(kinds) == {i \in DOMAIN params : params[i].kind \in kinds}
        stars == At({"star", "args"})
    IN /\ params \in Seq([kind : Kinds, name : STRING, default : BOOLEAN])
       /\ \A i, j \in DOMAIN params : params[i].name = params[j].name => i = j
       /\ \A i, j \in stars : i = j
       /\ At({"kwargs"}) \subseteq {Len(params)}
       /\ \A i \in At({"slash"}), j \in stars : i < j

CallsAssumption ==
    \A c \in Calls : LegalSignature(c.params) /\ c.values \in Seq(STRING)

\* An error is on a line of the file it is in; a function's key is not empty.
ChecksAssumption ==
    \A c \in Checks : \A m \in ToSet(c.modules) :
        /\ c.modules \in Seq(STRING)
        /\ c.files[m] \in Seq([key : STRING \ {""}, bodies : Seq(Nat), async : BOOLEAN])
        /\ c.errors[m] \subseteq [line : 1..Len(Types!FileText(c.files[m])), message : STRING]

\* git names every file once, by a path within the repository.
DiffsAssumption ==
    \A d \in Diffs :
        /\ d \in Seq([path : STRING \ {""}, status : {"new", "changed", "deleted", "binary"},
                      edit : Seq({"keep", "add", "drop"})])
        /\ \A i, j \in DOMAIN d : d[i].path = d[j].path => i = j

\* A result's status is that of its exit code, but for the pairs that the phases of a run write
\* themselves.  Mutants have different names; the project's root is no package.
Written == {<<"TypeCheck", 37>>, <<"NoTests", 33>>, <<"Timeout", -1>>}

ReportsAssumption ==
    \A p \in Reports :
        /\ p.layout.files \subseteq Seq(STRING) \ {<<>>, Rep!PackageFile}
        /\ p.layout.paths \in Seq(Seq(STRING))
        /\ p.results \in Seq([mutant : Rep!MutantsOf(p.layout), status : STRING, exit_code : Int])
        /\ \A i \in DOMAIN p.results :
              \/ p.results[i].status = Rep!FromExitCode(p.results[i].exit_code)
              \/ <<p.results[i].status, p.results[i].exit_code>> \in Written
        /\ \A i, j \in DOMAIN p.results :
              Rep!Name(p.results[i].mutant) = Rep!Name(p.results[j].mutant) => i = j

PatternsAssumption ==
    \A p \in Patterns : p.path \in Seq(Seq(STRING)) /\ p.pattern \in Seq(Seq(STRING))

\* What is in mutants/ was made of a source; no file is without a name.
ImportsAssumption ==
    \A i \in Imports :
        /\ i.sources \subseteq [kind : {"module", "package"}, name : Seq(STRING) \ {<<>>}]
        /\ i.mutants \subseteq i.sources
        /\ i.events \in Seq(Seq(STRING))

\* A file as the collector sees it: items, decorated, with bodies of items.
FilesAssumption ==
    /\ BodyMutations \in Nat \ {0}
    /\ \A f \in Files :
          /\ f \in Seq(ToSet(f))
          /\ \A item \in ToSet(f) :
                /\ item.decs \in Seq(STRING) /\ item.body \in Seq(ToSet(item.body))
                /\ \A member \in ToSet(item.body) : member.decs \in Seq(STRING)

TextsAssumption == Texts \subseteq Seq(STRING)

ASSUME InputsAssumption ==
    /\ SamplesAssumption /\ WordsAssumption /\ DispatchesAssumption /\ CallsAssumption
    /\ ChecksAssumption /\ DiffsAssumption /\ ReportsAssumption /\ PatternsAssumption
    /\ ImportsAssumption /\ FilesAssumption /\ TextsAssumption

Given(name, inputs) == subject = name /\ input \in inputs

Unstarted == output = <<>> /\ done = FALSE

GivenCallOrFilter ==
    \/ Given("call", Calls)
    \/ Given("dispatch", Dispatches)
    \/ Given("check", Checks)
    \/ Given("diff", Diffs)
    \/ Given("sample", Samples)
    \/ Given("report", Reports)
    \/ Given("pattern", Patterns)
    \/ Given("imports", Imports)
    \/ Given("names", Files)
    \/ Given("text", Texts)

Gives(name, result) ==
    /\ subject = name
    /\ ~done
    /\ done' = TRUE
    /\ output' = result
    /\ UNCHANGED <<subject, input>>

\* The binding of the call by the wrapper, and by the function it reaches.
Call ==
    subject = "call" /\
    Gives("call", LET bound == Tramp!Bind(input.params, input.values, input.keywords)
                  IN [called  |-> bound,
                      reached |-> IF bound.ok THEN Tramp!Forwarded(input.params, bound, input.implicit)
                                  ELSE bound])

Dispatch ==
    subject = "dispatch" /\
    Gives("dispatch", Tramp!IrradiateTrampoline(Tramp!Resolve(input.f, input.mro), input.mutants,
                                                input.active))

TypeCheck ==
    subject = "check" /\
    Gives("check", Types!MapErrorsToMutants(input.modules, input.files, input.errors))

ParseDiff == subject = "diff" /\ Gives("diff", Diff!ParseUnifiedDiff(Diff!GitDiff(input)))

Sample == subject = "sample" /\ Gives("sample", Sampler!SampleMutants(input.counts, input.value))

\* The report of the run, and the one irradiate results makes of what was stored.
ReportTwice ==
    subject = "report" /\
    Gives("report", LET stored == Rep!LoadAllMeta(Rep!WriteMetaFiles(input.results))
                    IN [now   |-> Rep!BuildStrykerReport(input.layout, input.results, TRUE),
                        later |-> Rep!BuildStrykerReport(input.layout, stored, FALSE),
                        scores |-> {Rep!Score(input.results), Rep!Score(stored)}])

Match == subject = "pattern" /\ Gives("pattern", Glob!GlobMatchSegs(input.path, input.pattern))

ImportAll ==
    subject = "imports" /\ Gives("imports", Hook!Imported(input.mutants, input.sources, input.events))

NameMutants == subject = "names" /\ Gives("names", Namer!NamesOf(input))

ScanText ==
    subject = "text" /\
    Gives("text", LET stripped == Scanner!StripInlineComments(input)
                  IN [depth  |-> Scanner!ParenDepthChange(input),
                      length |-> Len(stripped),
                      splits |-> Scanner!SplitsAtDepth0(stripped)])

CallOrFilter ==
    \/ Call \/ Dispatch \/ TypeCheck \/ ParseDiff \/ Sample \/ ReportTwice \/ Match \/ ImportAll
    \/ NameMutants \/ ScanText

CallsAndFiltersSpec == GivenCallOrFilter /\ Unstarted /\ [][CallOrFilter]_vars

Finished(name) == subject = name /\ done

-----------------------------------------------------------------------------
(* Calls                                                                    *)

\* A method that takes its first argument by *args, or takes none: the wrapper has no name to
\* look the function up by.
NamesNoSelf == input.implicit # "" /\ ~Tramp!Begins(input.params, "param")

\* Whatever the signature and the call, the function behind the wrapper gets the arguments it
\* would have got without it, unless it is a method that NamesNoSelf: trampoline.rs:66 looks it
\* up by _type(*args), which fails on more than one argument.
WrapperIsTransparent ==
    Finished("call") => (~NamesNoSelf => output.reached = output.called)

\* A class of the same name, from another module, that comes first in the lookup.
Shadowed ==
    \E i \in DOMAIN input.mro :
        /\ Defines(input.mro[i], input.f) /\ input.mro[i].module # input.f.module
        /\ \A j \in 1..i - 1 : ~(/\ Defines(input.mro[j], input.f)
                                /\ input.mro[j].module = input.f.module)

\* A mutant runs exactly in its own function, every other one runs its original, and a hit is
\* recorded under the name of the function that was called.
DispatchIsExact ==
    Finished("dispatch") =>
        LET own == {n \in input.mutants : input.active = Tramp!MutantKey(input.f, n)}
        IN \/ Shadowed
           \/ input.active = <<"fail">>
           \/ /\ output.runs = (IF own = {} THEN "orig" ELSE "variant")
              /\ \A n \in own : output.variant = Tramp!VariantName(input.f, n)
              /\ output.hits = (IF input.active = <<"stats">> THEN {Tramp!FuncKey(input.f)} ELSE {})

-----------------------------------------------------------------------------
(* Imports                                                                  *)

\* A module and a package of one name, of which Python takes the package and the finder,
\* whose caches are invalidated as soon as it is installed, the module.
Twin(name) == {Hook!Module(name), Hook!Package(name)} \subseteq input.sources

\* Whatever was imported and forgotten before, an import loads the file that it would load
\* without the finder, from mutants/ exactly if it has a copy there; but for the twins above
\* and for the harness itself.
ImportsAreMirrored ==
    Finished("imports") =>
        \A i \in DOMAIN output :
            LET load     == output[i]
                original == Hook!Import(input.sources, load.name)
            IN \/ \E k \in DOMAIN load.name : Twin(SubSeq(load.name, 1, k))
               \/ /\ load.file = original
                  /\ load.mutated <=> /\ original \in input.mutants
                                     /\ Head(load.name) # Hook!HarnessName

-----------------------------------------------------------------------------
(* Names                                                                    *)

\* Two functions that are both mutated and have the same class and name.
Redefines ==
    LET functions == Namer!FunctionsOf(input)
    IN \E i, j \in DOMAIN functions :
          i # j /\ functions[i].class = functions[j].class /\ functions[i].d.name = functions[j].d.name

\* Every mutant of a file has a name of its own, whichever way it is run, unless a function
\* is defined twice (trampoline.rs:49 counts from one for each).
NamesAreUnique == Finished("names") => Redefines \/ IsInjective(output)

-----------------------------------------------------------------------------
(* Text                                                                     *)

\* On every text that is a sequence of whole tokens the scanner finds the brackets, the
\* separators and the comment that Python finds; unless a triple-quoted string holds a quote
\* of its own kind, of which string_scanner.rs:3 makes no exception.
ScannerFollowsTheLexer ==
    Finished("text") =>
        LET lexed == Scanner!Lexed(input)
        IN (Scanner!WellFormed(input) /\ ~lexed.odd) =>
              /\ output.depth = lexed.depth
              /\ output.splits = lexed.splits
              /\ output.length = IF lexed.comment = 0 THEN Len(input) ELSE lexed.comment - 1

-----------------------------------------------------------------------------
(* Filters                                                                  *)

\* The error is on a line of a synchronous original or variant.
Placed(m, e) ==
    LET line == Types!FileText(input.files[m])[e.line]
    IN line.of # Types!NoName /\ ~\E i \in DOMAIN input.files[m] :
            input.files[m][i].key = line.of.key /\ input.files[m][i].async

SharedKey ==
    \E m, n \in ToSet(input.modules) : m # n /\
        \E i \in DOMAIN input.files[m], j \in DOMAIN input.files[n] :
            input.files[m][i].key = input.files[n][j].key

\* A mutant is caught by the type checker exactly if its text has an error that the text of
\* the original has not; as long as every error is in the text of a function that is not
\* async (type_check.rs:276 looks for "def ") and no two modules share a function's name.
TypeErrorsBlameTheirMutant ==
    Finished("check") =>
        \/ SharedKey
        \/ \E m \in ToSet(input.modules) : \E e \in input.errors[m] : ~Placed(m, e)
        \/ output =
           UNION {{[module |-> m, name |-> Types!FileText(input.files[m])[e.line].of] :
                      e \in {x \in input.errors[m] :
                          LET text == Types!FileText(input.files[m])
                          IN /\ text[x.line].of.nr > 0
                             /\ \A y \in input.errors[m] :
                                   y.message = x.message =>
                                      text[y.line].of # Types!Orig(text[x.line].of)}} :
                  m \in ToSet(input.modules)}

\* A function is kept by --diff exactly if its file is new or a line was added within it;
\* a line that was only taken away does not touch it.
TouchedIffChanged ==
    Finished("diff") =>
        \A i \in DOMAIN input :
            LET f == input[i]
                size == Diff!NewLines(f.edit, Len(f.edit))
            IN \A first, last \in 1..size :
                  first <= last =>
                     (Diff!FunctionIsTouched(output, f.path, first, last) <=>
                        \/ f.status = "new"
                        \/ /\ f.status = "changed"
                           /\ \E k \in DOMAIN f.edit :
                                 f.edit[k] = "add" /\ Diff!NewLines(f.edit, k) \in first..last)

\* A sample is no larger than was asked for, and no operator goes without a mutant (as
\* pipeline.rs:131 has it) unless those before it have taken everything.  It falls short by at
\* most half a mutant for every operator.
SampleRepresentsOperators ==
    Finished("sample") =>
        LET target == Sampler!TargetCount(Sampler!Total(input.counts), input.value)
            taken  == Sampler!Total(output)
        IN /\ taken <= target
           /\ 2 * (target - taken) <= Len(input.counts)
           /\ \A i \in DOMAIN output :
                 output[i] = 0 => Sampler!Total(SubSeq(output, 1, i - 1)) = target

\* path_matches_glob is what pipeline.rs:1433 says of it, but that a path that is used up does
\* not match two ** at the end of the pattern.
GlobsMeanWhatTheySay ==
    Finished("pattern") =>
        LET last == Len(input.pattern)
            deep == {i \in 1..last : input.pattern[i] = Glob!AnySegments}
        IN /\ output => Glob!Matches(input.path, input.pattern)
           /\ ~({last - 1, last} \subseteq deep) => (Glob!Matches(input.path, input.pattern) => output)

-----------------------------------------------------------------------------
(* Reports                                                                  *)

Entries(report, mutant) == {i \in DOMAIN report : report[i].id = mutant}

\* The file does not keep its whole path: it lies in a source root, or in a package below
\* another directory.
Stripped(mutant) == mutant.base # <<>>

\* A source root with the file at its top level.
AtTop(mutant) == mutant.base \in ToSet(input.layout.paths) /\ Len(Rep!Name(mutant)) = 1

\* Another file right below a path to mutate has the mutant's first name: two source roots
\* have a module of that name, a root has both x.py and x/__init__.py, or a package that
\* is itself a path has a module named like it.
Namesake(mutant) ==
    \E path \in ToSet(input.layout.paths) :
        \E f \in Rep!AtTopOf(path, Head(Rep!Name(mutant))) \cap input.layout.files :
            path # mutant.base \/ f # mutant.file

\* The report of a run and the one irradiate results makes later agree on every mutant and on
\* the score, but that a timeout comes back as an error.  Both name its file relative to the
\* project's root (report.rs:288 and 352): the first unless the file is Stripped, the second
\* if it is at the top of a source root and has no Namesake.
ReportsAgree ==
    Finished("report") =>
        /\ Cardinality(output.scores) = 1
        /\ \A i \in DOMAIN input.results :
              LET r == input.results[i]
              IN \E n \in DOMAIN output.now, l \in DOMAIN output.later :
                    LET now   == output.now[n]
                        later == output.later[l]
                    IN /\ Entries(output.now, r.mutant) = {n} /\ Entries(output.later, r.mutant) = {l}
                       /\ later.status = IF r.status = "Timeout" THEN "RuntimeError" ELSE now.status
                       /\ Stripped(r.mutant) \/ now.file = r.mutant.file
                       /\ Namesake(r.mutant) \/ ~AtTop(r.mutant) \/ later.file = r.mutant.file
=============================================================================
