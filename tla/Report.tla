------------------------------- MODULE Report -------------------------------
(***************************************************************************)
(* What a run says of its results, and what irradiate results says of them *)
(* afterwards from the .meta files: src/src/report.rs, with the file names *)
(* given by generate_mutants of src/src/pipeline.rs.                       *)
(*                                                                         *)
(* A layout is the set of a project's Python files and the sequence of the *)
(* paths to mutate, both sequences of names from the project's root.  A    *)
(* mutant is [file, base]: its file and what is stripped from it.          *)
(* A result is [mutant, status, exit_code].                                *)
(***************************************************************************)
EXTENDS Integers, Sequences, SequencesExt, FiniteSets

PackageFile == <<"__init__">>

IsPackage(files, path) == path \o PackageFile \in files

\* What is stripped: the parent of a package, a source root itself; of a single file, the
\* directory that holds the outermost package.
StripBase(files, path) ==
    IF path \in files
    THEN LET above == {i \in 0..Len(path) - 1 : i = 0 \/ ~IsPackage(files, SubSeq(path, 1, i))}
         IN SubSeq(path, 1, CHOOSE i \in above : \A j \in above : j <= i)
    ELSE IF IsPackage(files, path) THEN SubSeq(path, 1, Len(path) - 1) ELSE path

RelPath(mutant) == SubSeq(mutant.file, Len(mutant.base) + 1, Len(mutant.file))

PathToModule(rel) ==
    IF Len(rel) > 1 /\ Last(rel) = "__init__" THEN SubSeq(rel, 1, Len(rel) - 1) ELSE rel

\* The name of the mutant's module.
Name(mutant) == PathToModule(RelPath(mutant))

\* The mutants of a layout, one for each file that is to be mutated.
MutantsOf(layout) ==
    UNION {{[file |-> f, base |-> StripBase(layout.files, layout.paths[i])] :
                f \in {g \in layout.files : IsPrefix(layout.paths[i], g)}} :
           i \in DOMAIN layout.paths}

-----------------------------------------------------------------------------
(* Statuses                                                                *)

\* The exit code of the type checker is not told apart.
FromExitCodeUntyped(code) ==
    CASE code = 0 -> "Survived" [] code = 1 -> "Killed" [] code = 33 -> "NoTests" [] OTHER -> "Error"

FromExitCode(code) ==
    CASE code = 0 -> "Survived" [] code = 1 -> "Killed" [] code = 33 -> "NoTests"
      [] code = 37 -> "TypeCheck" [] OTHER -> "Error"

\* What is kept of the results: the exit codes.
WriteMetaFiles(results) ==
    {[mutant |-> results[i].mutant, exit_code |-> results[i].exit_code] : i \in DOMAIN results}

LoadAllMeta(meta) ==
    SetToSeq({[mutant |-> m.mutant, status |-> FromExitCode(m.exit_code),
               exit_code |-> m.exit_code] : m \in meta})

Count(results, status) == Cardinality({i \in DOMAIN results : results[i].status = status})

\* The score: of what was killed or survived, the part that was killed.
Killed(results) == Count(results, "Killed") + Count(results, "TypeCheck")
Score(results)  == << Killed(results), Killed(results) + Count(results, "Survived") >>

-----------------------------------------------------------------------------
(* The Stryker report                                                      *)

StrykerStatus(status) ==
    CASE status \in {"Killed", "TypeCheck"} -> "Killed"
      [] status = "NoTests" -> "NoCoverage"
      [] status = "Error"   -> "RuntimeError"
      [] OTHER              -> status

\* The files a module with this name may have right below a path.
AtTopOf(path, name) == {path \o <<name>> \o PackageFile, path \o <<name>>}

\* Without a descriptor the file is looked for under the paths to mutate, by the first part
\* of the module's name; a package before a module.
DeriveFileKey(layout, mutant) ==
    LET top    == Head(Name(mutant))
        having == {i \in DOMAIN layout.paths : AtTopOf(layout.paths[i], top) \cap layout.files # {}}
        first  == layout.paths[CHOOSE i \in having : \A j \in having : i <= j] \o <<top>>
    IN IF having = {} THEN layout.paths[1] \o <<top>>
       ELSE IF IsPackage(layout.files, first) THEN first \o PackageFile ELSE first

\* The entries of the report with their files; a descriptor's source_file is the path
\* relative to what was stripped.
BuildStrykerReport(layout, results, described) ==
    [i \in DOMAIN results |->
        [id   |-> results[i].mutant,
         file |-> IF described THEN RelPath(results[i].mutant)
                  ELSE DeriveFileKey(layout, results[i].mutant),
         status |-> StrykerStatus(results[i].status)]]
=============================================================================
