------------------------------ MODULE ImportHook ------------------------------
(***************************************************************************)
(* MutantFinder of src/harness/import_hook.py: which file an import loads  *)
(* while the finder stands before Python's own.  A file is [kind, name]: a *)
(* "module" or the "package" (its __init__.py) that is imported by that    *)
(* name, a sequence of the parts between the dots.  sources are the files  *)
(* on the path, mutants the ones that have a copy in mutants/.             *)
(***************************************************************************)
EXTENDS Naturals, Sequences, SequencesExt

File(kind, name) == [kind |-> kind, name |-> name]
Module(name)  == File("module", name)
Package(name) == File("package", name)

Missing == File("missing", <<>>)
HarnessName == "irradiate_harness"

-----------------------------------------------------------------------------
(* Python's own finder: a package before a module before a bare directory,  *)
(* and nothing below a module.                                              *)

FindIn(files, name) ==
    IF Package(name) \in files THEN Package(name)
    ELSE IF Module(name) \in files THEN Module(name)
    ELSE IF \E f \in files : IsStrictPrefix(name, f.name) THEN File("directory", name)
    ELSE Missing

HoldsModules(file) == file.kind \in {"package", "directory"}

\* What is found of a name is found for one part of it after the other; the path itself holds
\* modules.
ThePath == File("directory", <<>>)

Import(files, name) ==
    LET found[i \in 0..Len(name)] ==
            IF i = 0 THEN ThePath
            ELSE IF HoldsModules(found[i - 1]) THEN FindIn(files, SubSeq(name, 1, i))
            ELSE Missing
    IN found[Len(name)]

-----------------------------------------------------------------------------
(* The finder                                                               *)

\* _prescan: a directory is visited before those in it, so a package takes the place of the
\* module of its name.
Prescan(mutants) ==
    LET names == {f.name : f \in mutants}
    IN [cache |-> [n \in names |-> IF Package(n) \in mutants THEN Package(n) ELSE Module(n)],
        top   |-> {Head(n) : n \in names}]

\* Forgets the names at the top level as well.
ForgetEverything(finder) == [cache |-> <<>>, top |-> {}]

InvalidateCaches(finder) == [finder EXCEPT !.cache = <<>>]

\* harness/__init__.py has the caches invalidated once the finder is in place.
Installed(mutants) == InvalidateCaches(Prescan(mutants))

Resolve(finder, mutants, name) ==
    IF name \in DOMAIN finder.cache THEN finder.cache[name]
    ELSE IF Module(name) \in mutants THEN Module(name)
    ELSE IF Package(name) \in mutants THEN Package(name)
    ELSE Missing

\* find_spec, and what it leaves in the cache.
Passes(finder, name) == Head(name) = HarnessName \/ Head(name) \notin finder.top

FindSpec(finder, mutants, name) ==
    IF Passes(finder, name) THEN Missing ELSE Resolve(finder, mutants, name)

AfterSpec(finder, mutants, name) ==
    IF Passes(finder, name) THEN finder
    ELSE [finder EXCEPT !.cache = [n \in {name} \cup DOMAIN finder.cache |->
              IF n = name THEN Resolve(finder, mutants, name) ELSE finder.cache[n]]]

\* An import imports the packages above first; what the finder passes on Python finds in the
\* directories of the sources, which are on the path of a package from mutants/ too.
Load(finder, mutants, sources, name) ==
    LET load[i \in 0..Len(name)] ==
            IF i = 0 THEN [finder |-> finder, file |-> ThePath, mutated |-> FALSE]
            ELSE LET above == load[i - 1]
                     part  == SubSeq(name, 1, i)
                     spec  == FindSpec(above.finder, mutants, part)
                 IN IF HoldsModules(above.file)
                    THEN [finder  |-> AfterSpec(above.finder, mutants, part),
                          file    |-> IF spec = Missing THEN FindIn(sources, part) ELSE spec,
                          mutated |-> spec # Missing]
                    ELSE [finder |-> above.finder, file |-> Missing, mutated |-> FALSE]
    IN load[Len(name)]

\* A sequence of imports, each a name, and of invalidations, each <<>>.
Imported(mutants, sources, events) ==
    LET state[k \in 0..Len(events)] ==
            IF k = 0 THEN [finder |-> Installed(mutants), loads |-> <<>>]
            ELSE LET before == state[k - 1]
                     load   == Load(before.finder, mutants, sources, events[k])
                 IN IF events[k] = <<>>
                    THEN [finder |-> InvalidateCaches(before.finder), loads |-> before.loads]
                    ELSE [finder |-> load.finder,
                          loads  |-> Append(before.loads, [name |-> events[k], file |-> load.file,
                                                           mutated |-> load.mutated])]
    IN state[Len(events)].loads
=============================================================================
