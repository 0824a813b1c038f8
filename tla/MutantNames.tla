----------------------------- MODULE MutantNames -----------------------------
(***************************************************************************)
(* Which functions of a Python file are mutated, and how                   *)
(* (collect_all_mutations of src/src/tree_sitter_mutation.rs), and the     *)
(* names of the mutants (src/src/codegen.rs, src/src/trampoline.rs).       *)
(*                                                                         *)
(* An item of a file or of a body:                                         *)
(*   "def"    flags: "never" (a name never mutated), "nonlocal",           *)
(*            "getframe", "barren" (no mutation, or all on ignored lines), *)
(*            "wide" (its header takes two lines), "text" (it begins with  *)
(*            a triple-quoted string that reaches column 0), "remark" (it  *)
(*            holds a comment at column 0)                                 *)
(*   "class"  flags: "enum", "wide", "text", "remark"                      *)
(*   "if"     a block that holds definitions                               *)
(*   "code", "comment", "future", "docstring" (triple quotes, two lines),  *)
(*   "plain docstring"                       single lines                  *)
(* decs are the lines above it: decorators, or "comment".                  *)
(***************************************************************************)
EXTENDS Naturals, Sequences, SequencesExt, FiniteSets

\* How many mutations a body has that has any.
CONSTANT BodyMutations

Item(kind, name, decs, flags, body) ==
    [kind |-> kind, name |-> name, decs |-> decs, flags |-> flags, body |-> body]

\* The class of a function at the top level.
NoClass == "-"

-----------------------------------------------------------------------------
(* What is mutated, and how                                                *)

DESCRIPTOR_DECORATORS == {"property", "classmethod", "staticmethod"}

\* A comment between the decorators and the function is not one of them.
Decorators(d) ==
    FlattenSeq([i \in DOMAIN d.decs |-> IF d.decs[i] = "comment" THEN <<>> ELSE << d.decs[i] >>])

\* collect_function_mutations: what is renamed may neither reach for the enclosing scope nor
\* for the frame of its caller.
Trampolined(d) ==
    /\ d.flags \cap {"never", "nonlocal", "getframe", "barren"} = {}
    /\ \A i \in DOMAIN Decorators(d) : Decorators(d)[i] \in DESCRIPTOR_DECORATORS

\* Mutated in place, because of a decorator that does more.
Patched(d) ==
    /\ d.flags \cap {"never", "barren"} = {}
    /\ \E i \in DOMAIN Decorators(d) : Decorators(d)[i] \notin DESCRIPTOR_DECORATORS

\* The definitions collected: those of the file and those of its classes, no deeper;
\* a definition with its class and its path.
Members(items, class, at) ==
    FlattenSeq([k \in DOMAIN items |->
        IF items[k].kind = "def"
        THEN << [d |-> items[k], class |-> class, at |-> Append(at, k)] >> ELSE <<>>])

\* Of a file's items in their order; decorated classes and enumerations are passed over.
Collected(file) ==
    FlattenSeq([i \in DOMAIN file |->
        CASE file[i].kind = "def"   -> << [d |-> file[i], class |-> NoClass, at |-> <<i>>] >>
          [] file[i].kind = "class" -> IF "enum" \in file[i].flags \/ Decorators(file[i]) # <<>>
                                       THEN <<>> ELSE Members(file[i].body, file[i].name, <<i>>)
          [] OTHER -> <<>>])

FunctionsOf(file) ==
    LET cs == Collected(file)
    IN FlattenSeq([i \in DOMAIN cs |-> IF Trampolined(cs[i].d) THEN << cs[i] >> ELSE <<>>])

\* The patches of a definition: one for each decorator taken away, BodyMutations in the body.
PatchesOf(c) ==
    [i \in DOMAIN Decorators(c.d) |-> [class |-> c.class, name |-> c.d.name, how |-> "decrem"]] \o
    IF Patched(c.d)
    THEN [i \in 1..BodyMutations |-> [class |-> c.class, name |-> c.d.name, how |-> "sp"]]
    ELSE <<>>

SourcePatches(file) == FlattenSeq([i \in DOMAIN Collected(file) |-> PatchesOf(Collected(file)[i])])

\* The count starts over with every function.
NumberedByFunction(file) ==
    FlattenSeq([i \in DOMAIN Collected(file) |->
        LET ps == PatchesOf(Collected(file)[i])
        IN [k \in DOMAIN ps |->
              << ps[k], Cardinality({j \in 1..k : ps[j] = ps[k]}) >>]])

\* name_source_patches: a number for each patch of a function and a kind.
NameSourcePatches(file) ==
    LET ps == SourcePatches(file)
    IN [k \in DOMAIN ps |-> << ps[k], Cardinality({j \in 1..k : ps[j] = ps[k]}) >>]

\* generate_trampoline numbers the mutants of each function from one.
MutantKeys(file) ==
    FlattenSeq([i \in DOMAIN FunctionsOf(file) |->
        LET c == FunctionsOf(file)[i]
        IN [k \in 1..BodyMutations |->
              << [class |-> c.class, name |-> c.d.name, how |-> "irradiate"], k >>]])

\* The names of a file's mutants: source patches, then those of the trampolines.
NamesOf(file) == NameSourcePatches(file) \o MutantKeys(file)
=============================================================================
