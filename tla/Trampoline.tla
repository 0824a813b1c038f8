----------------------------- MODULE Trampoline -----------------------------
(***************************************************************************)
(* The wrapper that src/src/trampoline.rs puts in the place of a function: *)
(* how it forwards its arguments, and whom _irradiate_trampoline calls.    *)
(*                                                                         *)
(* A parameter has a kind:                                                 *)
(*   "slash", "star"  the bare separators   "args", "kwargs"  * and **     *)
(*   "param"          any other, which may have a default                  *)
(* A call gives a sequence of positional values and values for some names; *)
(* the values are distinct names of their own ("p1", "k:a").               *)
(***************************************************************************)
EXTENDS Naturals, Sequences, SequencesExt, FiniteSets, Functions

Param(kind, name, default) == [kind |-> kind, name |-> name, default |-> default]

-----------------------------------------------------------------------------
(* Python's binding of the arguments of a call                             *)

\* The parameters before a separator or * are positional, those before a slash only so.
IndexOfKind(params, kinds) ==
    LET is == {i \in DOMAIN params : params[i].kind \in kinds}
    IN IF is = {} THEN Len(params) + 1 ELSE CHOOSE i \in is : \A j \in is : i <= j

PlainFrom(params, from) ==
    LET Plain[i \in 0..Len(params)] ==
            IF i = 0 THEN <<>>
            ELSE IF i >= from /\ params[i].kind = "param" THEN Append(Plain[i - 1], params[i])
            ELSE Plain[i - 1]
    IN Plain

Names(params) == {params[i].name : i \in DOMAIN params}

Positional(params) == PlainFrom(params, 1)[IndexOfKind(params, {"star", "args", "kwargs"}) - 1]
KeywordOnly(params) == PlainFrom(params, IndexOfKind(params, {"star", "args"}))[Len(params)]
PositionalOnly(params) ==
    IF \E i \in DOMAIN params : params[i].kind = "slash"
    THEN Names(PlainFrom(params, 1)[IndexOfKind(params, {"slash"})]) ELSE {}

Takes(params, kind) == \E i \in DOMAIN params : params[i].kind = kind

Rejected == [ok |-> FALSE, named |-> <<>>, rest |-> <<>>, extra |-> <<>>]

\* A value for each parameter by name, the rest of the positional values for *args and of
\* the named ones for **kwargs; or a TypeError.
Bind(params, values, keywords) ==
    LET pos    == Positional(params)
        kw     == KeywordOnly(params)
        all    == Names(pos) \cup Names(kw)
        given  == {pos[i].name : i \in DOMAIN pos \cap DOMAIN values}
        byName == (all \ PositionalOnly(params)) \cap DOMAIN keywords
        others == DOMAIN keywords \ byName
        defaulted == {p.name : p \in {q \in Range(pos) \cup Range(kw) : q.default}}
    IN IF \/ Len(values) > Len(pos) /\ ~Takes(params, "args")
          \/ given \cap byName # {}
          \/ others # {} /\ ~Takes(params, "kwargs")
          \/ ~(all \ (given \cup byName) \subseteq defaulted)
       THEN Rejected
       ELSE [ok    |-> TRUE,
             named |-> [n \in all |->
                           IF n \in given
                           THEN values[CHOOSE i \in DOMAIN pos : pos[i].name = n]
                           ELSE IF n \in byName THEN keywords[n] ELSE "default"],
             rest  |-> SubSeq(values, Len(pos) + 1, Len(values)),
             extra |-> Restrict(keywords, others)]

-----------------------------------------------------------------------------
(* The wrapper                                                             *)

\* parse_param_names goes through the parts of the parameter list; what is found after a
\* star is passed by name.
NothingParsed == [pos |-> <<>>, kw |-> <<>>, kwargs |-> FALSE, afterStar |-> FALSE]

\* Only the bare star makes the parameters after it keyword-only.
ParsePartBareStar(parsed, p) ==
    CASE p.kind = "slash"  -> parsed
      [] p.kind = "star"   -> [parsed EXCEPT !.afterStar = TRUE]
      [] p.kind = "kwargs" -> [parsed EXCEPT !.kwargs = TRUE]
      [] OTHER -> IF parsed.afterStar THEN [parsed EXCEPT !.kw = Append(@, p)]
                  ELSE [parsed EXCEPT !.pos = Append(@, p)]

ParsePart(parsed, p) ==
    CASE p.kind = "slash"  -> parsed
      [] p.kind = "star"   -> [parsed EXCEPT !.afterStar = TRUE]
      [] p.kind = "kwargs" -> [parsed EXCEPT !.kwargs = TRUE]
      [] p.kind = "args"   -> [parsed EXCEPT !.pos = Append(@, p), !.afterStar = TRUE]
      [] p.kind = "param" /\ parsed.afterStar  -> [parsed EXCEPT !.kw = Append(@, p)]
      [] p.kind = "param" /\ ~parsed.afterStar -> [parsed EXCEPT !.pos = Append(@, p)]

Parsed(params) ==
    LET Upto[i \in 0..Len(params)] ==
            IF i = 0 THEN NothingParsed ELSE ParsePart(Upto[i - 1], params[i])
    IN Upto

ParseParamNames(params, hasSelf) ==
    LET parsed == Parsed(params)[Len(params)]
    IN IF hasSelf /\ parsed.pos # <<>> THEN [parsed EXCEPT !.pos = Tail(@)] ELSE parsed

\* What is passed for the first i of the positional parameters.
Passed(pos, bound) ==
    LET Upto[i \in 0..Len(pos)] ==
            IF i = 0 THEN <<>>
            ELSE Upto[i - 1] \o (IF pos[i].kind = "args" THEN bound.rest
                                 ELSE <<bound.named[pos[i].name]>>)
    IN Upto

Begins(params, kind) == params # <<>> /\ params[1].kind = kind

\* What the name of the first parameter stands for, which extract_first_param_name takes as it
\* is written: *args is all that it holds.  Without parameters the name is made up, and the
\* star and ** are no expressions.
SelfArgs(params, bound) ==
    CASE Begins(params, "param") -> <<bound.named[params[1].name]>>
      [] Begins(params, "args")  -> bound.rest
      [] OTHER -> <<>>

\* The lookup of the function, by _type(self) or in the class itself: _type takes one value,
\* and the tuple that *args is has no attribute of the name.  implicit is the first argument
\* that generate_trampoline gives the function: "self", "cls", or "" for none.
Found(params, bound, implicit) ==
    \/ implicit = ""
    \/ Begins(params, "param")
    \/ implicit = "self" /\ Len(SelfArgs(params, bound)) = 1

\* generate_wrapper_function: the wrapper has the signature of the function (annotations
\* aside), so its own defaults apply; bound is its binding of the call.  What the trampoline is
\* called with, apart from an implicit first argument.
CallArgs(params, bound, implicit) ==
    LET parsed == ParseParamNames(params, implicit # "")
        named  == Names(parsed.kw)
    IN [values   |-> Passed(parsed.pos, bound)[Len(parsed.pos)],
        keywords |-> [n \in named \cup (IF parsed.kwargs THEN DOMAIN bound.extra ELSE {}) |->
                         IF n \in named THEN bound.named[n] ELSE bound.extra[n]]]

\* The call that reaches the function itself: self first, then the arguments.
Forwarded(params, bound, implicit) ==
    LET args  == CallArgs(params, bound, implicit)
        first == IF implicit = "" THEN <<>> ELSE SelfArgs(params, bound)
    IN IF Found(params, bound, implicit) THEN Bind(params, first \o args.values, args.keywords)
       ELSE Rejected

-----------------------------------------------------------------------------
(* The dispatch                                                            *)

\* Names are sequences of their parts.  A function is known by its module, its class
\* ("" for none) and its name.
MangleName(f) ==
    IF f.class = "" THEN <<"x_">> \o f.name ELSE <<"x|", f.class, "|">> \o f.name

FuncKey(f) == f.module \o <<".">> \o MangleName(f)

\* Mutant n of a function, by its full name and by the name it has in the module.
MutantKey(f, n)  == FuncKey(f) \o <<"__irradiate_", n>>
VariantName(f, n) == MangleName(f) \o <<"__irradiate_", n>>

\* A mutant of a patch: no function answers to it.
PatchKey(f, n) == FuncKey(f) \o <<"__sp_", n>>

\* The name of the function, without what ends it.
PrefixOfName(orig) == FuncKey(orig)

Prefix(orig) == FuncKey(orig) \o <<"__irradiate_">>

\* rpartition('.')[-1]
AfterLastDot(key) ==
    SubSeq(key, 1 + CHOOSE i \in 0..Len(key) : /\ i > 0 => key[i] = "."
                                               /\ \A j \in i + 1..Len(key) : key[j] # ".",
           Len(key))

\* The class, of the ones a method is looked up in, whose dictionary has the mangled names of
\* the wrapper: _type(self).<mangled>__irradiate_orig.  A plain function is its own.
Resolve(f, mro) ==
    IF f.class = "" THEN f
    ELSE LET defining == {i \in DOMAIN mro : mro[i].class = f.class /\ f.name \in mro[i].methods}
         IN [f EXCEPT !.module = mro[CHOOSE i \in defining : \A j \in defining : i <= j].module]

\* _irradiate_trampoline, for the original found and the number of its mutants: what runs,
\* and what is recorded.
Outcome(runs, variant, hits) == [runs |-> runs, variant |-> variant, hits |-> hits]

IrradiateTrampoline(orig, mutants, active) ==
    CASE active = <<>>        -> Outcome("orig", <<>>, {})
      [] active = <<"fail">>  -> Outcome("ProgrammaticFailException", <<>>, {})
      [] active = <<"stats">> -> Outcome("orig", <<>>, {FuncKey(orig)})
      [] OTHER ->
            IF ~IsPrefix(Prefix(orig), active) THEN Outcome("orig", <<>>, {})
            ELSE IF AfterLastDot(active) \in {VariantName(orig, n) : n \in mutants}
            THEN Outcome("variant", AfterLastDot(active), {})
            ELSE Outcome("KeyError", <<>>, {})
=============================================================================
