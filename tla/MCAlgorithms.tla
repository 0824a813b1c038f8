---------------------------- MODULE MCAlgorithms ----------------------------
(* The inputs of the algorithms. *)
EXTENDS Algorithms

SeqsUpTo(S, n) == UNION {[1..k -> S] : k \in 0..n}

-----------------------------------------------------------------------------
(* Programs: every expression of a few of each kind, in every statement that takes one.  In *)
(* them no two branches, items or operands that can replace one another are equal.          *)

Leaf(kind, text)       == Ops!Leaf(kind, text)
Node(kind, text, kids) == Ops!Node(kind, text, kids)
Id(name)     == Leaf("identifier", name)
Attr(o, a)   == Node("attribute", a, <<o>>)
Apply(f, args) == Node("call", "", <<f>> \o args)
Kw(name, v)  == Node("keyword_argument", name, <<v>>)
Compare(op, a, b) == Node("comparison_operator", op, <<a, b>>)
Num(n)       == Leaf("integer", n)
NoneNode     == Leaf("none", "None")
True         == Leaf("true", "True")
x == Id("x")
y == Id("y")

Atoms ==
    {x, NoneNode, True, Num("0"), Num("1"), Num("0xff"), Leaf("float", "1.5"), Id("deepcopy"),
     Leaf("string", ""), Node("string", "", <<Leaf("string_content", "s")>>)}

Operations ==
    {Node("not_operator", "not", <<a>>) : a \in {x, True}} \cup
    {Node("unary_operator", op, <<a>>) : op \in {"~", "+", "-"}, a \in {x, Num("1")}} \cup
    {Node(u.kind, u.text, <<u>>) : u \in {Node("not_operator", "not", <<x>>), Node("unary_operator", "~", <<x>>)}} \cup
    {Node("binary_operator", op, <<a, b>>) :
        op \in {"+", "//"}, a \in {x, Node("string", "", <<Leaf("string_content", "s")>>)},
        b \in {y, Num("1")}} \cup
    {Compare(op, a, b) :
        op \in {"<", "<=", ">", ">=", "==", "!=", "in", "not in", "is", "is not"},
        a \in {x, Apply(Id("len"), <<x>>)}, b \in {y, Num("0")}} \cup
    {Node("boolean_operator", "and", <<x, Compare("<", x, y)>>)}

Others ==
    {Node("conditional_expression", "", <<a, c, b>>) :
        a \in {x, NoneNode}, c \in {y, Node("not_operator", "not", <<y>>), Compare("==", x, y)},
        b \in {x, Node("named_expression", "", <<x, y>>)}} \cup
    {Node("subscript", "", <<x, Node("slice", "::", <<a, b, c>>)>>) :
        a \in {Leaf("absent", ""), Num("1")}, b \in {Leaf("absent", ""), x},
        c \in {Leaf("absent", ""), y}} \cup
    {Node("lambda", "", <<b>>) : b \in {NoneNode, x, Num("0")}} \cup
    {Apply(f, args) :
        f \in {Id("f"), Id("dict"), Attr(x, "split"), Attr(x, "lower"), Attr(Id("logging"), "info")},
        args \in {<<>>, <<x>>, <<x, Kw("maxsplit", Num("1"))>>, <<Kw("key", NoneNode)>>,
                  <<Node("list_splat", "", <<x>>), NoneNode>>,
                  <<x, Node("for_in_clause", "", <<x>>)>>, <<Compare("in", x, y), y>>}}

Times(n) == Node("re_count", "", [i \in 1..n |-> Leaf("re_empty", "")])
Perl == Leaf("re_perl", "\\d")
Char == Leaf("re_char", "a")
Caret == Leaf("re_anchor", "^")
Dollar == Leaf("re_anchor", "$")

Regexes ==
    {Caret,
     Node("re_concat", "", <<Caret, Perl, Leaf("re_boundary", "\\b"), Leaf("re_dot", "."), Dollar>>),
     Node("re_concat", "", <<Caret, Node("re_look", "(?=", <<Perl>>), Dollar>>),
     Node("re_group", "(", <<Node("re_alt", "", <<Char, Node("re_repeat", "*", <<Char>>), Dollar>>)>>),
     Node("re_alt", "", <<Char, Dollar>>)} \cup
    {Node("re_class", negated, items) :
        negated \in {"", "^"},
        items \in {<<Char>>, <<Char, Perl>>, <<Char, Leaf("re_char", "b"), Leaf("re_char", "-")>>}} \cup
    {Node("re_repeat", "{", <<Perl, Times(m), Times(m)>>) : m \in 0..2} \cup
    {Node("re_repeat", "{,", <<Perl, Times(m), Leaf("re_unbounded", "")>>) : m \in 0..1} \cup
    {Node("re_repeat", "{,", <<Perl, Times(m), Times(n)>>) : m \in 0..2, n \in 0..2}

RegexCalls ==
    {Apply(Attr(Id("re"), "match"), <<Node("string", "r", <<r>>), x>>) : r \in Regexes}

Expressions == Atoms \cup Operations \cup Others \cup RegexCalls

Block(statements) == Node("block", "", statements)

Statements(e) ==
    {Node("return_statement", "", <<e>>), Node("expression_statement", "", <<e>>),
     Node("expression_statement", "", <<Node("assignment", "=", <<x, e>>)>>),
     Node("expression_statement", "",
          <<Node("assignment", "=", <<Attr(Id("self"), "x"), Node("assignment", "=", <<x, e>>)>>)>>),
     Node("expression_statement", "", <<Node("augmented_assignment", "+=", <<x, e>>)>>),
     Node("if_statement", "", <<e, Block(<<Leaf("break_statement", "break")>>)>>),
     Node("while_statement", "", <<e, Block(<<Leaf("continue_statement", "continue")>>)>>),
     Node("for_statement", "", <<x, e, Block(<<Leaf("pass_statement", "pass")>>)>>),
     Node("assert_statement", "", <<e>>), Node("raise_statement", "", <<e>>),
     Node("match_statement", "", <<e, Node("case_clause", "", <<x>>), Node("case_clause", "", <<y>>)>>)}

Handlers ==
    {Node("except_clause", "", <<t, Block(<<Leaf("pass_statement", "pass")>>)>>) :
        t \in {x, Id("Exception"), Node("as_pattern", "e", <<x>>)}} \cup
    {Node("except_clause", "", <<Block(<<Leaf("pass_statement", "pass")>>)>>)}

MCPrograms ==
    {Node("function_definition", "f", <<Id("a"), Block(<<s>>)>>) :
        s \in Handlers \cup UNION {Statements(e) : e \in Expressions}} \cup
    {Node("function_definition", "f",
          <<Node("default_parameter", "a", <<e>>), Block(<<Leaf("return_statement", "")>>)>>) :
        e \in Atoms \cup {Node("unary_operator", "-", <<Num("1")>>)}}

-----------------------------------------------------------------------------
(* Files: up to three items at the top level, classes of up to two members. *)

Item(kind, name, decs, flags, body) == Source!Item(kind, name, decs, flags, body)

Def(name, decs, flags) == Item("def", name, decs, flags, <<>>)
Plain == Def("f", <<>>, {})

Defs ==
    {Def("f", <<>>, flags) : flags \in {{}, {"wide"}, {"text"}, {"remark"}, {"barren"}, {"getframe"}}} \cup
    {Def("f", decs, {}) : decs \in {<<"property">>, <<"cache">>, <<"property", "comment">>,
                                    <<"cache", "property">>}} \cup
    {Def("g", <<>>, {}), Item("def", "g", <<>>, {}, <<Plain>>),
     Item("def", "g", <<>>, {"barren"}, <<Plain>>)}

Code == Item("code", "", <<>>, {}, <<>>)

Classes ==
    {Item("class", "C", <<>>, flags, <<Plain>>) :
        flags \in {{}, {"wide"}, {"text"}, {"remark"}, {"enum"}}} \cup
    {Item("class", "C", <<>>, {}, <<a, b>>) :
        a \in Defs \cup {Code, Item("class", "D", <<>>, {}, <<Plain>>), Item("if", "", <<>>, {}, <<Plain>>)},
        b \in {Plain, Code, Item("class", "D", <<>>, {}, <<Plain>>)}} \cup
    {Item("class", "C", <<"final">>, {}, <<Plain>>)}

Rest ==
    {Code, Item("if", "", <<>>, {}, <<Plain>>)} \cup
    {Item(kind, "", <<>>, {}, <<>>) : kind \in {"comment", "future", "docstring", "plain docstring"}}

Top == Defs \cup Classes \cup Rest

\* What may come before a __future__ import.
LegalFile(file) ==
    \A i, j \in DOMAIN file : i < j /\ file[j].kind = "future" =>
        \/ file[i].kind \in {"comment", "future"}
        \/ /\ file[i].kind \in {"docstring", "plain docstring"}
           /\ \A k \in 1..i - 1 : file[k].kind = "comment"

MCFiles ==
    {file \in [1..2 -> Top] \cup
              {<<a, b, c>> : a \in Rest, b \in Rest \cup {Plain},
                             c \in Defs \cup {Item("future", "", <<>>, {}, <<>>)}} :
        LegalFile(file)}

-----------------------------------------------------------------------------
(* Texts: up to five pieces. *)

Pieces ==
    {<<q, q, q>> : q \in {"single", "double"}} \cup
    {<<c>> : c \in {"single", "double", "escape", "open", "close", "comma", "hash"}}

MCTexts == {FlattenSeq(pieces) : pieces \in SeqsUpTo(Pieces, 5)}

MCPatterns ==
    {[path |-> <<s>>, pattern |-> <<p>>] :
        s \in SeqsUpTo({"a", "b"}, 3), p \in SeqsUpTo({"a", "*", "?"}, 4)} \cup
    {[path |-> s, pattern |-> p] :
        s \in SeqsUpTo({<<"a">>, <<"b">>}, 3), p \in SeqsUpTo({<<"a">>, <<"*">>, <<"*", "*">>}, 4)}

-----------------------------------------------------------------------------
(* Calls: up to three parameters, in an order that Python allows. *)

Param(kind, name, default) == Tramp!Param(kind, name, default)

Parameters ==
    {Param("slash", "/", FALSE), Param("star", "*", FALSE), Param("args", "args", FALSE),
     Param("kwargs", "kwargs", FALSE)} \cup
    {Param("param", n, d) : n \in {"a", "b", "c"}, d \in BOOLEAN}

\* A slash comes after a parameter, a bare star before one, and no default before a parameter
\* that has none.
InPythonOrder(params) ==
    LET At(kinds) == {i \in DOMAIN params : params[i].kind \in kinds}
        plain == At({"param"})
    IN /\ \A i \in At({"slash"}) : i > 1
       /\ \A i \in At({"star"}) : i + 1 \in plain
       /\ \A i, j \in plain :
             i < j /\ params[i].default /\ (\A s \in At({"star", "args"}) : j < s) => params[j].default

Signatures == {p \in SeqsUpTo(Parameters, 4) : LegalSignature(p) /\ InPythonOrder(p)}

Keywords == {[n \in names |-> "k:" \o n] : names \in SUBSET {"a", "b", "z"}}

MCCalls ==
    {[params |-> p, implicit |-> "", values |-> v, keywords |-> k] :
        p \in Signatures, v \in {<<>>, <<"p1">>, <<"p1", "p2">>}, k \in Keywords} \cup
    {[params |-> p, implicit |-> i, values |-> <<"obj">> \o v, keywords |-> k] :
        p \in {s \in Signatures : Tramp!Begins(s, "param") => s[1] = Param("param", "c", FALSE)},
        i \in {"self", "cls"}, v \in {<<>>, <<"p1">>}, k \in Keywords}

-----------------------------------------------------------------------------
(* Dispatches: functions and methods whose names begin alike. *)

Function(module, class, name) == [module |-> module, class |-> class, name |-> name]

Dispatched ==
    {Function(m, c, n) : m \in {<<"m">>, <<"m", ".", "n">>, <<"n">>}, c \in {"", "C", "D"},
                         n \in {<<"f">>, <<"f", "g">>}}

Class(f, methods) == [module |-> f.module, class |-> f.class, methods |-> methods]

Mros(f) ==
    IF f.class = "" THEN {<<>>}
    ELSE {s \o <<Class(f, {f.name})>> : s \in
            {<<>>} \cup {<<Class(Function(m, c, <<>>), methods)>> :
                            m \in {<<"m">>, <<"n">>}, c \in {"C", "D"}, methods \in SUBSET {f.name}}}

Actives ==
    {<<>>, <<"fail">>, <<"stats">>} \cup
    {Tramp!MutantKey(f, n) : f \in Dispatched, n \in {"1", "2"}} \cup {Tramp!PatchKey(f, "1") : f \in Dispatched}

MCWords == {"x_", "x|", "|", "", "m", "n", "C", "D", "f", "g", "1", "2"}

MCDispatches ==
    UNION {{[f |-> f, mro |-> mro, mutants |-> {"1", "2"}, active |-> a] : mro \in Mros(f), a \in Actives} :
           f \in Dispatched}

-----------------------------------------------------------------------------
(* Checks: two modules, up to two functions each, up to two errors. *)

TypedFunctions == [key : {"f", "g"}, bodies : {<<1, 1>>, <<1, 2, 1>>}, async : BOOLEAN]

TypedFiles ==
    {<<f>> : f \in TypedFunctions} \cup
    {<<f, g>> : f \in {h \in TypedFunctions : h.key = "f" /\ Len(h.bodies) = 3},
                g \in {h \in TypedFunctions : h.key = "g" /\ Len(h.bodies) = 2}}

TypeErrors == [line : {1, 3, 5, 6, 8, 9}, message : {"p", "q"}]

MCChecks ==
    UNION {{[modules |-> <<"m", "n">>, files |-> [m |-> a, n |-> b],
             errors |-> [m |-> es, n |-> {e}]] :
                es \in {s \in SUBSET {e \in TypeErrors : e.line <= Len(Types!FileText(a))} : Cardinality(s) <= 2},
                e \in [line : {1, 3}, message : {"p"}]} :
           a \in TypedFiles, b \in {<<[key |-> k, bodies |-> <<1, 1>>, async |-> FALSE]>> : k \in {"f", "h"}}}

-----------------------------------------------------------------------------
(* Imports: a tree of up to six files, of which all are copied to mutants/, or those of one *)
(* package, or all but a directory of tests; up to three imports and invalidations.          *)

SourceTrees ==
    SUBSET ([kind : {"module", "package"}, name : {<<"a">>, <<"a", "b">>}] \cup
            {Hook!Module(<<"c">>), Hook!Package(<<Hook!HarnessName>>)})

Within(sources, directory) ==
    {f \in sources : IsPrefix(directory, f.name) /\ f # Hook!Module(directory)}

MCImports ==
    UNION {{[sources |-> s, mutants |-> m, events |-> e] :
                m \in {s, Within(s, <<"a">>), s \ Within(s, <<"a">>), s \ Within(s, <<"a", "b">>)},
                e \in SeqsUpTo({<<>>, <<"a">>, <<"a", "b">>}, 3) \cup
                      {<< <<"c">> >>, << <<Hook!HarnessName>> >>}} :
           s \in SourceTrees}

-----------------------------------------------------------------------------
(* Diffs: two files of up to five lines. *)

Edits == SeqsUpTo({"keep", "add", "drop"}, 5)

MCDiffs ==
    {<<[path |-> "a", status |-> s, edit |-> e]>> : s \in {"changed"}, e \in Edits} \cup
    {<<[path |-> "a", status |-> s, edit |-> <<"keep", "add", "keep", "keep">>],
       [path |-> "b", status |-> t, edit |-> e]>> :
        s, t \in {"changed", "binary"}, e \in SeqsUpTo({"keep", "add", "drop"}, 4)} \cup
    {<<[path |-> "a", status |-> "new", edit |-> <<"add", "add">>],
       [path |-> "b", status |-> "deleted", edit |-> <<"drop", "drop">>],
       [path |-> "c", status |-> "changed", edit |-> e]>> :
        e \in SeqsUpTo({"keep", "add", "drop"}, 4)}

MCSamples ==
    {[counts |-> c, value |-> v] :
        c \in SeqsUpTo(1..5, 4) \ {<<>>},
        v \in {<<1, 10>>, <<1, 4>>, <<1, 2>>, <<1, 1>>, <<2, 1>>, <<3, 1>>, <<7, 2>>, <<50, 1>>}}

-----------------------------------------------------------------------------
(* Reports: the layouts a project has, up to two results. *)

Layouts ==
    { [files |-> {<<"src", "m">>, <<"src", "p", "__init__">>, <<"src", "p", "n">>},
       paths |-> <<<<"src">>>>],
      [files |-> {<<"src", "p", "__init__">>, <<"src", "p", "q", "__init__">>, <<"src", "p", "q", "n">>},
       paths |-> <<<<"src", "p">>>>],
      [files |-> {<<"src", "p", "__init__">>, <<"src", "p", "n">>},
       paths |-> <<<<"src", "p", "n">>>>],
      [files |-> {<<"p", "__init__">>, <<"p", "n">>, <<"lib", "m">>},
       paths |-> <<<<"lib">>, <<"p">>>>],
      [files |-> {<<"a", "m">>, <<"a", "m", "__init__">>, <<"b", "m">>, <<"b", "n">>},
       paths |-> <<<<"a">>, <<"b">>>>],
      [files |-> {<<"src", "p", "__init__">>, <<"src", "p", "p">>, <<"src", "p", "n">>, <<"m">>},
       paths |-> <<<<"src", "p">>, <<"m">>>>] }

\* The pairs of a status and an exit code that the phases of a run produce.
Verdicts ==
    {<<"Survived", 0>>, <<"Killed", 1>>, <<"NoTests", 33>>, <<"TypeCheck", 37>>,
     <<"Error", 2>>, <<"Error", -1>>, <<"Timeout", -1>>}

Result(mutant, verdict) == [mutant |-> mutant, status |-> verdict[1], exit_code |-> verdict[2]]

MCReports ==
    UNION {LET mutants == Rep!MutantsOf(l)
               results == {Result(m, v) : m \in mutants, v \in Verdicts}
           IN {[layout |-> l, results |-> r] :
                  r \in {s \in SeqsUpTo(results, 2) : IsInjective([i \in DOMAIN s |-> Rep!Name(s[i].mutant)])}} :
           l \in Layouts}
=============================================================================
