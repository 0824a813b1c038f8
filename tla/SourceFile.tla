----------------------------- MODULE SourceFile -----------------------------
(***************************************************************************)
(* What becomes of a Python file: the file that replaces it (mutate_file   *)
(* of src/src/codegen.rs).  The collector sees the syntax tree, the writer *)
(* walks the lines: a file is the tree (see MutantNames), Lines its text.  *)
(***************************************************************************)
EXTENDS MutantNames

-----------------------------------------------------------------------------
(* The text                                                                *)

\* A line: how far it is indented, what the writer takes it for, its name, the change of
\* parenthesis depth and the triple quotes on it; at is the item it belongs to.
Line(at, indent, kind, name, parens, quotes) ==
    [at |-> at, indent |-> indent, kind |-> kind, name |-> name, parens |-> parens,
     quotes |-> quotes]

Code(at, indent) == Line(at, indent, "code", "", 0, 0)

\* A header takes one line, or one that opens a parenthesis and one that closes it.  The
\* first line of a wide class header has no colon.
Header(item, at, indent) ==
    IF "wide" \in item.flags
    THEN << Line(at, indent, IF item.kind = "class" THEN "code" ELSE item.kind, item.name, 1, 0),
            [Code(at, indent) EXCEPT !.parens = -1] >>
    ELSE << Line(at, indent, item.kind, item.name, 0, 0) >>

RECURSIVE LinesOf(_, _, _)
LinesOf(item, at, indent) ==
    [i \in DOMAIN item.decs |->
        Line(at, indent, IF item.decs[i] = "comment" THEN "comment" ELSE "decorator", "", 0, 0)] \o
    CASE item.kind \in {"def", "class", "if"} ->
            Header(item, at, indent) \o
            (IF "text" \in item.flags
             THEN << [Code(at, indent + 1) EXCEPT !.quotes = 1], [Code(at, 0) EXCEPT !.quotes = 1] >>
             ELSE <<>>) \o
            (IF "remark" \in item.flags THEN << Line(at, 0, "comment", "", 0, 0) >> ELSE <<>>) \o
            FlattenSeq([i \in DOMAIN item.body |->
                           LinesOf(item.body[i], Append(at, i), indent + 1)]) \o
            << Code(at, indent + 1) >>
      [] item.kind = "docstring" ->
            << Line(at, indent, "docstring", "", 0, 1), [Code(at, indent) EXCEPT !.quotes = 1] >>
      [] OTHER -> << Line(at, indent, item.kind, "", 0, 0) >>

Lines(file) == FlattenSeq([i \in DOMAIN file |-> LinesOf(file[i], <<i>>, 0)])

-----------------------------------------------------------------------------
(* mutate_file                                                             *)

\* The length of the preamble: comments, __future__ imports and triple-quoted docstrings,
\* each to its closing line.
RECURSIVE Preamble(_, _)
Preamble(lines, i) ==
    IF i > Len(lines) THEN Len(lines)
    ELSE IF lines[i].kind \in {"comment", "future"} THEN Preamble(lines, i + 1)
    ELSE IF lines[i].kind = "docstring"
    THEN LET closes == {j \in i + 1..Len(lines) : lines[j].quotes > 0}
         IN IF closes = {} THEN Len(lines)
            ELSE Preamble(lines, 1 + CHOOSE j \in closes : \A k \in closes : j <= k)
    ELSE i - 1

\* The signature goes to the line that closes its parentheses.
RECURSIVE SkipSignature(_, _, _)
SkipSignature(lines, i, depth) ==
    IF i > Len(lines) \/ depth <= 0 THEN i
    ELSE SkipSignature(lines, i + 1, depth + lines[i].parens)

\* The quotes are not looked at: the indentation alone ends the body.
SkipIndented(lines, i, indent, quoted) ==
    LET ends == {j \in i..Len(lines) : lines[j].indent <= indent}
    IN IF ends = {} THEN Len(lines) + 1 ELSE CHOOSE j \in ends : \A k \in ends : j <= k

\* The body goes to the first line that is not deeper than the def, outside triple quotes.
RECURSIVE SkipBody(_, _, _, _)
SkipBody(lines, i, indent, quoted) ==
    IF i > Len(lines) THEN i
    ELSE LET after == (quoted # (lines[i].quotes % 2 = 1))
         IN IF ~quoted /\ ~after /\ lines[i].indent <= indent THEN i
            ELSE SkipBody(lines, i + 1, indent, after)

\* The step past a definition that is replaced.
SkipDefinition(lines, i) ==
    SkipBody(lines, SkipSignature(lines, i + 1, lines[i].parens), lines[i].indent, FALSE)

\* find_trampoline_idx: the first one of the name and the class not yet written.
FindTrampoline(functions, class, name, emitted) ==
    LET fitting == {k \in DOMAIN functions : /\ functions[k].d.name = name
                                            /\ functions[k].class = class
                                            /\ k \notin emitted}
    IN IF fitting = {} THEN 0 ELSE CHOOSE k \in fitting : \A j \in fitting : k <= j

\* What the new file is made of: a line of the old one, a function's trampoline (with its
\* descriptor decorator and its wrapper), the bare code of one that was missed, the runtime.
Kept(line)     == [what |-> "line", at |-> line.at]
Written(c)     == [what |-> "trampoline", at |-> c.at]
Unwrapped(c)   == [what |-> "module code", at |-> c.at]
Runtime        == [what |-> "runtime", at |-> <<>>]

\* The walk: where it is, what is written, the class it believes to be in and that class's
\* indentation, the functions written and the decorators held back.
RECURSIVE Walk(_, _, _)
Walk(lines, functions, w) ==
    IF w.i > Len(lines) THEN w
    ELSE LET line  == lines[w.i]
             class == IF line.indent <= w.indent THEN NoClass ELSE w.class
             found == FindTrampoline(functions, class, line.name, w.emitted)
             here  == [w EXCEPT !.class = class, !.indent = IF class = NoClass THEN 0 ELSE @,
                                !.i = @ + 1]
         IN CASE line.kind = "decorator" ->
                    Walk(lines, functions, [here EXCEPT !.held = Append(@, Kept(line))])
              [] line.kind = "class" ->
                    Walk(lines, functions,
                         [here EXCEPT !.class = line.name, !.indent = line.indent,
                                      !.out = (@ \o w.held) \o <<Kept(line)>>, !.held = <<>>])
              [] line.kind = "def" /\ found # 0 ->
                    Walk(lines, functions,
                         [here EXCEPT !.i = SkipDefinition(lines, w.i), !.held = <<>>,
                                      !.out = Append(@, Written(functions[found])),
                                      !.emitted = @ \cup {found}])
              [] OTHER ->
                    Walk(lines, functions,
                         [here EXCEPT !.out = (@ \o w.held) \o <<Kept(line)>>, !.held = <<>>])

\* A function of the top level that the walk has missed gets its code appended, but no
\* wrapper to call it; of a method it has missed nothing is written.
MutateFile(file) ==
    LET lines     == Lines(file)
        functions == FunctionsOf(file)
        start     == Preamble(lines, 1)
        end       == Walk(lines, functions,
                          [i |-> start + 1, class |-> NoClass, indent |-> 0, emitted |-> {},
                           held |-> <<>>,
                           out |-> [k \in 1..start |-> Kept(lines[k])] \o <<Runtime>>])
        missed    == SelectSeq([k \in DOMAIN functions |-> k],
                               LAMBDA k : functions[k].class = NoClass /\ k \notin end.emitted)
    IN end.out \o [k \in DOMAIN missed |-> Unwrapped(functions[missed[k]])]
=============================================================================
