--------------------------- MODULE RegexOperators ---------------------------
(***************************************************************************)
(* The mutations of a regular expression written as a raw string, from     *)
(* src/src/regex_mutation.rs.  A pattern is the syntax tree regex-syntax   *)
(* builds: a node has a kind, a text and children; the place of a mutation *)
(* is the path of the node it replaces, standing for its byte span.        *)
(*   "re_anchor"  ^ or $             "re_boundary" \b or \B                *)
(*   "re_perl"    \d, \D, ...        "re_char"     a literal               *)
(*   "re_dot"     .                  "re_empty"    the empty pattern       *)
(*   "re_class"   text "" or "^", children the items of the brackets       *)
(*   "re_repeat"  text *, + or ?, or "{" with children <<x, {m}, {n}>>     *)
(*   "re_group"   text "(" or "(?:"  "re_alt", "re_concat"                 *)
(*   "re_look"    text (?= (?! (?<= or (?<!                                *)
(***************************************************************************)
EXTENDS Integers, Sequences, SequencesExt, Functions

Node(kind, text, kids) == [kind |-> kind, text |-> text, kids |-> kids]

Leaf(kind, text) == Node(kind, text, <<>>)

\* The mutation that puts new in the place of the whole node.
Mutation(operator, new) == << [operator |-> operator, at |-> <<>>, new |-> new] >>

\* The mutations ms of a node, as mutations of the node it is the i-th child of.
Under(i, ms) ==
    [k \in DOMAIN ms |-> [ms[k] EXCEPT !.at = <<i>> \o @]]

When(condition, ms) == IF condition THEN ms ELSE <<>>

\* What f yields for the members of a sequence, in their order.
Gather(f(_), s) == FlattenSeq([i \in DOMAIN s |-> f(i)])

Empty == Leaf("re_empty", "")

Negated ==
    [t \in {"\\d", "\\D", "\\w", "\\W", "\\s", "\\S"} |->
        CASE t = "\\d" -> "\\D" [] t = "\\D" -> "\\d" [] t = "\\w" -> "\\W"
          [] t = "\\W" -> "\\w" [] t = "\\s" -> "\\S" [] t = "\\S" -> "\\s"]

Turned ==
    [t \in {"(?=", "(?!", "(?<=", "(?<!"} |->
        CASE t = "(?=" -> "(?!" [] t = "(?!" -> "(?="
          [] t = "(?<=" -> "(?<!" [] t = "(?<!" -> "(?<="]

\* A count of a range quantifier; the upper one of {m,} is the absent node.
Count(n) == Node("re_count", "", [i \in 1..n |-> Empty])
CountOf(node) == Len(node.kids)
Unbounded == Leaf("re_unbounded", "")

\* {n} has equal counts and no comma (text "{"); {n,} and {m,n} have text "{,".
Quantifier(node, m, n) == [node EXCEPT !.kids = <<node.kids[1], m, n>>]

\* The bounds of a range are moved by one, each on its own.
QuantifierRange(node) ==
    LET m == CountOf(node.kids[2])
        n == CountOf(node.kids[3])
        Change(lo, hi) == Mutation("regex_quantifier_change", Quantifier(node, lo, hi))
    IN IF node.text = "{"
       THEN When(m > 0, Change(Count(m - 1), Count(m - 1))) \o Change(Count(m + 1), Count(m + 1))
       ELSE IF node.kids[3] = Unbounded
       THEN When(m > 0, Change(Count(m - 1), Unbounded)) \o Change(Count(m + 1), Unbounded)
       ELSE When(m > 0, Change(Count(m - 1), Count(n))) \o
            When(m < n, Change(Count(m + 1), Count(n))) \o
            When(n > 0 /\ n > m, Change(Count(m), Count(n - 1))) \o
            Change(Count(m), Count(n + 1))

\* One item fewer, when two or more are there.
RemovedChild(operator, node) ==
    When(Len(node.kids) >= 2,
         Gather(LAMBDA i : Mutation(operator, [node EXCEPT !.kids = RemoveAt(@, i)]), node.kids))

\* What is left of two branches is the other one.
RemovedBranch(node) ==
    IF Len(node.kids) = 2
    THEN Mutation("regex_alternation_removal", node.kids[2]) \o
         Mutation("regex_alternation_removal", node.kids[1])
    ELSE RemovedChild("regex_alternation_removal", node)

\* collect_ast_mutations: items of a class are not visited.
RECURSIVE AstMutations(_)
AstMutations(node) ==
    LET Below == Gather(LAMBDA i : Under(i, AstMutations(node.kids[i])), node.kids)
    IN CASE node.kind = "re_anchor"   -> Mutation("regex_anchor_removal", Empty)
         [] node.kind = "re_boundary" -> Mutation("regex_boundary_removal", Empty)
         [] node.kind = "re_perl"     ->
                Mutation("regex_shorthand_negation", [node EXCEPT !.text = Negated[@]])
         [] node.kind = "re_class"    ->
                Mutation("regex_charclass_negation",
                         [node EXCEPT !.text = IF @ = "" THEN "^" ELSE ""]) \o
                RemovedChild("regex_charclass_child_removal", node)
         [] node.kind = "re_repeat"   ->
                Mutation("regex_quantifier_removal", node.kids[1]) \o
                When(Len(node.kids) = 3, QuantifierRange(node)) \o
                Under(1, AstMutations(node.kids[1]))
         [] node.kind = "re_dot"      ->
                Mutation("regex_dot_to_charclass", Leaf("re_perl", "\\w"))
         [] node.kind = "re_group"    ->
                When(node.text = "(",
                     Mutation("regex_group_to_noncapturing", [node EXCEPT !.text = "(?:"])) \o
                Below
         [] node.kind = "re_alt"      ->
                RemovedBranch(node) \o Below
         [] node.kind = "re_concat"   -> Below
         [] OTHER -> <<>>

\* What a scan of the text finds: every shorthand class and every lookaround, wherever.
RECURSIVE Scanned(_, _, _)
Scanned(node, operator, swaps) ==
    When(node.kind \in {"re_perl", "re_look"} /\ node.text \in DOMAIN swaps,
         Mutation(operator, [node EXCEPT !.text = swaps[@]])) \o
    Gather(LAMBDA i : Under(i, Scanned(node.kids[i], operator, swaps)), node.kids)

\* The first and the last piece of a pattern, as a path.
Edge(node, i) == IF node.kind = "re_concat" /\ node.kids # <<>> THEN <<i>> ELSE <<>>

\* An anchor at the very start or the very end of the text.
EdgeAnchor(node, text, i) ==
    LET piece == IF Edge(node, i) = <<>> THEN node ELSE node.kids[i]
    IN When(piece = Leaf("re_anchor", text),
            << [operator |-> "regex_anchor_removal", at |-> Edge(node, i), new |-> Empty] >>)

RECURSIVE Mentions(_, _)
Mentions(node, kind) ==
    node.kind = kind \/ \E i \in DOMAIN node.kids : Mentions(node.kids[i], kind)

\* A mutation found twice is kept twice.
PushAlways(ms, m) == Append(ms, m)

\* maybe_push_unique: same span, same operator.
PushUnique(ms, m) ==
    IF \E i \in DOMAIN ms : ms[i].at = m.at /\ ms[i].operator = m.operator
    THEN ms ELSE Append(ms, m)

\* collect_regex_mutations: regex-syntax does not parse a pattern with a lookaround, the
\* text-based pass always runs.
RegexMutations(node) ==
    LET ast  == When(~Mentions(node, "re_look"), AstMutations(node))
        text == EdgeAnchor(node, "^", 1) \o
                EdgeAnchor(node, "$", IF node.kids = <<>> THEN 1 ELSE Len(node.kids)) \o
                Scanned(node, "regex_shorthand_negation", Negated)
    IN FoldLeft(PushUnique, ast, text) \o Scanned(node, "regex_lookaround_negation", Turned)
=============================================================================
