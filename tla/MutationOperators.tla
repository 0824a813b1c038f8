------------------------- MODULE MutationOperators -------------------------
(***************************************************************************)
(* What collect_node_mutations of src/src/tree_sitter_mutation.rs makes of *)
(* a function: the mutations of every node, each a place (a path, for the  *)
(* byte span) and the node put there.  A node is a kind of tree-sitter's,  *)
(* a text (an operator, a name, a literal) and its children by position:   *)
(*   function_definition  parameters, then the "block" of its body         *)
(*   default_parameter    <<value>>      identifier  a parameter or a name *)
(*   call                 <<function, argument ...>>                       *)
(*   keyword_argument     text name, <<value>>                             *)
(*   attribute            text name, <<object>>                            *)
(*   if/elif/while        <<condition, block>>  assert  <<condition, ...>> *)
(*   for_statement        <<target, iterable, block>>                      *)
(*   assignment           <<target, value>>  augmented_assignment  text op *)
(*   conditional_expression  <<body, condition, alternative>>              *)
(*   slice                text ":" or "::", <<start, stop, step>>          *)
(*   match_statement      <<subject, case_clause ...>>                     *)
(*   string               text the prefix, "" or "r", or "long" where it   *)
(*                        takes more than a plain pair of quotes;          *)
(*                        <<contents>>, or <<>> for the empty string       *)
(***************************************************************************)
EXTENDS RegexOperators, FiniteSets, TLC

Absent    == Leaf("absent", "")
None      == Leaf("none", "None")
Bool(b)   == Leaf(IF b = "True" THEN "true" ELSE "false", b)
NoString  == Leaf("string", "")
Pass      == Leaf("pass_statement", "pass")
EmptyList == Leaf("list", "[]")
Not(n)    == Node("not_operator", "not", <<n>>)

\* A decimal literal, and the value of the ones that i64 parses.
Decimal(i) == Leaf("integer", ToString(i))
ValueOf == [t \in {ToString(i) : i \in 0..9} |-> CHOOSE i \in 0..9 : ToString(i) = t]

BINOP_SWAPS ==
    ("+" :> "-") @@ ("-" :> "+") @@ ("*" :> "/") @@ ("/" :> "*") @@ ("//" :> "/") @@
    ("%" :> "/") @@ ("**" :> "*") @@ ("<<" :> ">>") @@ (">>" :> "<<") @@
    ("&" :> "|") @@ ("|" :> "&") @@ ("^" :> "&")

AUGOP_SWAPS ==
    ("+=" :> "-=") @@ ("-=" :> "+=") @@ ("*=" :> "/=") @@ ("/=" :> "*=") @@
    ("//=" :> "/=") @@ ("%=" :> "/=") @@ ("**=" :> "*=") @@ ("<<=" :> ">>=") @@
    (">>=" :> "<<=") @@ ("&=" :> "|=") @@ ("|=" :> "&=") @@ ("^=" :> "&=")

BOOLOP_SWAPS == ("and" :> "or") @@ ("or" :> "and")

\* The rows of the ordinal operators, and of the others.
OrdinalRows ==
    ("==" :> <<"<", ">">>) @@ ("!=" :> <<"<=", ">=">>) @@
    (">" :> <<">=", "!=">>) @@ (">=" :> <<">", "==">>) @@
    ("<" :> <<"<=", "!=">>) @@ ("<=" :> <<"<", "==">>)

OtherRows ==
    ("is not" :> <<"is">>) @@ ("is" :> <<"is not">>) @@
    ("not in" :> <<"in">>) @@ ("in" :> <<"not in">>)

\* The row of > written as a plain reversal.
CompopSlip == [OrdinalRows EXCEPT ![">"] = <<"<", "!=">>] @@ OtherRows

COMPOP_SUFFICIENT == OrdinalRows @@ OtherRows

COMPOP_KAMINSKI_BOOL ==
    ("==" :> "False") @@ ("!=" :> "True") @@ (">" :> "False") @@
    (">=" :> "True") @@ ("<" :> "False") @@ ("<=" :> "True")

METHOD_SWAPS ==
    ("lower" :> "upper") @@ ("upper" :> "lower") @@ ("lstrip" :> "rstrip") @@
    ("rstrip" :> "lstrip") @@ ("find" :> "rfind") @@ ("rfind" :> "find") @@
    ("ljust" :> "rjust") @@ ("rjust" :> "ljust") @@ ("index" :> "rindex") @@
    ("rindex" :> "index") @@ ("partition" :> "rpartition") @@
    ("rpartition" :> "partition") @@ ("removeprefix" :> "removesuffix") @@
    ("removesuffix" :> "removeprefix")

CONDITIONAL_METHOD_SWAPS == ("split" :> "rsplit") @@ ("rsplit" :> "split")

RE_PATTERN_FUNCTIONS ==
    {"compile", "match", "search", "findall", "finditer", "fullmatch", "sub", "subn", "split"}

ARID_CALL_TARGETS ==
    {Node("attribute", level, <<Leaf("identifier", object)>>) :
        level \in {"debug", "info", "warning", "error", "critical", "exception", "log"},
        object \in {"logging", "logger"}} \cup
    {Node("attribute", "warn", <<Leaf("identifier", "warnings")>>)}

-----------------------------------------------------------------------------
(* Operators                                                                *)

\* The replacement of the operator or name of a node.
Swap(operator, swaps, n) ==
    When(n.text \in DOMAIN swaps, Mutation(operator, [n EXCEPT !.text = swaps[@]]))

BinaryOperator(n) ==
    When(~(n.text = "+" /\ \E i \in DOMAIN n.kids : n.kids[i].kind = "string"),
         Swap("binop_swap", BINOP_SWAPS, n))

IsLenComparedToZero(n) ==
    /\ n.kids[1].kind = "call" /\ n.kids[1].kids[1] = Leaf("identifier", "len")
    /\ n.kids[2] = Decimal(0)

\* Against zero, two replacements for len() are left out as equivalent.
Comparison(n) ==
    LET kept == IF IsLenComparedToZero(n)
                THEN SelectSeq(COMPOP_SUFFICIENT[n.text],
                               LAMBDA r : <<n.text, r>> \notin { <<">", ">=">>, <<"<=", "<">> })
                ELSE COMPOP_SUFFICIENT[n.text]
    IN Gather(LAMBDA i : Mutation("compop_swap", [n EXCEPT !.text = kept[i]]), kept)

UnaryOperator(n) ==
    CASE n.text = "~" -> Mutation("unary_removal", n.kids[1])
      [] n.text = "+" -> Mutation("unary_swap", [n EXCEPT !.text = "-"])
      [] n.text = "-" -> Mutation("unary_swap", [n EXCEPT !.text = "+"])

\* The two literals of each other; deepcopy by any role of the name.
LiteralName(n) == Mutation("name_swap", Bool(IF n.text = "True" THEN "False" ELSE "True"))
Identifier(n)  == Swap("name_swap", "deepcopy" :> "copy", n)

\* Hexadecimal and the like do not parse.
Integer(n) ==
    When(n.text \in DOMAIN ValueOf,
         LET value == ValueOf[n.text]
         IN Mutation("number_mutation", Decimal(value + 1)) \o
            When(value # 0, Mutation("constant_replacement", Decimal(0))) \o
            When(value > 0, Mutation("constant_replacement", Leaf("integer", "-" \o n.text))))

FloatPlusOne == ("0.0" :> "1") @@ ("1.5" :> "2.5")

Float(n) ==
    When(n.text \in DOMAIN FloatPlusOne,
         Mutation("number_mutation", Leaf("float", FloatPlusOne[n.text])) \o
         When(n.text # "0.0",
              Mutation("constant_replacement", Leaf("float", "0.0")) \o
              Mutation("constant_replacement", Leaf("float", "-" \o n.text))))

\* Only a string between a plain pair of quotes, with something in it.
String(n) ==
    When(n.text \in {"", "r"} /\ n.kids # <<>>,
         Mutation("string_emptying", Node("string", n.text, IF n.text = "r" THEN <<Empty>> ELSE <<>>)))

\* A replacement for a value: None, or the empty string for None itself.
NoneFor(value) == IF value = None THEN NoString ELSE None

Return(n) == When(n.kids # <<>>, Under(1, Mutation("return_value", NoneFor(n.kids[1]))))

RECURSIVE StartsWithSelf(_)
StartsWithSelf(n) ==
    \/ n.kind = "attribute" /\ n.kids[1] = Leaf("identifier", "self")
    \/ /\ n.kind \in {"attribute", "subscript", "assignment", "call"}
       /\ StartsWithSelf(n.kids[1])

IsAridCall(n) == n.kind = "call" /\ n.kids[1] \in ARID_CALL_TARGETS

ExpressionStatement(n) ==
    When(/\ n.kids[1].kind \notin {"string", "augmented_assignment"}
         /\ ~(n.kids[1].kind = "assignment" /\ StartsWithSelf(n.kids[1]))
         /\ ~IsAridCall(n.kids[1]),
         Mutation("statement_deletion", Pass))

\* Of a chain, only the innermost assignment.
Assignment(n) ==
    LET value == n.kids[Len(n.kids)]
    IN When(value.kind # "assignment",
            Mutation("assignment_mutation", [n EXCEPT !.kids[Len(n.kids)] = NoneFor(value)]))

AugmentedAssignment(n) ==
    Swap("augop_swap", AUGOP_SWAPS, n) \o
    Mutation("augassign_to_assign", Node("assignment", "=", n.kids))

IsOrdinal(condition) ==
    condition.kind = "comparison_operator" /\ condition.text \in DOMAIN COMPOP_KAMINSKI_BOOL

Negation(i, condition) ==
    When(condition.kind # "not_operator",
         Under(i, Mutation("condition_negation", Not(condition))))

\* The negation of an ordinal comparison adds nothing to the swaps of its operator.
ConditionNegation(n) == When(~IsOrdinal(n.kids[1]), Negation(1, n.kids[1]))

\* One boolean for an ordinal comparison, both for the others.
ConditionReplacement(n) ==
    LET condition == n.kids[1]
        Replaced(b) == When(condition # Bool(b), Under(1, Mutation("condition_replacement", Bool(b))))
    IN IF IsOrdinal(condition) THEN Replaced(COMPOP_KAMINSKI_BOOL[condition.text])
       ELSE Replaced("True") \o Replaced("False")

Loop(n) ==
    CASE n.kind = "for_statement" ->
            When(n.kids[2] # EmptyList, Under(2, Mutation("loop_mutation", EmptyList)))
      [] n.kind = "while_statement" ->
            When(n.kids[1] # Bool("False"), Under(1, Mutation("loop_mutation", Bool("False"))))
      [] OTHER -> <<>>

Keyword(n) ==
    Mutation("keyword_swap", IF n.kind = "break_statement" THEN Leaf("continue_statement", "continue")
                             ELSE Leaf("break_statement", "break"))

\* except <type>, except <type> as <name>, or a bare except.
ExceptionType(n) ==
    LET named == n.kids[1].kind = "as_pattern"
        type  == IF named THEN n.kids[1].kids[1] ELSE n.kids[1]
        widened == Mutation("exception_type", Leaf("identifier", "Exception"))
    IN When(n.kids[1].kind # "block" /\ type # Leaf("identifier", "Exception"),
            Under(1, IF named THEN Under(1, widened) ELSE widened))

Raise(n) == When(n.kids # <<>>, Mutation("statement_deletion", Pass))

Lambda(n) ==
    Mutation("lambda_mutation",
             [n EXCEPT !.kids = <<IF @[1] = None THEN Decimal(0) ELSE None>>])

\* The branches trade places, where the result is another program and still parses.
TernarySwap(n, parent) ==
    When(/\ n.kids[1] # n.kids[3]
         /\ \A i \in {1, 3} : ~Mentions(n.kids[i], "named_expression")
         /\ parent # "with_item",
         Mutation("ternary_swap", [n EXCEPT !.kids = Reverse(@)]))

SliceIndexRemoval(n) ==
    LET Slice(k) == LET slice == n.kids[k]
                    IN When(slice.kind = "slice",
                            Gather(LAMBDA i : When(slice.kids[i] # Absent,
                                       Under(k, Mutation("slice_index_removal",
                                                         [slice EXCEPT !.kids[i] = Absent]))),
                                   slice.kids))
    IN Gather(Slice, n.kids)

Arguments(n) == Tail(n.kids)

NEVER_MUTATE_FUNCTION_CALLS == {Leaf("identifier", "len"), Leaf("identifier", "isinstance")}

\* A keyword argument that is None already is written again as it is.
ArgRemoval(n) ==
    LET Removed(i) ==
            LET arg == n.kids[i]
            IN When(i > 1 /\ arg.kind \notin {"list_splat", "dictionary_splat"} /\ arg # None,
                    Mutation("arg_removal",
                             [n EXCEPT !.kids[i] =
                                 IF arg.kind = "keyword_argument" THEN [arg EXCEPT !.kids = <<None>>]
                                 ELSE None]))
    IN When(/\ n.kids[1] \notin NEVER_MUTATE_FUNCTION_CALLS
            /\ \A i \in DOMAIN n.kids : n.kids[i].kind \notin {"for_in_clause", "if_clause"},
            Gather(Removed, n.kids))

\* inspect_call_arguments: split is swapped where the number of splits is given.
LimitsSplits(n) ==
    \/ Len(SelectSeq(Arguments(n), LAMBDA a :
            a.kind \notin {"keyword_argument", "list_splat", "dictionary_splat"})) = 2
    \/ \E i \in DOMAIN n.kids : n.kids[i].kind = "keyword_argument" /\ n.kids[i].text = "maxsplit"

Method(n) ==
    When(n.kids[1].kind = "attribute",
         Under(1, Swap("method_swap", METHOD_SWAPS, n.kids[1]) \o
                  When(LimitsSplits(n), Swap("method_swap", CONDITIONAL_METHOD_SWAPS, n.kids[1]))))

DictKwarg(n) ==
    When(n.kids[1] = Leaf("identifier", "dict"),
         Gather(LAMBDA i : When(n.kids[i].kind = "keyword_argument",
                    Under(i, Mutation("dict_kwarg", [n.kids[i] EXCEPT !.text = @ \o "XX"]))),
                n.kids))

\* The first positional argument of a function of re or regex; keywords may precede it.
RegexCall(n) ==
    LET positional == SelectSeq([i \in DOMAIN n.kids |-> i],
                                LAMBDA i : i > 1 /\ n.kids[i].kind # "keyword_argument")
        function == n.kids[1]
        pattern  == n.kids[positional[1]]
    IN When(/\ function.kind = "attribute"
            /\ function.kids[1] \in {Leaf("identifier", "re"), Leaf("identifier", "regex")}
            /\ function.text \in RE_PATTERN_FUNCTIONS
            /\ positional # <<>>
            /\ pattern.kind = "string" /\ pattern.text = "r" /\ pattern.kids # <<>>,
            Under(positional[1], Under(1, RegexMutations(pattern.kids[1]))))

\* One case fewer, where two or more are there.
MatchCaseRemoval(n) ==
    When(Len(n.kids) > 2,
         Gather(LAMBDA i : When(i > 1, Mutation("match_case_removal", [n EXCEPT !.kids = RemoveAt(@, i)])),
                n.kids))

-----------------------------------------------------------------------------
(* The walk                                                                 *)

\* The mutations of a node itself, by its kind.
NodeMutations(n, parent) ==
    CASE n.kind = "binary_operator"      -> BinaryOperator(n)
      [] n.kind = "boolean_operator"     -> Swap("boolop_swap", BOOLOP_SWAPS, n)
      [] n.kind = "comparison_operator"  -> Comparison(n)
      [] n.kind = "not_operator"         -> Mutation("unary_removal", n.kids[1])
      [] n.kind = "unary_operator"       -> UnaryOperator(n)
      [] n.kind \in {"identifier", "attribute", "keyword_argument"} -> Identifier(n)
      [] n.kind \in {"true", "false"}    -> LiteralName(n)
      [] n.kind = "integer"              -> Integer(n)
      [] n.kind = "float"                -> Float(n)
      [] n.kind = "string"               -> String(n)
      [] n.kind = "return_statement"     -> Return(n)
      [] n.kind = "expression_statement" -> ExpressionStatement(n)
      [] n.kind = "assignment"           -> Assignment(n)
      [] n.kind = "augmented_assignment" -> AugmentedAssignment(n)
      [] n.kind \in {"if_statement", "elif_clause", "while_statement"} ->
            ConditionNegation(n) \o ConditionReplacement(n) \o Loop(n)
      [] n.kind = "assert_statement"     -> Negation(1, n.kids[1])
      [] n.kind = "for_statement"        -> Loop(n)
      [] n.kind \in {"break_statement", "continue_statement"} -> Keyword(n)
      [] n.kind = "except_clause"        -> ExceptionType(n)
      [] n.kind = "call"                 ->
            ArgRemoval(n) \o Method(n) \o DictKwarg(n) \o RegexCall(n)
      [] n.kind = "match_statement"      -> MatchCaseRemoval(n)
      [] n.kind = "raise_statement"      -> Raise(n)
      [] n.kind = "lambda"               -> Lambda(n)
      [] n.kind = "conditional_expression" -> TernarySwap(n, parent) \o Negation(2, n.kids[2])
      [] n.kind = "subscript"            -> SliceIndexRemoval(n)
      [] OTHER -> <<>>

\* A nested function or class is left alone.
RECURSIVE Collect(_, _)
Collect(n, parent) ==
    IF n.kind \in {"function_definition", "class_definition"} THEN <<>>
    ELSE NodeMutations(n, parent) \o
         Gather(LAMBDA i : Under(i, Collect(n.kids[i], n.kind)), n.kids)

\* compute_default_replacement, by the text of the default.
DefaultReplacement(value) ==
    CASE value = None -> NoString
      [] value.kind \in {"true", "false"} -> Bool(IF value.text = "True" THEN "False" ELSE "True")
      [] value.kind = "integer" /\ value.text \in DOMAIN ValueOf -> Decimal(ValueOf[value.text] + 1)
      [] value = Node("unary_operator", "-", <<Decimal(1)>>) -> Decimal(0)
      [] value.kind = "string" /\ value.text = "" ->
            [value EXCEPT !.kids = << Leaf("string_content", "XX") >> \o @]
      [] OTHER -> None

\* collect_function_mutations: the defaults, then the body.
FunctionMutations(function) ==
    Gather(LAMBDA i : When(function.kids[i].kind = "default_parameter",
               Under(i, Under(1, Mutation("default_arg", DefaultReplacement(function.kids[i].kids[1]))))),
           function.kids) \o
    Under(Len(function.kids), Collect(function.kids[Len(function.kids)], function.kind))

\* apply_mutation
RECURSIVE Put(_, _, _)
Put(n, at, new) ==
    IF at = <<>> THEN new
    ELSE [n EXCEPT !.kids[at[1]] = Put(@, Tail(at), new)]

RECURSIVE NodeAt(_, _)
NodeAt(n, at) == IF at = <<>> THEN n ELSE NodeAt(n.kids[at[1]], Tail(at))

ApplyMutation(function, m) == Put(function, m.at, m.new)
=============================================================================
