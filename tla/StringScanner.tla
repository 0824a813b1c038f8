--------------------------- MODULE StringScanner ---------------------------
(***************************************************************************)
(* The scanner of src/src/string_scanner.rs, with which the generators     *)
(* split a parameter list and find the end of a signature, and the comment *)
(* stripper of src/src/trampoline.rs.  A text is a sequence of the         *)
(* characters they tell apart:                                             *)
(*   single, double  the quotes        escape  a backslash                 *)
(*   open, close     a bracket         comma   the separator               *)
(*   hash            starts a comment  other   anything else               *)
(* Lexed is what Python's tokenizer makes of the same text.                *)
(***************************************************************************)
EXTENDS Integers, Sequences

Quotes == {"single", "double"}

\* Three of a quote from i on.
Triple(text, i, q) == i + 2 <= Len(text) /\ \A k \in i..i + 2 : text[k] = q

\* The scanner: the next position, the quote it is in ("" outside a string), whether the
\* next character is escaped, the bracket depth, the separators found at depth 0.
Start == [pos |-> 1, in |-> "", escape |-> FALSE, depth |-> 0, splits |-> {}]

\* Scanner::next.  A triple quote is one item, when it opens and when it closes; in between
\* the scanner does not remember how its string was opened.
Item(text, commentAware, s) ==
    LET c      == text[s.pos]
        over   == [s EXCEPT !.pos = @ + 1]
        quoted == [s EXCEPT !.pos = @ + (IF Triple(text, s.pos, c) THEN 3 ELSE 1),
                            !.in = IF @ = "" THEN c ELSE ""]
    IN IF s.pos > Len(text) THEN s
       ELSE IF s.escape THEN [over EXCEPT !.escape = FALSE]
       ELSE IF c = "escape" /\ s.in # "" THEN [over EXCEPT !.escape = TRUE]
       ELSE IF c \in Quotes /\ s.in \in {"", c} THEN quoted
       ELSE IF s.in # "" THEN over
       ELSE CASE c = "hash" /\ commentAware -> [s EXCEPT !.pos = Len(text) + 1]
              [] c = "open"  -> [over EXCEPT !.depth = @ + 1]
              [] c = "close" -> [over EXCEPT !.depth = @ - 1]
              [] c = "comma" /\ s.depth = 0 -> [over EXCEPT !.splits = @ \cup {s.pos}]
              [] OTHER -> over

\* A backslash hides nothing.
ItemUnescaped(text, commentAware, s) == Item(text, commentAware, [s EXCEPT !.escape = FALSE])

Next(text, commentAware, s) == Item(text, commentAware, s)

\* Every step takes at least one character.
Scan(text, commentAware) ==
    LET s[i \in 0..Len(text)] ==
            IF i = 0 THEN Start ELSE Next(text, commentAware, s[i - 1])
    IN s[Len(text)]

\* paren_depth_change and split_all_at_depth0: where the text is split.
ParenDepthChange(text) == Scan(text, TRUE).depth
SplitsAtDepth0(text)   == Scan(text, FALSE).splits

\* strip_inline_comments: where the comment begins, past the end if there is none.
SeekComment(text, s) ==
    LET c == text[s.pos]
    IN IF s.pos > Len(text) \/ (c = "hash" /\ s.in = "") THEN s
       ELSE IF c = "escape" THEN [s EXCEPT !.pos = @ + 2]
       ELSE IF c \in Quotes /\ s.in \in {"", c}
       THEN [s EXCEPT !.pos = @ + 1, !.in = IF @ = "" THEN c ELSE ""]
       ELSE [s EXCEPT !.pos = @ + 1]

CommentStart(text) ==
    LET s[i \in 0..Len(text)] ==
            IF i = 0 THEN [pos |-> 1, in |-> ""] ELSE SeekComment(text, s[i - 1])
    IN s[Len(text)].pos

StripInlineComments(text) ==
    IF CommentStart(text) > Len(text) THEN text ELSE SubSeq(text, 1, CommentStart(text) - 1)

-----------------------------------------------------------------------------
(* Python's own reading                                                    *)

\* long: the string is triple-quoted.  odd: it holds a quote of its own kind.  bad: no
\* token begins with this character.
LexStart == [pos |-> 1, in |-> "", long |-> FALSE, depth |-> 0, splits |-> {},
             comment |-> 0, odd |-> FALSE, bad |-> FALSE]

LexString(text, s) ==
    LET c == text[s.pos]
    IN CASE c = "escape" -> [s EXCEPT !.pos = @ + 2]
         [] c = s.in /\ ~s.long -> [s EXCEPT !.pos = @ + 1, !.in = ""]
         [] c = s.in /\ s.long /\ Triple(text, s.pos, c) -> [s EXCEPT !.pos = @ + 3, !.in = ""]
         [] c = s.in /\ s.long /\ ~Triple(text, s.pos, c) -> [s EXCEPT !.pos = @ + 1, !.odd = TRUE]
         [] OTHER -> [s EXCEPT !.pos = @ + 1]

LexToken(text, s) ==
    LET c == text[s.pos]
        over == [s EXCEPT !.pos = @ + 1]
    IN CASE c \in Quotes /\ Triple(text, s.pos, c) ->
                [s EXCEPT !.pos = @ + 3, !.in = c, !.long = TRUE]
         [] c \in Quotes /\ ~Triple(text, s.pos, c) -> [over EXCEPT !.in = c, !.long = FALSE]
         [] c = "hash"   -> [s EXCEPT !.comment = s.pos, !.pos = Len(text) + 1]
         [] c = "escape" -> [over EXCEPT !.bad = TRUE]
         [] c = "open"   -> [over EXCEPT !.depth = @ + 1]
         [] c = "close"  -> [over EXCEPT !.depth = @ - 1]
         [] c = "comma" /\ s.depth = 0 -> [over EXCEPT !.splits = @ \cup {s.pos}]
         [] OTHER        -> over

Lex(text, s) ==
    IF s.pos > Len(text) THEN s
    ELSE IF s.in = "" THEN LexToken(text, s) ELSE LexString(text, s)

Lexed(text) ==
    LET s[i \in 0..Len(text)] ==
            IF i = 0 THEN LexStart ELSE Lex(text, s[i - 1])
    IN s[Len(text)]

\* The text is a sequence of whole tokens.
WellFormed(text) == Lexed(text).in = "" /\ ~Lexed(text).bad
=============================================================================
