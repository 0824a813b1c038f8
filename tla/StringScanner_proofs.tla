------------------------ MODULE StringScanner_proofs ------------------------
(***************************************************************************)
(* Proofs about StringScanner: in a text of whole tokens of Python, whose  *)
(* triple-quoted strings hold no quote of their own kind, the scanner of   *)
(* string_scanner.rs and the comment stripper of trampoline.rs find what   *)
(* Python's lexer finds.  The lexer reads a token at a time, the scanner a *)
(* character or three quotes: the scanner stays Beside the lexer, the      *)
(* stripper is where the lexer is between tokens.                          *)
(***************************************************************************)
EXTENDS StringScanner, SequenceTheorems, WellFoundedInduction, TLAPS

-----------------------------------------------------------------------------
(* Induction                                                                *)

\* A set with 0 and the successor of each of its members has all the numbers.
LEMMA SetInduction ==
  ASSUME NEW S, 0 \in S, \A n \in Nat : n \in S => n + 1 \in S
  PROVE  Nat \subseteq S
<1>1. IsWellFoundedOn(OpToRel(<, Nat), Nat)
  BY NatLessThanWellFounded
<1> DEFINE R == OpToRel(<, Nat)
           T == Nat \ S
<1>2. ASSUME T # {} PROVE FALSE
  <2>1. \E x \in T : \A y \in T : ~ (<<y, x>> \in R)
    <3>1. T \subseteq Nat
      OBVIOUS
    <3>2. IsWellFoundedOn(R, Nat)
      BY <1>1
    <3> HIDE DEF R, T
    <3> QED BY <1>2, <3>1, <3>2, WFMin
  <2>2. PICK x \in T : \A y \in T : ~ (<<y, x>> \in R)
    BY <2>1
  <2>3. x # 0 /\ x \in Nat
    OBVIOUS
  <2>4. x - 1 \in T
    OBVIOUS
  <2>5. <<x - 1, x>> \in R
    BY <2>3 DEF OpToRel
  <2> QED
    BY <2>2, <2>4, <2>5
<1> QED
  BY <1>2

\* f begins at b and takes the steps of step.
Steps(f, n, V, b, step) ==
  /\ f \in [0..n -> V]
  /\ f[0] = b
  /\ \A i \in 1..n : f[i] = step[i][f[i - 1]]

\* There is a function that takes given steps.
LEMMA Recursion ==
  ASSUME NEW n \in Nat, NEW V, NEW b \in V, NEW step \in [1..n -> [V -> V]]
  PROVE  \E f : Steps(f, n, V, b, step)
<1> DEFINE Good(m) == \E f \in [0..m -> V] : /\ f[0] = b
                                            /\ \A i \in 1..m : f[i] = step[i][f[i - 1]]
           S == {m \in Nat : m <= n => Good(m)}
<1>1. Good(0)
  <2> DEFINE f0 == [i \in 0..0 |-> b]
  <2>1. f0 \in [0..0 -> V] /\ f0[0] = b
    OBVIOUS
  <2>2. \A i \in 1..0 : f0[i] = step[i][f0[i - 1]]
    OBVIOUS
  <2> HIDE DEF f0
  <2> QED BY <2>1, <2>2
<1>2. ASSUME NEW m \in Nat, Good(m), m + 1 <= n PROVE Good(m + 1)
  <2>1. PICK f \in [0..m -> V] : /\ f[0] = b
                                 /\ \A i \in 1..m : f[i] = step[i][f[i - 1]]
    BY <1>2
  <2> DEFINE g == [i \in 0..m + 1 |-> IF i = m + 1 THEN step[m + 1][f[m]] ELSE f[i]]
  <2>2. /\ g \in [0..m + 1 -> V] /\ g[m + 1] = step[m + 1][f[m]]
        /\ \A i \in 0..m : g[i] = f[i]
    BY <1>2
  <2>3. g[0] = b
    BY <2>1, <2>2
  <2>4. ASSUME NEW i \in 1..m + 1 PROVE g[i] = step[i][g[i - 1]]
    <3> HIDE DEF g
    <3>1. CASE i = m + 1
      <4>1. i - 1 = m /\ m \in 0..m
        BY <3>1
      <4> QED BY <2>2, <3>1, <4>1
    <3>2. CASE i # m + 1
      <4>1. i \in 1..m /\ i \in 0..m /\ i - 1 \in 0..m
        BY <3>2
      <4> QED BY <2>1, <2>2, <4>1
    <3> QED BY <3>1, <3>2
  <2> HIDE DEF g
  <2> QED BY <2>2, <2>3, <2>4
<1>3. \A m \in Nat : m \in S => m + 1 \in S
  <2> HIDE DEF Good
  <2> QED BY <1>2
<1>4. 0 \in S
  <2> HIDE DEF Good
  <2> QED BY <1>1
<1>5. n \in S
  <2> HIDE DEF S
  <2> QED BY <1>3, <1>4, SetInduction
<1> QED BY <1>5 DEF Steps

\* f is a function over 0..n.
IsOver(f, n) == f = [i \in 0..n |-> f[i]]

\* What begins as f does and goes on as f does is f.
LEMMA SameSteps ==
  ASSUME NEW n \in Nat, NEW f, NEW g, IsOver(f, n), IsOver(g, n),
         g[0] = f[0], \A i \in 1..n : g[i - 1] = f[i - 1] => g[i] = f[i]
  PROVE  g = f
<1> DEFINE T == {i \in Nat : i <= n => g[i] = f[i]}
<1>1. ASSUME NEW i \in Nat, i \in T PROVE i + 1 \in T
  <2> SUFFICES ASSUME i + 1 <= n PROVE g[i + 1] = f[i + 1]
    OBVIOUS
  <2>1. i + 1 \in 1..n /\ (i + 1) - 1 = i /\ g[i] = f[i]
    BY <1>1
  <2> QED BY <2>1
<1>2. Nat \subseteq T
  <2>1. 0 \in T
    OBVIOUS
  <2> HIDE DEF T
  <2> QED BY <1>1, <2>1, SetInduction
<1>3. \A i \in 0..n : i \in Nat /\ i <= n
  OBVIOUS
<1>4. \A i \in 0..n : g[i] = f[i]
  BY <1>2, <1>3
<1> QED BY <1>4 DEF IsOver

-----------------------------------------------------------------------------
(* Steps                                                                    *)

\* The values of the fields and of the characters, by names that the provers take for terms.
With(x, p) == x \cup {p}
Whole(l) == ~l.bad /\ ~l.odd
Aware == TRUE
None  == ""
Long  == TRUE
Short == FALSE
Escape == "escape"
Hash   == "hash"
Open   == "open"
Close  == "close"
Comma  == "comma"
Lengths == {Long, Short}

\* The scanner before a character, and after a backslash.
At(p, q, d, x)      == [pos |-> p, in |-> q, escape |-> FALSE, depth |-> d, splits |-> x]
Escaped(p, q, d, x) == [pos |-> p, in |-> q, escape |-> TRUE, depth |-> d, splits |-> x]

\* The lexer before any comment, with nothing odd or bad so far.
Lexing(p, q, long, d, x) ==
  [pos |-> p, in |-> q, long |-> long, depth |-> d, splits |-> x,
   comment |-> 0, odd |-> FALSE, bad |-> FALSE]

\* The lexer past the comment at c, at the end of a text of n characters.
Commented(c, long, d, x, n) ==
  [pos |-> n + 1, in |-> None, long |-> long, depth |-> d, splits |-> x,
   comment |-> c, odd |-> FALSE, bad |-> FALSE]

\* What the scanner does with a character outside a string.
LEMMA ScanOutside ==
  ASSUME NEW t, NEW a, NEW p \in Nat, NEW d \in Int, NEW x, ~(p > Len(t)),
         NEW next, next = Next(t, a, At(p, None, d, x))
  PROVE  /\ t[p] \in Quotes /\ Triple(t, p, t[p]) => next = At(p + 3, t[p], d, x)
         /\ t[p] \in Quotes /\ ~Triple(t, p, t[p]) => next = At(p + 1, t[p], d, x)
         /\ t[p] = Open => next = At(p + 1, None, d + 1, x)
         /\ t[p] = Close => next = At(p + 1, None, d - 1, x)
         /\ t[p] = Comma /\ d = 0 => next = At(p + 1, None, d, With(x, p))
         /\ t[p] = Comma /\ d # 0 => next = At(p + 1, None, d, x)
         /\ t[p] \notin Quotes \cup {Hash, Open, Close, Comma} =>
              next = At(p + 1, None, d, x)
BY DEF Next, Item, Quotes, At, Escaped, With, None, Escape, Hash, Open, Close, Comma

\* A comment, if it looks for one.
LEMMA ScanComment ==
  ASSUME NEW t, NEW p \in Nat, NEW d \in Int, NEW x, ~(p > Len(t)), t[p] = Hash,
         NEW next, next = Next(t, Aware, At(p, None, d, x))
  PROVE  next = At(Len(t) + 1, None, d, x)
BY DEF Next, Item, Quotes, At, None, Hash, Aware

\* What it does within one.
LEMMA ScanInside ==
  ASSUME NEW t, NEW a, NEW p \in Nat, NEW d \in Int, NEW x, NEW q \in Quotes,
         ~(p > Len(t)),
         NEW next, next = Next(t, a, At(p, q, d, x))
  PROVE  /\ t[p] = Escape => next = Escaped(p + 1, q, d, x)
         /\ t[p] = q /\ Triple(t, p, q) => next = At(p + 3, None, d, x)
         /\ t[p] = q /\ ~Triple(t, p, q) => next = At(p + 1, None, d, x)
         /\ t[p] \notin {Escape, q} => next = At(p + 1, q, d, x)
         /\ Next(t, a, Escaped(p, q, d, x)) = At(p + 1, q, d, x)
BY DEF Next, Item, Quotes, At, Escaped, With, None, Escape, Hash, Open, Close, Comma

\* What the lexer does with a token.
LEMMA LexOutside ==
  ASSUME NEW t, NEW p \in Nat, NEW long, NEW d \in Int, NEW x, ~(p > Len(t)),
         NEW next, next = Lex(t, Lexing(p, None, long, d, x))
  PROVE  /\ t[p] \in Quotes /\ Triple(t, p, t[p]) =>
              next = Lexing(p + 3, t[p], Long, d, x)
         /\ t[p] \in Quotes /\ ~Triple(t, p, t[p]) =>
              next = Lexing(p + 1, t[p], Short, d, x)
         /\ t[p] = Hash =>
              next = Commented(p, long, d, x, Len(t))
         /\ t[p] = Escape => ~Whole(next)
         /\ t[p] = Open => next = Lexing(p + 1, None, long, d + 1, x)
         /\ t[p] = Close => next = Lexing(p + 1, None, long, d - 1, x)
         /\ t[p] = Comma /\ d = 0 => next = Lexing(p + 1, None, long, d, With(x, p))
         /\ t[p] = Comma /\ d # 0 => next = Lexing(p + 1, None, long, d, x)
         /\ t[p] \notin Quotes \cup {Hash, Escape, Open, Close, Comma} =>
              next = Lexing(p + 1, None, long, d, x)
BY DEF Lex, LexToken, Quotes, Lexing, With, None, Long, Short, Lengths, Whole,
       Escape, Hash, Open, Close, Comma, Commented

\* What it does within a string.
LEMMA LexInside ==
  ASSUME NEW t, NEW p \in Nat, NEW long \in Lengths, NEW d \in Int, NEW x, NEW q \in Quotes,
         ~(p > Len(t)),
         NEW next, next = Lex(t, Lexing(p, q, long, d, x))
  PROVE  /\ t[p] = Escape => next = Lexing(p + 2, q, long, d, x)
         /\ t[p] = q /\ long = Short => next = Lexing(p + 1, None, long, d, x)
         /\ t[p] = q /\ long = Long /\ Triple(t, p, q) => next = Lexing(p + 3, None, long, d, x)
         /\ t[p] = q /\ long = Long /\ ~Triple(t, p, q) => ~Whole(next)
         /\ t[p] \notin {Escape, q} => next = Lexing(p + 1, q, long, d, x)
BY DEF Lex, LexString, Quotes, Lexing, With, None, Long, Short, Lengths, Whole,
       Escape, Hash, Open, Close, Comma

\* The scanner at the lexer's place, or ahead of it: past two quotes that the lexer takes for an
\* empty string or the beginning of a triple quote, past the second of them, or one behind, before
\* a triple quote of which the lexer has the first.
Same(p, q, r, u) == r = p /\ u = q

\* Past an empty string, or two of a triple quote, that the lexer has still to read.
TwoAhead(t, p, q, r, u) ==
  /\ q = None /\ u = None /\ r = p + 2
  /\ t[p] \in Quotes /\ t[p + 1] = t[p] /\ p + 1 <= Len(t)

\* Past the quote that ends the string the lexer is in.
OneAhead(t, p, q, long, r, u) ==
  /\ q \in Quotes /\ long = Short /\ u = None /\ r = p + 1
  /\ t[p] = q /\ p <= Len(t)

\* Before three quotes, in whose string the lexer is already.
OneBehind(t, p, q, long, r, u) ==
  /\ q \in Quotes /\ long = Long /\ u = None /\ p = r + 1
  /\ t[r] = q /\ Triple(t, r, q)

\* The lexer is at p, in q, and the scanner at r, in u.
Beside(t, p, q, long, r, u) ==
  \/ Same(p, q, r, u)
  \/ TwoAhead(t, p, q, r, u)
  \/ OneAhead(t, p, q, long, r, u)
  \/ OneBehind(t, p, q, long, r, u)

\* The scanner gets from r, in u, to there by a step or two, or none.
GetsTo(t, a, r, u, d, x, s) ==
  LET start == At(r, u, d, x)
      one   == Next(t, a, start)
  IN s \in {start, one, Next(t, a, one)}

\* From r, in u, the scanner gets to a place beside the lexer's state l, with its brackets
\* and separators.
Keeps(t, a, r, u, d, x, l) ==
  \E p, r2 \in Nat, q, u2 \in Quotes \cup {None}, long \in Lengths, d2 \in Int, x2 \in SUBSET Nat :
     /\ l = Lexing(p, q, long, d2, x2)
     /\ Beside(t, p, q, long, r2, u2)
     /\ GetsTo(t, a, r, u, d, x, At(r2, u2, d2, x2))

\* Three of a quote.
LEMMA TripleIs ==
  ASSUME NEW t \in Seq(STRING), NEW p \in Nat, NEW q, Triple(t, p, q)
  PROVE  p + 2 <= Len(t) /\ t[p] = q /\ t[p + 1] = q /\ t[p + 2] = q
<1>1. p \in p..p + 2 /\ p + 1 \in p..p + 2 /\ p + 2 \in p..p + 2
  OBVIOUS
<1> QED BY <1>1 DEF Triple

\* Places, depths and separators stay what they are.
LEMMA NextPlaces ==
  ASSUME NEW p \in Nat, NEW d \in Int, NEW x \in SUBSET Nat
  PROVE  /\ p + 1 \in Nat /\ p + 2 \in Nat /\ p + 3 \in Nat /\ d + 1 \in Int /\ d - 1 \in Int
         /\ With(x, p) \in SUBSET Nat
BY DEF With

\* A step of the scanner that keeps it beside the lexer.
LEMMA OneStep ==
  ASSUME NEW t, NEW a, NEW r, NEW u, NEW d, NEW x,
         NEW p \in Nat, NEW q \in Quotes \cup {None}, NEW long \in Lengths,
         NEW r2 \in Nat, NEW u2 \in Quotes \cup {None},
         NEW d2 \in Int, NEW x2 \in SUBSET Nat,
         Beside(t, p, q, long, r2, u2),
         Next(t, a, At(r, u, d, x)) = At(r2, u2, d2, x2)
  PROVE  Keeps(t, a, r, u, d, x, Lexing(p, q, long, d2, x2))
<1>1. GetsTo(t, a, r, u, d, x, At(r2, u2, d2, x2))
  BY DEF GetsTo
<1> QED BY <1>1 DEF Keeps

\* The same by two steps.
LEMMA TwoSteps ==
  ASSUME NEW t, NEW a, NEW r, NEW u, NEW d, NEW x,
         NEW p \in Nat, NEW q \in Quotes \cup {None}, NEW long \in Lengths,
         NEW r2 \in Nat, NEW u2 \in Quotes \cup {None},
         NEW d2 \in Int, NEW x2 \in SUBSET Nat, NEW mid,
         Beside(t, p, q, long, r2, u2),
         Next(t, a, At(r, u, d, x)) = mid,
         Next(t, a, mid) = At(r2, u2, d2, x2)
  PROVE  Keeps(t, a, r, u, d, x, Lexing(p, q, long, d2, x2))
<1>1. GetsTo(t, a, r, u, d, x, At(r2, u2, d2, x2))
  BY DEF GetsTo
<1> QED BY <1>1 DEF Keeps

\* The same where the scanner waits for the lexer.
LEMMA NoStep ==
  ASSUME NEW t, NEW a, NEW r \in Nat, NEW u \in Quotes \cup {None}, NEW d \in Int,
         NEW x \in SUBSET Nat,
         NEW p \in Nat, NEW q \in Quotes \cup {None}, NEW long \in Lengths,
         Beside(t, p, q, long, r, u)
  PROVE  Keeps(t, a, r, u, d, x, Lexing(p, q, long, d, x))
<1>1. GetsTo(t, a, r, u, d, x, At(r, u, d, x))
  BY DEF GetsTo
<1> QED BY <1>1 DEF Keeps

\* Outside a string and at the same place they stay so.
LEMMA BesideOutside ==
  ASSUME NEW t, NEW a, NEW p \in Nat, ~(p > Len(t)),
         NEW long \in Lengths, NEW d \in Int, NEW x \in SUBSET Nat,
         t[p] # Hash,
         NEW next, next = Lex(t, Lexing(p, None, long, d, x)), Whole(next)
  PROVE  Keeps(t, a, p, None, d, x, next)
<1> DEFINE one == Next(t, a, At(p, None, d, x))
<1>0. /\ p + 1 \in Nat /\ p + 3 \in Nat /\ d + 1 \in Int /\ d - 1 \in Int
      /\ With(x, p) \in SUBSET Nat
  BY NextPlaces
<1>1. (\A r, u, b : Beside(t, r, u, b, r, u)) /\ Long \in Lengths /\ Short \in Lengths
  BY DEF Beside, Same, Lengths
<1>2. CASE t[p] \in Quotes /\ Triple(t, p, t[p])
  <2>1. next = Lexing(p + 3, t[p], Long, d, x)
    BY <1>2, LexOutside
  <2>2. one = At(p + 3, t[p], d, x)
    BY <1>2, ScanOutside
  <2> QED BY <1>0, <1>1, <1>2, <2>1, <2>2, OneStep
<1>3. CASE t[p] \in Quotes /\ ~Triple(t, p, t[p])
  <2>1. next = Lexing(p + 1, t[p], Short, d, x)
    BY <1>3, LexOutside
  <2>2. one = At(p + 1, t[p], d, x)
    BY <1>3, ScanOutside
  <2> QED BY <1>0, <1>1, <1>3, <2>1, <2>2, OneStep
<1>4. CASE t[p] = Open
  <2>1. next = Lexing(p + 1, None, long, d + 1, x)
    BY <1>4, LexOutside
  <2>2. one = At(p + 1, None, d + 1, x)
    BY <1>4, ScanOutside
  <2> QED BY <1>0, <1>1, <2>1, <2>2, OneStep
<1>5. CASE t[p] = Close
  <2>1. next = Lexing(p + 1, None, long, d - 1, x)
    BY <1>5, LexOutside
  <2>2. one = At(p + 1, None, d - 1, x)
    BY <1>5, ScanOutside
  <2> QED BY <1>0, <1>1, <2>1, <2>2, OneStep
<1>6. CASE t[p] = Comma /\ d = 0
  <2>1. next = Lexing(p + 1, None, long, d, With(x, p))
    BY <1>6, LexOutside
  <2>2. one = At(p + 1, None, d, With(x, p))
    BY <1>6, ScanOutside
  <2> QED BY <1>0, <1>1, <2>1, <2>2, OneStep
<1>7. CASE t[p] \notin Quotes \cup {Hash, Escape, Open, Close, Comma}
              \/ (t[p] = Comma /\ d # 0)
  <2>1. next = Lexing(p + 1, None, long, d, x)
    BY <1>7, LexOutside
  <2>2. one = At(p + 1, None, d, x)
    BY <1>7, ScanOutside
  <2> QED BY <1>0, <1>1, <2>1, <2>2, OneStep
<1>8. CASE t[p] = Escape
  <2>1. ~Whole(next)
    BY <1>8, LexOutside
  <2> QED BY <2>1
<1> QED BY <1>2, <1>3, <1>4, <1>5, <1>6, <1>7, <1>8

\* Within a string and at the same place they stay so, unless the string ends where the scanner
\* takes the quote for the first of three.
LEMMA BesideInside ==
  ASSUME NEW t \in Seq(STRING), NEW a, NEW p \in Nat, ~(p > Len(t)), NEW q \in Quotes,
         NEW long \in Lengths, NEW d \in Int, NEW x \in SUBSET Nat,
         NEW next, next = Lex(t, Lexing(p, q, long, d, x)), Whole(next),
         next.pos <= Len(t) + 1
  PROVE  Keeps(t, a, p, q, d, x, next)
<1> DEFINE one == Next(t, a, At(p, q, d, x))
<1>0. /\ p + 1 \in Nat /\ p + 2 \in Nat /\ p + 3 \in Nat /\ Len(t) \in Nat
      /\ q \in Quotes \cup {None} /\ None \in Quotes \cup {None}
  OBVIOUS
<1>1. \A r, u, b : Beside(t, r, u, b, r, u)
  BY DEF Beside, Same
<1>2. CASE t[p] = Escape
  <2>1. next = Lexing(p + 2, q, long, d, x)
    BY <1>2, LexInside
  <2>2. p + 2 <= Len(t) + 1
    <3>1. Lexing(p + 2, q, long, d, x).pos = p + 2
      BY DEF Lexing
    <3> QED BY <2>1, <3>1
  <2>3. ~(p + 1 > Len(t))
    BY <1>0, <2>2
  <2>4. one = Escaped(p + 1, q, d, x)
    BY <1>2, ScanInside
  <2>5. Next(t, a, Escaped(p + 1, q, d, x)) = At((p + 1) + 1, q, d, x)
    BY <1>0, <2>3, ScanInside
  <2>6. (p + 1) + 1 = p + 2
    OBVIOUS
  <2> QED BY <1>0, <1>1, <2>1, <2>4, <2>5, <2>6, TwoSteps
<1>3. CASE t[p] = q /\ long = Short
  <2>1. next = Lexing(p + 1, None, long, d, x)
    BY <1>3, LexInside
  <2>2. CASE Triple(t, p, q)
    <3>1. one = At(p + 3, None, d, x)
      BY <1>3, <2>2, ScanInside
    <3>2. p + 2 <= Len(t) /\ t[p + 1] = q /\ t[p + 2] = q
      BY <2>2, TripleIs
    <3>3. p + 3 = (p + 1) + 2 /\ p + 2 = (p + 1) + 1
      OBVIOUS
    <3>4. Beside(t, p + 1, None, long, p + 3, None)
      BY <3>2, <3>3 DEF Beside, TwoAhead
    <3> QED BY <1>0, <2>1, <3>1, <3>4, OneStep
  <2>3. CASE ~Triple(t, p, q)
    <3>1. one = At(p + 1, None, d, x)
      BY <1>3, <2>3, ScanInside
    <3> QED BY <1>0, <1>1, <2>1, <3>1, OneStep
  <2> QED BY <2>2, <2>3
<1>4. CASE t[p] = q /\ long = Long
  <2>1. CASE Triple(t, p, q)
    <3>1. next = Lexing(p + 3, None, long, d, x)
      BY <1>4, <2>1, LexInside
    <3>2. one = At(p + 3, None, d, x)
      BY <1>4, <2>1, ScanInside
    <3> QED BY <1>0, <1>1, <3>1, <3>2, OneStep
  <2>2. CASE ~Triple(t, p, q)
    BY <1>4, <2>2, LexInside
  <2> QED BY <2>1, <2>2
<1>5. CASE t[p] \notin {Escape, q}
  <2>1. next = Lexing(p + 1, q, long, d, x)
    BY <1>5, LexInside
  <2>2. one = At(p + 1, q, d, x)
    BY <1>5, ScanInside
  <2> QED BY <1>0, <1>1, <2>1, <2>2, OneStep
<1> QED BY <1>2, <1>3, <1>4, <1>5 DEF Lengths

\* Two quotes ahead.
LEMMA BesideTwoAhead ==
  ASSUME NEW t \in Seq(STRING), NEW a, NEW p \in Nat, NEW r \in Nat, NEW q, NEW u,
         TwoAhead(t, p, q, r, u),
         NEW long \in Lengths, NEW d \in Int, NEW x \in SUBSET Nat,
         NEW next, next = Lex(t, Lexing(p, q, long, d, x))
  PROVE  Keeps(t, a, r, u, d, x, next)
<1> DEFINE c == t[p]
           one == Next(t, a, At(r, u, d, x))
<1>1. /\ q = None /\ u = None /\ r = p + 2 /\ c \in Quotes /\ t[p + 1] = c /\ p + 1 <= Len(t)
      /\ Long \in Lengths /\ Short \in Lengths
  BY DEF TwoAhead, Lengths
<1>2. p + 1 \in Nat /\ p + 3 \in Nat /\ Len(t) \in Nat
  OBVIOUS
<1>3. ~(p > Len(t)) /\ (p + 1) + 1 = p + 2 /\ p + 3 = (p + 2) + 1
  BY <1>1, <1>2
<1>4. c \in Quotes \cup {None} /\ None \in Quotes \cup {None}
  BY <1>1
<1>5. CASE Triple(t, p, c)
  <2>1. next = Lexing(p + 3, c, Long, d, x)
    BY <1>1, <1>3, <1>5, LexOutside
  <2>2. p + 2 <= Len(t) /\ t[r] = c
    BY <1>1, <1>5, TripleIs
  <2>3. ~(r > Len(t))
    BY <1>1, <1>2, <2>2
  <2>4. CASE Triple(t, r, c)
    <3>1. Beside(t, p + 3, c, Long, r, u)
      BY <1>1, <1>3, <2>2, <2>4 DEF Beside, OneBehind
    <3> QED BY <1>1, <1>2, <1>4, <2>1, <3>1, NoStep
  <2>5. CASE ~Triple(t, r, c)
    <3>1. one = At(r + 1, c, d, x)
      BY <1>1, <2>2, <2>3, <2>5, ScanOutside
    <3>2. r + 1 = p + 3
      BY <1>1, <1>3
    <3>3. Beside(t, p + 3, c, Long, p + 3, c)
      BY DEF Beside, Same
    <3> QED BY <1>1, <1>2, <1>4, <2>1, <3>1, <3>2, <3>3, OneStep
  <2> QED BY <2>4, <2>5
<1>6. CASE ~Triple(t, p, c)
  <2>1. next = Lexing(p + 1, c, Short, d, x)
    BY <1>1, <1>3, <1>6, LexOutside
  <2>2. Beside(t, p + 1, c, Short, r, u)
    BY <1>1, <1>3 DEF Beside, OneAhead
  <2> QED BY <1>1, <1>2, <1>4, <2>1, <2>2, NoStep
<1> QED BY <1>5, <1>6

\* One quote ahead: the string that the scanner never saw ends.
LEMMA BesideOneAhead ==
  ASSUME NEW t \in Seq(STRING), NEW a, NEW p \in Nat, NEW r \in Nat, NEW q, NEW u,
         NEW long \in Lengths, OneAhead(t, p, q, long, r, u),
         NEW d \in Int, NEW x \in SUBSET Nat,
         NEW next, next = Lex(t, Lexing(p, q, long, d, x))
  PROVE  Keeps(t, a, r, u, d, x, next)
<1>1. /\ q \in Quotes /\ u = None /\ r = p + 1 /\ t[p] = q /\ p <= Len(t) /\ long = Short
      /\ None \in Quotes \cup {None}
  BY DEF OneAhead
<1>2. p + 1 \in Nat /\ ~(p > Len(t))
  BY <1>1
<1>3. next = Lexing(p + 1, None, long, d, x)
  BY <1>1, <1>2, LexInside
<1>4. Beside(t, p + 1, None, long, r, u)
  BY <1>1 DEF Beside, Same
<1> QED BY <1>1, <1>2, <1>3, <1>4, NoStep

\* One quote behind: the triple quote ends the string for the lexer, for the scanner it has begun one.
LEMMA BesideOneBehind ==
  ASSUME NEW t \in Seq(STRING), NEW a, NEW p \in Nat, NEW r \in Nat, NEW q, NEW u,
         NEW long \in Lengths, OneBehind(t, p, q, long, r, u),
         NEW d \in Int, NEW x \in SUBSET Nat,
         NEW next, next = Lex(t, Lexing(p, q, long, d, x)), Whole(next)
  PROVE  Keeps(t, a, r, u, d, x, next)
<1> DEFINE one == Next(t, a, At(r, u, d, x))
           two == Next(t, a, one)
<1>1. /\ q \in Quotes /\ u = None /\ p = r + 1 /\ t[r] = q /\ Triple(t, r, q) /\ long = Long
      /\ q \in Quotes \cup {None} /\ None \in Quotes \cup {None}
  BY DEF OneBehind
<1>2. r + 2 <= Len(t) /\ t[r + 1] = q /\ t[r + 2] = q
  BY <1>1, TripleIs
<1>3. /\ p + 1 \in Nat /\ p + 2 \in Nat /\ p + 3 \in Nat /\ p + 5 \in Nat /\ Len(t) \in Nat
      /\ r + 3 = p + 2 /\ r + 2 = p + 1
  BY <1>1
<1>4. ~(r > Len(t)) /\ ~(p > Len(t)) /\ t[p] = q
  BY <1>1, <1>2, <1>3
<1>5. CASE Triple(t, p, q)
  <2>1. next = Lexing(p + 3, None, long, d, x)
    BY <1>1, <1>4, <1>5, LexInside
  <2>2. p + 2 <= Len(t) /\ t[p + 2] = q
    BY <1>5, TripleIs
  <2>3. ~(p + 2 > Len(t))
    BY <1>3, <2>2
  <2>4. one = At(p + 2, q, d, x)
    BY <1>1, <1>3, <1>4, ScanOutside
  <2>5. CASE Triple(t, p + 2, q)
    <3>1. Next(t, a, At(p + 2, q, d, x)) = At((p + 2) + 3, None, d, x)
      BY <1>1, <1>3, <2>2, <2>3, <2>5, ScanInside
    <3>2. (p + 2) + 2 <= Len(t) /\ t[(p + 2) + 1] = q /\ t[(p + 2) + 2] = q
      BY <1>3, <2>5, TripleIs
    <3>3. /\ (p + 2) + 1 = p + 3 /\ (p + 2) + 2 = (p + 3) + 1 /\ (p + 2) + 3 = (p + 3) + 2
          /\ (p + 2) + 3 \in Nat
      OBVIOUS
    <3>4. TwoAhead(t, p + 3, None, (p + 2) + 3, None)
      BY <1>1, <3>2, <3>3 DEF TwoAhead
    <3>5. Beside(t, p + 3, None, long, (p + 2) + 3, None)
      BY <3>4 DEF Beside
    <3>6. (p + 2) + 3 = p + 5
      OBVIOUS
    <3>7. Beside(t, p + 3, None, long, p + 5, None)
      BY <3>5, <3>6
    <3>8. Next(t, a, one) = At(p + 5, None, d, x)
      BY <2>4, <3>1, <3>6
    <3>9. p + 3 \in Nat /\ p + 5 \in Nat
      OBVIOUS
    <3>10. Next(t, a, At(r, u, d, x)) = one
      OBVIOUS
    <3> HIDE DEF one
    <3>11. Keeps(t, a, r, u, d, x, Lexing(p + 3, None, long, d, x))
      BY <1>1, <3>7, <3>8, <3>9, <3>10, TwoSteps
    <3> QED BY <2>1, <3>11
  <2>6. CASE ~Triple(t, p + 2, q)
    <3>1. Next(t, a, At(p + 2, q, d, x)) = At((p + 2) + 1, None, d, x)
      BY <1>1, <1>3, <2>2, <2>3, <2>6, ScanInside
    <3>2. (p + 2) + 1 = p + 3
      OBVIOUS
    <3>3. Beside(t, p + 3, None, long, p + 3, None)
      BY DEF Beside, Same
    <3> QED BY <1>1, <1>3, <2>1, <2>4, <3>1, <3>2, <3>3, TwoSteps
  <2> QED BY <2>5, <2>6
<1>6. CASE ~Triple(t, p, q)
  BY <1>1, <1>4, <1>6, LexInside
<1> QED BY <1>5, <1>6

\* With every token of the lexer the scanner stays beside it.
LEMMA StaysBeside ==
  ASSUME NEW t \in Seq(STRING), NEW a, NEW p \in Nat, ~(p > Len(t)),
         NEW q \in Quotes \cup {None}, NEW r \in Nat, NEW u, NEW long \in Lengths,
         Beside(t, p, q, long, r, u), q = None => t[p] # Hash,
         NEW d \in Int, NEW x \in SUBSET Nat,
         NEW next, next = Lex(t, Lexing(p, q, long, d, x)), Whole(next),
         next.pos <= Len(t) + 1
  PROVE  Keeps(t, a, r, u, d, x, next)
<1>1. CASE Same(p, q, r, u) /\ q = None
  BY <1>1, BesideOutside DEF Same
<1>2. CASE Same(p, q, r, u) /\ q # None
  BY <1>2, BesideInside DEF Same
<1>3. CASE TwoAhead(t, p, q, r, u)
  BY <1>3, BesideTwoAhead
<1>4. CASE OneAhead(t, p, q, long, r, u)
  BY <1>4, BesideOneAhead
<1>5. CASE OneBehind(t, p, q, long, r, u)
  BY <1>5, BesideOneBehind
<1> QED BY <1>1, <1>2, <1>3, <1>4, <1>5 DEF Beside

-----------------------------------------------------------------------------
(* Runs                                                                     *)

\* f takes the same step n times from b.
IsRun(f, n, V, b, step) ==
  /\ f \in [0..n -> V]
  /\ f[0] = b
  /\ \A i \in 1..n : f[i] = step[f[i - 1]]

\* Every step takes a character, or none and then never again.
Settles(n, V, step) ==
  \A v \in V : /\ v.pos \in Nat
               /\ v.pos > n => step[v] = v
               /\ step[v] = v \/ step[v].pos > v.pos

\* There is such a run.
LEMMA RunExists ==
  ASSUME NEW n \in Nat, NEW V, NEW b \in V, NEW step \in [V -> V]
  PROVE  \E f : IsRun(f, n, V, b, step)
<1> DEFINE steps == [i \in 1..n |-> step]
<1>1. steps \in [1..n -> [V -> V]]
  OBVIOUS
<1>2. \A i \in 1..n : steps[i] = step
  OBVIOUS
<1> HIDE DEF steps
<1>3. PICK f : Steps(f, n, V, b, steps)
  BY <1>1, Recursion
<1> QED BY <1>2, <1>3 DEF Steps, IsRun

\* The function of which each value is a step from the one before is that run.
LEMMA RunOf ==
  ASSUME NEW n \in Nat, NEW V, NEW b \in V, NEW step \in [V -> V], NEW g,
         IsOver(g, n), g[0] = b, \A i \in 1..n : g[i - 1] \in V => g[i] = step[g[i - 1]]
  PROVE  IsRun(g, n, V, b, step)
<1>1. PICK f : IsRun(f, n, V, b, step)
  BY RunExists
<1>2. IsOver(f, n)
  BY <1>1 DEF IsRun, IsOver
<1>3. ASSUME NEW i \in 1..n, g[i - 1] = f[i - 1] PROVE g[i] = f[i]
  <2>1. i - 1 \in 0..n
    OBVIOUS
  <2>2. f[i - 1] \in V /\ f[i] = step[f[i - 1]]
    BY <1>1, <2>1 DEF IsRun
  <2> QED BY <1>3, <2>2
<1>4. g = f
  BY <1>1, <1>2, <1>3, SameSteps DEF IsRun
<1> QED BY <1>1, <1>4

\* In n steps a run comes to rest.
LEMMA RunSettles ==
  ASSUME NEW n \in Nat, NEW V, NEW b, NEW step, NEW f,
         IsRun(f, n, V, b, step), Settles(n, V, step), b.pos >= 1
  PROVE  step[f[n]] = f[n]
<1> DEFINE S == {i \in Nat : i <= n => f[i].pos > i \/ step[f[i]] = f[i]}
<1>1. 0 \in S
  BY DEF IsRun, Settles
<1>2. ASSUME NEW i \in Nat, i \in S, i + 1 <= n PROVE i + 1 \in S
  <2>1. /\ i + 1 \in 1..n /\ i \in 0..n /\ i + 1 \in 0..n /\ (i + 1) - 1 = i
    BY <1>2
  <2>2. /\ f[i] \in V /\ f[i + 1] \in V /\ f[i + 1] = step[f[i]]
        /\ f[i].pos \in Nat /\ f[i + 1].pos \in Nat
    BY <2>1 DEF IsRun, Settles
  <2>3. CASE step[f[i]] = f[i]
    BY <2>2, <2>3
  <2>4. CASE step[f[i]] # f[i]
    <3>1. f[i].pos > i
      BY <1>2, <2>4
    <3>2. f[i + 1].pos > f[i].pos
      BY <2>2, <2>4 DEF Settles
    <3> QED BY <2>2, <3>1, <3>2
  <2> QED BY <2>3, <2>4
<1>3. n \in S
  <2> HIDE DEF S
  <2>1. \A i \in Nat : i + 1 > n => i + 1 \in S
    BY DEF S
  <2> QED BY <1>1, <1>2, <2>1, SetInduction
<1>4. n \in 0..n
  OBVIOUS
<1>5. f[n] \in V
  BY <1>4 DEF IsRun
<1> QED BY <1>3, <1>5 DEF Settles

\* What holds from one of its places on holds at the end.
LEMMA RunKeeps ==
  ASSUME NEW n \in Nat, NEW T, NEW k \in 0..n, k \in T,
         \A i \in k..n - 1 : i \in T => i + 1 \in T
  PROVE  \A i \in k..n : i \in T
<1> DEFINE S == {i \in Nat : k <= i /\ i <= n => i \in T}
<1>1. 0 \in S
  OBVIOUS
<1>2. ASSUME NEW i \in Nat, i \in S PROVE i + 1 \in S
  <2>1. CASE i \in k..n - 1
    BY <1>2, <2>1
  <2>2. CASE i \notin k..n - 1
    <3>1. i + 1 <= k \/ i + 1 > n
      BY <2>2
    <3>2. i + 1 = k \/ i + 1 < k \/ i + 1 > n
      BY <3>1
    <3> QED BY <3>2
  <2> QED BY <2>1, <2>2
<1>3. Nat \subseteq S
  <2> HIDE DEF S
  <2> QED BY <1>1, <1>2, SetInduction
<1> QED BY <1>3

\* A run that rests has come to its end, and a step from one of its states leads to another.
LEMMA RunRests ==
  ASSUME NEW n \in Nat, NEW V, NEW b, NEW step, NEW f,
         IsRun(f, n, V, b, step), NEW k \in 0..n, step[f[k]] = f[k]
  PROVE  f[k] = f[n]
<1> DEFINE T == {i \in 0..n : f[i] = f[k]}
<1>1. ASSUME NEW i \in k..n - 1, i \in T PROVE i + 1 \in T
  <2>1. i + 1 \in 1..n /\ i + 1 \in 0..n /\ (i + 1) - 1 = i
    BY <1>1
  <2> QED BY <1>1, <2>1 DEF IsRun
<1>2. \A i \in k..n : i \in T
  <2>1. k \in T
    OBVIOUS
  <2> HIDE DEF T
  <2> QED BY <1>1, <2>1, RunKeeps
<1>3. n \in k..n
  OBVIOUS
<1> QED BY <1>2, <1>3

\* The states of a run that has come to rest lead to one another.
LEMMA RunIsClosed ==
  ASSUME NEW n \in Nat, NEW V, NEW b, NEW step, NEW f,
         IsRun(f, n, V, b, step), step[f[n]] = f[n], NEW k \in 0..n
  PROVE  \E j \in 0..n : step[f[k]] = f[j]
<1>1. CASE k = n
  BY <1>1
<1>2. CASE k # n
  <2>1. k + 1 \in 1..n /\ k + 1 \in 0..n /\ (k + 1) - 1 = k
    BY <1>2
  <2> QED BY <2>1 DEF IsRun
<1> QED BY <1>1, <1>2

-----------------------------------------------------------------------------
(* The three runs                                                           *)

\* The states of the scanner, of the lexer and of the stripper.
Scans == [pos : Nat, in : Quotes \cup {None}, escape : BOOLEAN, depth : Int, splits : SUBSET Nat]

Lexes == [pos : Nat, in : Quotes \cup {None}, long : BOOLEAN, depth : Int, splits : SUBSET Nat,
          comment : Nat, odd : BOOLEAN, bad : BOOLEAN]

Seeks == [pos : Nat, in : Quotes \cup {None}]

\* A state stays one when a field changes within its range.
LEMMA ScanFields ==
  ASSUME NEW s \in Scans, NEW next
  PROVE  /\ \A v \in Nat : next = [s EXCEPT !.pos = v] => next \in Scans /\ next.pos = v
         /\ \A v \in Quotes \cup {None} : next = [s EXCEPT !.in = v] => next \in Scans /\ next.pos = s.pos
         /\ \A v \in BOOLEAN : next = [s EXCEPT !.escape = v] => next \in Scans /\ next.pos = s.pos
         /\ \A v \in Int : next = [s EXCEPT !.depth = v] => next \in Scans /\ next.pos = s.pos
         /\ \A v \in SUBSET Nat : next = [s EXCEPT !.splits = v] => next \in Scans /\ next.pos = s.pos
BY DEF Scans

\* The same of the lexer.
LEMMA LexFields ==
  ASSUME NEW s \in Lexes, NEW next
  PROVE  /\ \A v \in Nat : next = [s EXCEPT !.pos = v] => next \in Lexes /\ next.pos = v
         /\ \A v \in Quotes \cup {None} : next = [s EXCEPT !.in = v] => next \in Lexes /\ next.pos = s.pos
         /\ \A v \in BOOLEAN : next = [s EXCEPT !.long = v] => next \in Lexes /\ next.pos = s.pos
         /\ \A v \in Int : next = [s EXCEPT !.depth = v] => next \in Lexes /\ next.pos = s.pos
         /\ \A v \in SUBSET Nat : next = [s EXCEPT !.splits = v] => next \in Lexes /\ next.pos = s.pos
         /\ \A v \in Nat : next = [s EXCEPT !.comment = v] => next \in Lexes /\ next.pos = s.pos
         /\ \A v \in BOOLEAN : next = [s EXCEPT !.odd = v] => next \in Lexes /\ next.pos = s.pos
         /\ \A v \in BOOLEAN : next = [s EXCEPT !.bad = v] => next \in Lexes /\ next.pos = s.pos
BY DEF Lexes

\* The same of the stripper.
LEMMA SeekFields ==
  ASSUME NEW s \in Seeks, NEW next
  PROVE  /\ \A v \in Nat : next = [s EXCEPT !.pos = v] => next \in Seeks /\ next.pos = v
         /\ \A v \in Quotes \cup {None} : next = [s EXCEPT !.in = v] => next \in Seeks /\ next.pos = s.pos
BY DEF Seeks

\* Each step of the scanner takes a character.
LEMMA ScanTakes ==
  ASSUME NEW t, Len(t) \in Nat, NEW a, NEW s \in Scans, NEW next, next = Next(t, a, s)
  PROVE  /\ next \in Scans
         /\ s.pos > Len(t) => next = s
         /\ next = s \/ next.pos > s.pos
<1> DEFINE c     == t[s.pos]
           one   == [s EXCEPT !.pos = s.pos + 1]
           three == [s EXCEPT !.pos = s.pos + 3]
           ended == [s EXCEPT !.pos = Len(t) + 1]
<1>1. /\ s.pos \in Nat /\ s.pos + 1 \in Nat /\ s.pos + 3 \in Nat /\ Len(t) + 1 \in Nat
      /\ s.depth \in Int /\ s.depth + 1 \in Int /\ s.depth - 1 \in Int
      /\ s.splits \in SUBSET Nat /\ s.splits \cup {s.pos} \in SUBSET Nat
      /\ TRUE \in BOOLEAN /\ FALSE \in BOOLEAN
  BY DEF Scans
<1>2. s.pos > Len(t) => next = s
  BY DEF Next, Item
<1>3. \/ next = s
      \/ next = one
      \/ ~(s.pos > Len(t)) /\ next = ended
      \/ \E v \in BOOLEAN : next = [one EXCEPT !.escape = v]
      \/ \E v \in Quotes \cup {None} : next = [one EXCEPT !.in = v] \/ next = [three EXCEPT !.in = v]
      \/ \E v \in {s.depth + 1, s.depth - 1} : next = [one EXCEPT !.depth = v]
      \/ next = [one EXCEPT !.splits = s.splits \cup {s.pos}]
  BY DEF Next, Item, None, Scans
<1>4. /\ one \in Scans /\ one.pos = s.pos + 1
      /\ three \in Scans /\ three.pos = s.pos + 3
      /\ ended \in Scans /\ ended.pos = Len(t) + 1
  BY <1>1, ScanFields
<1> HIDE DEF one, three, ended, c
<1>5. next = s \/ (next \in Scans /\ next.pos \in {one.pos, three.pos})
      \/ (~(s.pos > Len(t)) /\ next = ended)
  <2>1. \A v \in BOOLEAN : next = [one EXCEPT !.escape = v] => next \in Scans /\ next.pos = one.pos
    BY <1>4, ScanFields
  <2>2. \A v \in Quotes \cup {None} :
           /\ next = [one EXCEPT !.in = v] => next \in Scans /\ next.pos = one.pos
           /\ next = [three EXCEPT !.in = v] => next \in Scans /\ next.pos = three.pos
    BY <1>4, ScanFields
  <2>3. \A v \in Int : next = [one EXCEPT !.depth = v] => next \in Scans /\ next.pos = one.pos
    BY <1>4, ScanFields
  <2>4. \A v \in SUBSET Nat : next = [one EXCEPT !.splits = v] => next \in Scans /\ next.pos = one.pos
    BY <1>4, ScanFields
  <2> QED BY <1>1, <1>3, <1>4, <2>1, <2>2, <2>3, <2>4
<1> QED BY <1>1, <1>2, <1>4, <1>5

\* Each step of the lexer takes a token, or a character of a string.
LEMMA LexTakes ==
  ASSUME NEW t, Len(t) \in Nat, NEW s \in Lexes, NEW next, next = Lex(t, s)
  PROVE  /\ next \in Lexes
         /\ s.pos > Len(t) => next = s
         /\ next = s \/ next.pos > s.pos
         /\ ~(s.pos > Len(t)) => next.pos > s.pos
<1> DEFINE c     == t[s.pos]
           one   == [s EXCEPT !.pos = s.pos + 1]
           two   == [s EXCEPT !.pos = s.pos + 2]
           three == [s EXCEPT !.pos = s.pos + 3]
           found == [s EXCEPT !.comment = s.pos]
           ended == [found EXCEPT !.pos = Len(t) + 1]
           oneIn(v)   == [one EXCEPT !.in = v]
           threeIn(v) == [three EXCEPT !.in = v]
           Further(l) == l \in Lexes /\ l.pos > s.pos
<1>1. /\ s.pos \in Nat /\ s.pos + 1 \in Nat /\ s.pos + 2 \in Nat /\ s.pos + 3 \in Nat
      /\ s.depth \in Int /\ s.depth + 1 \in Int /\ s.depth - 1 \in Int
      /\ s.splits \in SUBSET Nat /\ s.splits \cup {s.pos} \in SUBSET Nat
      /\ TRUE \in BOOLEAN /\ FALSE \in BOOLEAN /\ None \in Quotes \cup {None}
      /\ Len(t) + 1 \in Nat
  BY DEF Lexes
<1>2. s.pos > Len(t) => next = s
  BY DEF Lex
<1>3. ASSUME ~(s.pos > Len(t))
      PROVE  \/ next \in {one, two, ended}
             \/ \E v \in BOOLEAN : next = [one EXCEPT !.odd = v] \/ next = [one EXCEPT !.bad = v]
             \/ next = oneIn(None) \/ next = threeIn(None)
             \/ \E q \in Quotes, v \in BOOLEAN : \/ next = [oneIn(q) EXCEPT !.long = v]
                                                \/ next = [threeIn(q) EXCEPT !.long = v]
             \/ \E v \in {s.depth + 1, s.depth - 1} : next = [one EXCEPT !.depth = v]
             \/ next = [one EXCEPT !.splits = s.splits \cup {s.pos}]
  <2>1. CASE s.in = ""
    <3>1. next = LexToken(t, s)
      BY <1>3, <2>1 DEF Lex
    <3>2. CASE c \in Quotes
      <4>1. \/ next = [oneIn(c) EXCEPT !.long = FALSE]
            \/ next = [threeIn(c) EXCEPT !.long = TRUE]
        <5>1. CASE Triple(t, s.pos, c)
          <6>1. next = [s EXCEPT !.pos = s.pos + 3, !.in = c, !.long = TRUE]
            BY <3>1, <3>2, <5>1 DEF LexToken, Quotes
          <6> QED BY <6>1
        <5>2. CASE ~Triple(t, s.pos, c)
          <6>1. next = [[s EXCEPT !.pos = s.pos + 1] EXCEPT !.in = c, !.long = FALSE]
            BY <3>1, <3>2, <5>2 DEF LexToken, Quotes
          <6> QED BY <6>1
        <5> QED BY <5>1, <5>2
      <4> HIDE DEF c, oneIn, threeIn
      <4> QED BY <3>2, <4>1
    <3>3. CASE c \notin Quotes
      BY <3>1, <3>3 DEF LexToken, Lexes
    <3> QED BY <3>2, <3>3
  <2>2. CASE s.in # ""
    <3>1. next = LexString(t, s)
      BY <1>3, <2>2 DEF Lex
    <3> QED BY <3>1 DEF LexString, Lexes, None
  <2> QED BY <2>1, <2>2
<1>4. /\ one \in Lexes /\ one.pos = s.pos + 1
      /\ two \in Lexes /\ two.pos = s.pos + 2
      /\ three \in Lexes /\ three.pos = s.pos + 3
      /\ found \in Lexes
  BY <1>1, LexFields
<1> HIDE DEF one, two, three, found, c
<1>5. /\ ended \in Lexes /\ ended.pos = Len(t) + 1
      /\ \A q \in Quotes \cup {None} : /\ oneIn(q) \in Lexes /\ oneIn(q).pos = one.pos
                                     /\ threeIn(q) \in Lexes /\ threeIn(q).pos = three.pos
  BY <1>1, <1>4, LexFields
<1> HIDE DEF ended, oneIn, threeIn
<1>6. \A q \in Quotes, v \in BOOLEAN :
         /\ next = [oneIn(q) EXCEPT !.long = v] => next \in Lexes /\ next.pos = one.pos
         /\ next = [threeIn(q) EXCEPT !.long = v] => next \in Lexes /\ next.pos = three.pos
  BY <1>5, LexFields
<1>7. /\ \A v \in Int : next = [one EXCEPT !.depth = v] => next \in Lexes /\ next.pos = one.pos
      /\ \A v \in SUBSET Nat : next = [one EXCEPT !.splits = v] => next \in Lexes /\ next.pos = one.pos
  BY <1>4, LexFields
<1>8. ASSUME ~(s.pos > Len(t))
      PROVE  next \in Lexes /\ next.pos \in {one.pos, two.pos, three.pos, ended.pos}
  <2>1. CASE next \in {one, two, ended} \/ next = oneIn(None) \/ next = threeIn(None)
    BY <1>1, <1>4, <1>5, <2>1
  <2>2. ASSUME NEW v \in BOOLEAN, next = [one EXCEPT !.odd = v] \/ next = [one EXCEPT !.bad = v]
        PROVE  next \in Lexes /\ next.pos = one.pos
    BY <1>4, <2>2, LexFields
  <2>3. CASE \E q \in Quotes, v \in BOOLEAN : \/ next = [oneIn(q) EXCEPT !.long = v]
                                            \/ next = [threeIn(q) EXCEPT !.long = v]
    BY <1>6, <2>3
  <2>4. CASE \/ \E v \in {s.depth + 1, s.depth - 1} : next = [one EXCEPT !.depth = v]
             \/ next = [one EXCEPT !.splits = s.splits \cup {s.pos}]
    BY <1>1, <1>7, <2>4
  <2> QED BY <1>3, <1>8, <2>1, <2>2, <2>3, <2>4
<1>9. CASE ~(s.pos > Len(t))
  BY <1>1, <1>2, <1>4, <1>5, <1>8, <1>9
<1> QED BY <1>2, <1>9

\* So does each step of the stripper, but at a comment.
LEMMA SeekTakes ==
  ASSUME NEW t, Len(t) \in Nat, NEW s \in Seeks, NEW next, next = SeekComment(t, s)
  PROVE  /\ next \in Seeks
         /\ s.pos > Len(t) => next = s
         /\ next = s \/ next.pos > s.pos
<1> DEFINE one == [s EXCEPT !.pos = s.pos + 1]
           two == [s EXCEPT !.pos = s.pos + 2]
<1>1. s.pos \in Nat /\ s.pos + 1 \in Nat /\ s.pos + 2 \in Nat
  BY DEF Seeks
<1>2. s.pos > Len(t) => next = s
  BY DEF SeekComment
<1>3. next \in {s, one, two} \/ \E v \in Quotes \cup {None} : next = [one EXCEPT !.in = v]
  BY DEF SeekComment, Seeks, None
<1>4. one \in Seeks /\ one.pos = s.pos + 1 /\ two \in Seeks /\ two.pos = s.pos + 2
  BY <1>1, SeekFields
<1> HIDE DEF one, two
<1>5. ASSUME NEW v \in Quotes \cup {None}, next = [one EXCEPT !.in = v]
      PROVE  next \in Seeks /\ next.pos = one.pos
  BY <1>4, <1>5, SeekFields
<1>6. next = s \/ (next \in Seeks /\ next.pos \in {one.pos, two.pos})
  BY <1>3, <1>4, <1>5
<1> QED BY <1>1, <1>2, <1>4, <1>6

\* Their steps as functions.
Scanning(t, a) == [s \in Scans |-> Next(t, a, s)]
LexingOf(t)    == [s \in Lexes |-> Lex(t, s)]
Seeking(t)     == [s \in Seeks |-> SeekComment(t, s)]

\* Where the stripper begins.
SeekStart == [pos |-> 1, in |-> None]

\* What Scan, Lexed and CommentStart return is where such a run comes to rest.
LEMMA ScanRun ==
  ASSUME NEW t \in Seq(STRING), NEW a
  PROVE  \E f : /\ IsRun(f, Len(t), Scans, Start, Scanning(t, a))
                /\ Settles(Len(t), Scans, Scanning(t, a))
                /\ Scan(t, a) = f[Len(t)]
<1> DEFINE n == Len(t)
           step == Scanning(t, a)
           Is(f) == f = [i \in 0..n |-> IF i = 0 THEN Start ELSE Next(t, a, f[i - 1])]
           s == CHOOSE f : Is(f)
<1>1. n \in Nat
  OBVIOUS
<1>2. \A v \in Scans : step[v] = Next(t, a, v)
  BY DEF Scanning
<1>3. step \in [Scans -> Scans] /\ Settles(n, Scans, step)
  <2>1. \A v \in Scans : /\ Next(t, a, v) \in Scans
                         /\ v.pos > Len(t) => Next(t, a, v) = v
                         /\ Next(t, a, v) = v \/ Next(t, a, v).pos > v.pos
    BY <1>1, ScanTakes
  <2>2. \A v \in Scans : v.pos \in Nat
    BY DEF Scans
  <2> QED BY <1>2, <2>1, <2>2 DEF Settles, Scanning
<1>4. Start \in Scans
  BY DEF Start, Scans, None
<1>5. PICK g : IsRun(g, n, Scans, Start, step)
  <2> HIDE DEF n, step
  <2> QED BY <1>1, <1>3, <1>4, RunExists
<1>6. Is(g)
  <2>1. \A i \in 0..n : i = 0 \/ (i \in 1..n /\ i - 1 \in 0..n)
    BY <1>1
  <2>2. \A i \in 0..n : g[i] = IF i = 0 THEN Start ELSE Next(t, a, g[i - 1])
    <3> HIDE DEF n, step
    <3> QED BY <1>2, <1>5, <2>1 DEF IsRun
  <2>3. g = [i \in 0..n |-> g[i]]
    BY <1>5 DEF IsRun
  <2> HIDE DEF n, step
  <2> QED BY <2>2, <2>3
<1>7. Is(s)
  <2> HIDE DEF Is
  <2> QED BY <1>6
<1>8. IsRun(s, n, Scans, Start, step)
  <2>1. IsOver(s, n)
    <3> HIDE DEF s, n
    <3> QED BY <1>7 DEF IsOver
  <2>2. s[0] = Start
    <3>1. 0 \in 0..n
      BY <1>1
    <3> HIDE DEF s, n
    <3> QED BY <1>7, <3>1
  <2>3. ASSUME NEW i \in 1..n, s[i - 1] \in Scans PROVE s[i] = step[s[i - 1]]
    <3>1. i \in 0..n /\ i # 0
      BY <1>1
    <3>2. s[i] = Next(t, a, s[i - 1])
      <4> HIDE DEF s, n
      <4> QED BY <1>7, <3>1
    <3> HIDE DEF s, n, step
    <3> QED BY <1>2, <2>3, <3>2
  <2> HIDE DEF s, n, step
  <2> QED BY <1>1, <1>3, <1>4, <2>1, <2>2, <2>3, RunOf
<1>9. Scan(t, a) = s[n]
  BY DEF Scan
<1> HIDE DEF s, n, step
<1> QED BY <1>3, <1>8, <1>9 DEF n, step

\* The same of the lexer.
LEMMA LexRun ==
  ASSUME NEW t \in Seq(STRING)
  PROVE  \E f : /\ IsRun(f, Len(t), Lexes, LexStart, LexingOf(t))
                /\ Settles(Len(t), Lexes, LexingOf(t))
                /\ Lexed(t) = f[Len(t)]
<1> DEFINE n == Len(t)
           step == LexingOf(t)
           Is(f) == f = [i \in 0..n |-> IF i = 0 THEN LexStart ELSE Lex(t, f[i - 1])]
           s == CHOOSE f : Is(f)
<1>1. n \in Nat
  OBVIOUS
<1>2. \A v \in Lexes : step[v] = Lex(t, v)
  BY DEF LexingOf
<1>3. step \in [Lexes -> Lexes] /\ Settles(n, Lexes, step)
  <2>1. \A v \in Lexes : /\ Lex(t, v) \in Lexes
                         /\ v.pos > Len(t) => Lex(t, v) = v
                         /\ Lex(t, v) = v \/ Lex(t, v).pos > v.pos
    BY <1>1, LexTakes
  <2>2. \A v \in Lexes : v.pos \in Nat
    BY DEF Lexes
  <2> QED BY <1>2, <2>1, <2>2 DEF Settles, LexingOf
<1>4. LexStart \in Lexes
  BY DEF LexStart, Lexes, None
<1>5. PICK g : IsRun(g, n, Lexes, LexStart, step)
  <2> HIDE DEF n, step
  <2> QED BY <1>1, <1>3, <1>4, RunExists
<1>6. Is(g)
  <2>1. \A i \in 0..n : i = 0 \/ (i \in 1..n /\ i - 1 \in 0..n)
    BY <1>1
  <2>2. \A i \in 0..n : g[i] = IF i = 0 THEN LexStart ELSE Lex(t, g[i - 1])
    <3> HIDE DEF n, step
    <3> QED BY <1>2, <1>5, <2>1 DEF IsRun
  <2>3. g = [i \in 0..n |-> g[i]]
    BY <1>5 DEF IsRun
  <2> HIDE DEF n, step
  <2> QED BY <2>2, <2>3
<1>7. Is(s)
  <2> HIDE DEF Is
  <2> QED BY <1>6
<1>8. IsRun(s, n, Lexes, LexStart, step)
  <2>1. IsOver(s, n)
    <3> HIDE DEF s, n
    <3> QED BY <1>7 DEF IsOver
  <2>2. s[0] = LexStart
    <3>1. 0 \in 0..n
      BY <1>1
    <3> HIDE DEF s, n
    <3> QED BY <1>7, <3>1
  <2>3. ASSUME NEW i \in 1..n, s[i - 1] \in Lexes PROVE s[i] = step[s[i - 1]]
    <3>1. i \in 0..n /\ i # 0
      BY <1>1
    <3>2. s[i] = Lex(t, s[i - 1])
      <4> HIDE DEF s, n
      <4> QED BY <1>7, <3>1
    <3> HIDE DEF s, n, step
    <3> QED BY <1>2, <2>3, <3>2
  <2> HIDE DEF s, n, step
  <2> QED BY <1>1, <1>3, <1>4, <2>1, <2>2, <2>3, RunOf
<1>9. Lexed(t) = s[n]
  BY DEF Lexed
<1> HIDE DEF s, n, step
<1> QED BY <1>3, <1>8, <1>9 DEF n, step

\* The same of the stripper.
LEMMA SeekRun ==
  ASSUME NEW t \in Seq(STRING)
  PROVE  \E f : /\ IsRun(f, Len(t), Seeks, SeekStart, Seeking(t))
                /\ Settles(Len(t), Seeks, Seeking(t))
                /\ CommentStart(t) = f[Len(t)].pos
<1> DEFINE n == Len(t)
           step == Seeking(t)
           Is(f) == f = [i \in 0..n |-> IF i = 0 THEN SeekStart ELSE SeekComment(t, f[i - 1])]
           s == CHOOSE f : Is(f)
<1>1. n \in Nat
  OBVIOUS
<1>2. \A v \in Seeks : step[v] = SeekComment(t, v)
  BY DEF Seeking
<1>3. step \in [Seeks -> Seeks] /\ Settles(n, Seeks, step)
  <2>1. \A v \in Seeks : /\ SeekComment(t, v) \in Seeks
                         /\ v.pos > Len(t) => SeekComment(t, v) = v
                         /\ SeekComment(t, v) = v \/ SeekComment(t, v).pos > v.pos
    BY <1>1, SeekTakes
  <2>2. \A v \in Seeks : v.pos \in Nat
    BY DEF Seeks
  <2> QED BY <1>2, <2>1, <2>2 DEF Settles, Seeking
<1>4. SeekStart \in Seeks
  BY DEF SeekStart, Seeks, None
<1>5. PICK g : IsRun(g, n, Seeks, SeekStart, step)
  <2> HIDE DEF n, step
  <2> QED BY <1>1, <1>3, <1>4, RunExists
<1>6. Is(g)
  <2>1. \A i \in 0..n : i = 0 \/ (i \in 1..n /\ i - 1 \in 0..n)
    BY <1>1
  <2>2. \A i \in 0..n : g[i] = IF i = 0 THEN SeekStart ELSE SeekComment(t, g[i - 1])
    <3> HIDE DEF n, step
    <3> QED BY <1>2, <1>5, <2>1 DEF IsRun
  <2>3. g = [i \in 0..n |-> g[i]]
    BY <1>5 DEF IsRun
  <2> HIDE DEF n, step
  <2> QED BY <2>2, <2>3
<1>7. Is(s)
  <2> HIDE DEF Is
  <2> QED BY <1>6
<1>8. IsRun(s, n, Seeks, SeekStart, step)
  <2>1. IsOver(s, n)
    <3> HIDE DEF s, n
    <3> QED BY <1>7 DEF IsOver
  <2>2. s[0] = SeekStart
    <3>1. 0 \in 0..n
      BY <1>1
    <3> HIDE DEF s, n
    <3> QED BY <1>7, <3>1
  <2>3. ASSUME NEW i \in 1..n, s[i - 1] \in Seeks PROVE s[i] = step[s[i - 1]]
    <3>1. i \in 0..n /\ i # 0
      BY <1>1
    <3>2. s[i] = SeekComment(t, s[i - 1])
      <4> HIDE DEF s, n
      <4> QED BY <1>7, <3>1
    <3> HIDE DEF s, n, step
    <3> QED BY <1>2, <2>3, <3>2
  <2> HIDE DEF s, n, step
  <2> QED BY <1>1, <1>3, <1>4, <2>1, <2>2, <2>3, RunOf
<1>9. CommentStart(t) = s[n].pos
  BY DEF CommentStart, SeekStart, None
<1> HIDE DEF s, n, step
<1> QED BY <1>3, <1>8, <1>9 DEF n, step

-----------------------------------------------------------------------------
(* The lexer to the end of the text, or to the comment                      *)

\* Between tokens, or in a string, where no comment has begun.
Between(l, p, q, long, d, x) ==
  /\ p \in Nat \ {0} /\ q \in Quotes \cup {None} /\ long \in Lengths /\ d \in Int /\ x \in SUBSET Nat
  /\ l = Lexing(p, q, long, d, x)

\* Between tokens the lexer is within the text.
Within(n, p, q) == q = None => p <= n + 1

\* It reads on.
Reading(n, l) == \E p, q, long, d, x : Between(l, p, q, long, d, x) /\ Within(n, p, q)

\* A token leads to the next, or it is the comment.
LEMMA LexReads ==
  ASSUME NEW t \in Seq(STRING), NEW l, NEW p, NEW q, NEW long, NEW d, NEW x,
         Between(l, p, q, long, d, x), ~(p > Len(t)),
         NEW next, next = Lex(t, l), Whole(next)
  PROVE  \/ q = None /\ t[p] = Hash /\ next = Commented(p, long, d, x, Len(t))
         \/ ~(q = None /\ t[p] = Hash) /\ Reading(Len(t), next)
<1>1. /\ p \in Nat \ {0} /\ q \in Quotes \cup {None} /\ long \in Lengths /\ d \in Int
      /\ x \in SUBSET Nat /\ l = Lexing(p, q, long, d, x) /\ p \in Nat
      /\ Long \in Lengths /\ Short \in Lengths /\ None \in Quotes \cup {None}
  BY DEF Between, Lengths
<1>2. /\ p + 1 \in Nat \ {0} /\ p + 2 \in Nat \ {0} /\ p + 3 \in Nat \ {0}
      /\ p + 1 <= Len(t) + 1
  BY <1>1
<1>3. d + 1 \in Int /\ d - 1 \in Int /\ With(x, p) \in SUBSET Nat
  BY <1>1, NextPlaces
<1>4. ASSUME NEW r \in Quotes, Triple(t, p, r) PROVE p + 3 <= Len(t) + 1
  <2>1. p + 2 <= Len(t) /\ Len(t) \in Nat
    BY <1>1, <1>4, TripleIs
  <2> QED BY <1>1, <2>1
<1>5. \A p2 \in Nat \ {0}, q2 \in Quotes \cup {None}, long2 \in Lengths, d2 \in Int, x2 \in SUBSET Nat :
         next = Lexing(p2, q2, long2, d2, x2) /\ Within(Len(t), p2, q2) => Reading(Len(t), next)
  BY DEF Reading, Between
<1>6. CASE q = None
  <2>1. next = Lex(t, Lexing(p, None, long, d, x))
    BY <1>1, <1>6
  <2>2. CASE t[p] \in Quotes
    <3>1. Within(Len(t), p + 1, t[p]) /\ Within(Len(t), p + 3, t[p])
      BY <2>2 DEF Within, Quotes, None
    <3>2. t[p] # Hash
      BY <2>2 DEF Quotes, Hash
    <3>3. t[p] \in Quotes \cup {None}
      BY <2>2
    <3>4. next = Lexing(p + 3, t[p], Long, d, x) \/ next = Lexing(p + 1, t[p], Short, d, x)
      BY <1>1, <2>1, <2>2, LexOutside
    <3> QED BY <1>1, <1>2, <1>5, <3>1, <3>2, <3>3, <3>4
  <2>3. CASE t[p] = Hash
    BY <1>1, <1>6, <2>1, <2>3, LexOutside
  <2>4. CASE t[p] \notin Quotes \cup {Hash}
    <3>1. Within(Len(t), p + 1, None)
      BY <1>2 DEF Within
    <3>2. t[p] # Escape
      BY <1>1, <2>1, LexOutside
    <3>3. \/ next = Lexing(p + 1, None, long, d, x)
          \/ next = Lexing(p + 1, None, long, d, With(x, p))
          \/ next = Lexing(p + 1, None, long, d + 1, x)
          \/ next = Lexing(p + 1, None, long, d - 1, x)
      BY <1>1, <2>1, <2>4, <3>2, LexOutside
    <3> QED BY <1>1, <1>2, <1>3, <1>5, <2>4, <3>1, <3>3
  <2> QED BY <2>2, <2>3, <2>4
<1>7. CASE q # None
  <2>1. q \in Quotes
    BY <1>1, <1>7
  <2>2. Within(Len(t), p + 1, q) /\ Within(Len(t), p + 2, q) /\ Within(Len(t), p + 1, None)
    BY <1>2, <1>7 DEF Within
  <2>3. Triple(t, p, q) => Within(Len(t), p + 3, None)
    BY <1>4, <2>1 DEF Within
  <2>4. \/ next = Lexing(p + 2, q, long, d, x)
        \/ next = Lexing(p + 1, None, long, d, x)
        \/ Triple(t, p, q) /\ next = Lexing(p + 3, None, long, d, x)
        \/ next = Lexing(p + 1, q, long, d, x)
    BY <1>1, <2>1, LexInside DEF Lengths
  <2> QED BY <1>1, <1>2, <1>5, <1>7, <2>2, <2>3, <2>4
<1> QED BY <1>6, <1>7

\* What is not whole never becomes so.
LEMMA LexSpoils ==
  ASSUME NEW t, NEW l \in Lexes, ~Whole(l)
  PROVE  ~Whole(Lex(t, l))
<1>1. CASE l.pos > Len(t)
  BY <1>1 DEF Lex
<1>2. CASE ~(l.pos > Len(t)) /\ l.in = ""
  BY <1>2 DEF Lex, LexToken, Whole, Lexes
<1>3. CASE ~(l.pos > Len(t)) /\ l.in # ""
  BY <1>3 DEF Lex, LexString, Whole, Lexes
<1> QED BY <1>1, <1>2, <1>3

\* The lexer passes from each place of T to the next, as far as e.
Passes(t, e, T) ==
  /\ LexStart \in T
  /\ \A l \in T : \A p, q, long, d, x :
        /\ Between(l, p, q, long, d, x) /\ p < e /\ p <= Len(t)
        /\ q = None => t[p] # Hash
        /\ Whole(Lex(t, l)) /\ Lex(t, l).pos <= e
        => Lex(t, l) \in T

\* The lexer is between tokens at e, at the end of the text or before its comment.
LexesTo(t, e, long, d, x) ==
  /\ e \in 1..Len(t) + 1 /\ long \in Lengths /\ d \in Int /\ x \in SUBSET Nat
  /\ e <= Len(t) => t[e] = Hash
  /\ Lexed(t).depth = d /\ Lexed(t).splits = x
  /\ Lexed(t).comment = IF e <= Len(t) THEN e ELSE 0
  /\ \A T : Passes(t, e, T) => Lexing(e, None, long, d, x) \in T

\* In a run no place is before an earlier one.
LEMMA RunMoves ==
  ASSUME NEW n \in Nat, NEW V, NEW b, NEW step, NEW f,
         IsRun(f, n, V, b, step), Settles(n, V, step), NEW k \in 0..n
  PROVE  \A i \in k..n : f[k].pos <= f[i].pos
<1> DEFINE T == {i \in 0..n : f[k].pos <= f[i].pos}
<1>1. ASSUME NEW i \in k..n - 1, i \in T PROVE i + 1 \in T
  <2>1. i + 1 \in 1..n /\ i + 1 \in 0..n /\ (i + 1) - 1 = i /\ i \in 0..n
    BY <1>1
  <2>2. f[i + 1] = step[f[i]] /\ f[i] \in V /\ f[i + 1] \in V /\ f[k] \in V
    BY <2>1 DEF IsRun
  <2>3. f[i].pos \in Nat /\ f[i + 1].pos \in Nat /\ f[k].pos \in Nat
    BY <2>2 DEF Settles
  <2>4. f[i + 1] = f[i] \/ f[i + 1].pos > f[i].pos
    BY <2>2 DEF Settles
  <2>5. f[i + 1].pos >= f[i].pos
    BY <2>3, <2>4
  <2> QED BY <1>1, <2>1, <2>3, <2>5
<1>2. k \in T
  <2>1. f[k].pos \in Nat
    BY DEF IsRun, Settles
  <2> QED BY <2>1
<1>3. \A i \in k..n : i \in T
  <2> HIDE DEF T
  <2> QED BY <1>1, <1>2, RunKeeps
<1> QED BY <1>3

\* In a text of whole tokens it comes to such a place.
LEMMA LexArrives ==
  ASSUME NEW t \in Seq(STRING), WellFormed(t), ~Lexed(t).odd
  PROVE  \E e, long, d, x : LexesTo(t, e, long, d, x)
<1> DEFINE n == Len(t)
           step == LexingOf(t)
<1>1. n \in Nat
  OBVIOUS
<1>2. PICK f : IsRun(f, n, Lexes, LexStart, step) /\ Settles(n, Lexes, step) /\ Lexed(t) = f[n]
  BY LexRun
<1>3. \A i \in 0..n : f[i] \in Lexes
  BY <1>2 DEF IsRun
<1>4. \A i \in 0..n : step[f[i]] = Lex(t, f[i])
  BY <1>3 DEF LexingOf
<1>5. \A i \in 0..n - 1 : i \in 0..n /\ i + 1 \in 0..n /\ f[i + 1] = Lex(t, f[i])
  <2> SUFFICES ASSUME NEW i \in 0..n - 1 PROVE i \in 0..n /\ i + 1 \in 0..n /\ f[i + 1] = Lex(t, f[i])
    OBVIOUS
  <2>1. i \in 0..n /\ i + 1 \in 0..n /\ i + 1 \in 1..n /\ (i + 1) - 1 = i
    BY <1>1
  <2> QED BY <1>2, <1>4, <2>1 DEF IsRun
<1> HIDE DEF step
<1>6. 0 \in 0..n /\ n \in 0..n
  BY <1>1
<1>7. ASSUME NEW i \in 0..n, ~Whole(f[i]) PROVE FALSE
  <2> DEFINE T == {j \in 0..n : ~Whole(f[j])}
  <2>1. \A j \in i..n - 1 : j \in T => j + 1 \in T
    <3> SUFFICES ASSUME NEW j \in i..n - 1, j \in T PROVE j + 1 \in T
      OBVIOUS
    <3>1. j \in 0..n - 1
      BY <1>1
    <3> QED BY <1>3, <1>5, <3>1, LexSpoils
  <2>2. \A j \in i..n : j \in T
    <3>1. i \in T
      BY <1>7
    <3> HIDE DEF T, n
    <3> QED BY <1>1, <2>1, <3>1, RunKeeps
  <2>3. ~Whole(f[n])
    <3>1. n \in i..n
      BY <1>1
    <3> QED BY <2>2, <3>1
  <2> QED BY <1>2, <2>3 DEF Whole, WellFormed
<1>8. Lex(t, f[n]) = f[n]
  <2>1. step[f[n]] = f[n]
    <3>1. LexStart.pos >= 1
      BY DEF LexStart
    <3> HIDE DEF n
    <3> QED BY <1>1, <1>2, <3>1, RunSettles
  <2> QED BY <1>4, <1>6, <2>1
<1>9. f[n].pos > n
  <2>1. f[n].pos \in Nat
    BY <1>3, <1>6 DEF Lexes
  <2>2. CASE ~(f[n].pos > Len(t))
    <3>1. Lex(t, f[n]).pos > f[n].pos
      BY <1>1, <1>3, <1>6, <2>2, LexTakes
    <3> QED BY <1>8, <2>1, <3>1
  <2> QED BY <2>2
<1> DEFINE G == {i \in 0..n : \A j \in 0..i : Reading(n, f[j])}
<1>10. 0 \in G
  <2>1. f[0] = Lexing(1, None, Short, 0, {}) /\ Short \in Lengths
    BY <1>2 DEF IsRun, LexStart, Lexing, None, Short, Lengths
  <2>2. Between(f[0], 1, None, Short, 0, {}) /\ Within(n, 1, None)
    BY <1>1, <2>1 DEF Between, Within
  <2>3. Reading(n, f[0])
    BY <2>2 DEF Reading
  <2>4. \A j \in 0..0 : j = 0
    OBVIOUS
  <2> QED BY <1>6, <2>3, <2>4
\* At the last place before the comment, or the last of all.
<1>11. ASSUME NEW k \in G, NEW e, NEW long, NEW d, NEW x, Between(f[k], e, None, long, d, x),
              e <= n + 1, e <= n => t[e] = Hash,
              f[n].depth = d, f[n].splits = x, f[n].comment = IF e <= n THEN e ELSE 0
       PROVE  LexesTo(t, e, long, d, x)
  <2>1. /\ e \in 1..n + 1 /\ e \in Nat /\ long \in Lengths /\ d \in Int /\ x \in SUBSET Nat
        /\ f[k] = Lexing(e, None, long, d, x)
    BY <1>1, <1>11 DEF Between
  <2>2. k \in 0..n /\ \A j \in 0..k : Reading(n, f[j])
    BY <1>11
  <2>3. ASSUME NEW T, Passes(t, e, T) PROVE f[k] \in T
    <3> DEFINE U == {i \in 0..n : i <= k => f[i] \in T}
    <3>1. ASSUME NEW i \in 0..n - 1, i \in U PROVE i + 1 \in U
      <4>1. CASE i + 1 > k
        BY <1>5, <4>1
      <4>2. CASE i + 1 <= k
        <5>1. i \in 0..k /\ i + 1 \in 0..k /\ i + 1 \in 0..n /\ i <= k /\ k \in i + 1..n
          BY <1>5, <2>2, <4>2
        <5>2. f[i] \in T /\ Reading(n, f[i]) /\ Reading(n, f[i + 1])
          BY <2>2, <3>1, <5>1
        <5>3. f[i + 1] = Lex(t, f[i]) /\ f[i] \in Lexes /\ Whole(f[i + 1])
          BY <1>3, <1>5, <1>7, <5>1
        <5>4. f[i + 1].pos <= e
          <6>1. f[i + 1].pos <= f[k].pos
            <7> HIDE DEF n
            <7> QED BY <1>1, <1>2, <5>1, RunMoves
          <6>2. f[k].pos = e
            BY <2>1 DEF Lexing
          <6> QED BY <6>1, <6>2
        <5>5. CASE f[i].pos > n
          <6>1. f[i + 1] = f[i]
            BY <5>3, <5>5 DEF Lex
          <6> QED BY <5>1, <5>2, <6>1
        <5>6. CASE ~(f[i].pos > n)
          <6>1. PICK p, q, long1, d1, x1 : Between(f[i], p, q, long1, d1, x1)
            BY <5>2 DEF Reading
          <6>2. f[i].pos = p /\ p \in Nat
            BY <6>1 DEF Between, Lexing
          <6>3. f[i + 1].pos > p
            BY <1>1, <5>3, <5>6, <6>2, LexTakes
          <6>4. f[i + 1].pos \in Nat
            BY <1>3, <5>1 DEF Lexes
          <6>5. p < e /\ p <= Len(t)
            BY <1>1, <2>1, <5>4, <5>6, <6>2, <6>3, <6>4
          <6>6. f[i + 1].comment = 0
            BY <5>2 DEF Reading, Between, Lexing
          <6>7. q = None => t[p] # Hash
            <7>1. Commented(p, long1, d1, x1, Len(t)).comment = p /\ p # 0
              BY <6>1 DEF Commented, Between
            <7>2. ~(p > Len(t))
              BY <1>1, <6>2, <6>5
            <7> QED BY <5>3, <6>1, <6>6, <7>1, <7>2, LexReads
          <6>8. Lex(t, f[i]) \in T
            BY <2>3, <5>2, <5>3, <5>4, <6>1, <6>5, <6>7 DEF Passes
          <6> QED BY <5>1, <5>3, <6>8
        <5> QED BY <5>5, <5>6
      <4> QED BY <4>1, <4>2
    <3>2. 0 \in U
      BY <1>2, <1>6, <2>3 DEF IsRun, Passes
    <3>3. \A i \in 0..n : i \in U
      <4> HIDE DEF U, n
      <4> QED BY <1>1, <1>6, <3>1, <3>2, RunKeeps
    <3> QED BY <2>2, <3>3
  <2> QED BY <1>2, <1>11, <2>1, <2>3 DEF LexesTo
<1>12. CASE n \in G
  <2>1. PICK p, q, long, d, x : Between(f[n], p, q, long, d, x) /\ Within(n, p, q)
    BY <1>1, <1>12 DEF Reading
  <2>2. f[n] = Lexing(p, q, long, d, x) /\ p \in Nat
    BY <2>1 DEF Between
  <2>3. f[n].pos = p /\ f[n].in = q /\ f[n].depth = d /\ f[n].splits = x /\ f[n].comment = 0
    BY <2>2 DEF Lexing
  <2>4. q = None
    BY <1>2, <2>3 DEF WellFormed, None
  <2>5. p > n /\ p <= n + 1
    BY <1>9, <2>1, <2>3, <2>4 DEF Within
  <2> QED BY <1>1, <1>11, <1>12, <2>1, <2>2, <2>3, <2>4, <2>5
<1>13. CASE n \notin G
  <2>1. PICK k \in 0..n - 1 : k \in G /\ k + 1 \notin G
    <3>1. n \in 0..n
      BY <1>6
    <3> HIDE DEF G, n
    <3> QED BY <1>1, <1>6, <1>10, <1>13, <3>1, RunKeeps
  <2>2. k + 1 \in 0..n /\ k \in 0..n /\ f[k + 1] = Lex(t, f[k])
    BY <1>5
  <2>3. ~Reading(n, f[k + 1])
    <3>1. \A j \in 0..k + 1 : j = k + 1 \/ j \in 0..k
      OBVIOUS
    <3> QED BY <2>1, <2>2, <3>1
  <2>4. PICK p, q, long, d, x : Between(f[k], p, q, long, d, x)
    <3>1. k \in 0..k
      OBVIOUS
    <3> QED BY <2>1, <3>1 DEF Reading
  <2>5. p \in Nat /\ p # 0 /\ f[k].pos = p
    BY <2>4 DEF Between, Lexing
  <2>6. ~(p > n)
    <3>1. CASE p > n
      <4>1. f[k + 1] = f[k] /\ k \in 0..k
        BY <2>2, <2>5, <3>1 DEF Lex
      <4> QED BY <2>1, <2>3, <4>1
    <3> QED BY <3>1
  <2>7. Whole(f[k + 1])
    BY <1>7, <2>2
  <2>8. q = None /\ t[p] = Hash /\ f[k + 1] = Commented(p, long, d, x, n)
    BY <2>2, <2>3, <2>4, <2>6, <2>7, LexReads
  <2>9. f[k + 1] = f[n]
    <3>1. f[k + 1].pos = n + 1
      BY <2>8 DEF Commented
    <3>2. f[k + 1].pos > Len(t) /\ f[k + 1] \in Lexes
      BY <1>1, <1>3, <2>2, <3>1
    <3>3. Lex(t, f[k + 1]) = f[k + 1]
      BY <1>1, <3>2, LexTakes
    <3>4. step[f[k + 1]] = f[k + 1]
      BY <1>4, <2>2, <3>3
    <3> DEFINE m == k + 1
    <3>5. m \in 0..n /\ step[f[m]] = f[m]
      BY <2>2, <3>4
    <3> HIDE DEF n, m, G
    <3>6. f[m] = f[n]
      BY <1>1, <1>2, <3>5, RunRests
    <3> QED BY <3>6 DEF m
  <2>10. f[n].depth = d /\ f[n].splits = x /\ f[n].comment = p
    BY <2>8, <2>9 DEF Commented
  <2>11. Between(f[k], p, None, long, d, x) /\ p <= n /\ p <= n + 1
    BY <1>1, <2>4, <2>5, <2>6, <2>8
  <2>12. f[n].comment = IF p <= n THEN p ELSE 0
    BY <2>10, <2>11
  <2> HIDE DEF n, G
  <2> QED BY <1>11, <2>1, <2>8, <2>10, <2>11, <2>12
<1> QED BY <1>12, <1>13

-----------------------------------------------------------------------------
(* The scanner beside the lexer                                             *)

\* A set with the states that the scanner passes is enough to say where it ends.
LEMMA ScanReaches ==
  ASSUME NEW t \in Seq(STRING), NEW a
  PROVE  \E V : /\ Start \in V
                /\ \A s \in V : Next(t, a, s) \in V
                /\ \A s \in V : s.pos > Len(t) => s = Scan(t, a)
<1> DEFINE n == Len(t)
           step == Scanning(t, a)
<1>1. n \in Nat
  OBVIOUS
<1>2. PICK f : IsRun(f, n, Scans, Start, step) /\ Settles(n, Scans, step) /\ Scan(t, a) = f[n]
  BY ScanRun
<1> DEFINE V == {f[i] : i \in 0..n}
<1>3. \A i \in 0..n : f[i] \in Scans /\ step[f[i]] = Next(t, a, f[i])
  BY <1>2 DEF IsRun, Scanning
<1> HIDE DEF step
<1>4. step[f[n]] = f[n]
  <2>1. Start.pos >= 1
    BY DEF Start
  <2> HIDE DEF n
  <2> QED BY <1>1, <1>2, <2>1, RunSettles
<1>5. Start \in V
  <2>1. 0 \in 0..n
    BY <1>1
  <2> QED BY <1>2, <2>1 DEF IsRun
<1>6. ASSUME NEW k \in 0..n PROVE Next(t, a, f[k]) \in V
  <2>1. \E j \in 0..n : step[f[k]] = f[j]
    <3> HIDE DEF n
    <3> QED BY <1>1, <1>2, <1>4, RunIsClosed
  <2> QED BY <1>3, <2>1
<1>7. ASSUME NEW k \in 0..n, f[k].pos > n PROVE f[k] = f[n]
  <2>1. step[f[k]] = f[k]
    BY <1>2, <1>3, <1>7 DEF Settles
  <2> HIDE DEF n
  <2> QED BY <1>1, <1>2, <2>1, RunRests
<1>8. (\A s \in V : Next(t, a, s) \in V) /\ \A s \in V : s.pos > Len(t) => s = Scan(t, a)
  BY <1>2, <1>6, <1>7
<1> HIDE DEF V
<1> QED BY <1>5, <1>8

\* So it is for the stripper, which rests at the comment.
LEMMA SeekReaches ==
  ASSUME NEW t \in Seq(STRING)
  PROVE  \E V : /\ SeekStart \in V
                /\ \A s \in V : SeekComment(t, s) \in V
                /\ \A s \in V : SeekComment(t, s) = s => s.pos = CommentStart(t)
<1> DEFINE n == Len(t)
           step == Seeking(t)
<1>1. n \in Nat
  OBVIOUS
<1>2. PICK f : /\ IsRun(f, n, Seeks, SeekStart, step) /\ Settles(n, Seeks, step)
               /\ CommentStart(t) = f[n].pos
  BY SeekRun
<1> DEFINE V == {f[i] : i \in 0..n}
<1>3. \A i \in 0..n : f[i] \in Seeks /\ step[f[i]] = SeekComment(t, f[i])
  BY <1>2 DEF IsRun, Seeking
<1> HIDE DEF step
<1>4. step[f[n]] = f[n]
  <2>1. SeekStart.pos >= 1
    BY DEF SeekStart
  <2> HIDE DEF n
  <2> QED BY <1>1, <1>2, <2>1, RunSettles
<1>5. SeekStart \in V
  <2>1. 0 \in 0..n
    BY <1>1
  <2> QED BY <1>2, <2>1 DEF IsRun
<1>6. ASSUME NEW k \in 0..n PROVE SeekComment(t, f[k]) \in V
  <2>1. \E j \in 0..n : step[f[k]] = f[j]
    <3> HIDE DEF n
    <3> QED BY <1>1, <1>2, <1>4, RunIsClosed
  <2> QED BY <1>3, <2>1
<1>7. ASSUME NEW k \in 0..n, SeekComment(t, f[k]) = f[k] PROVE f[k].pos = CommentStart(t)
  <2>1. step[f[k]] = f[k]
    BY <1>3, <1>7
  <2>2. f[k] = f[n]
    <3> HIDE DEF n
    <3> QED BY <1>1, <1>2, <2>1, RunRests
  <2> QED BY <1>2, <2>2
<1>8. /\ \A s \in V : SeekComment(t, s) \in V
      /\ \A s \in V : SeekComment(t, s) = s => s.pos = CommentStart(t)
  BY <1>6, <1>7
<1> HIDE DEF V
<1> QED BY <1>5, <1>8

\* The text as far as e, and no further than its comment.
UpTo(t, e, p) ==
  /\ p \in Seq(STRING) /\ Len(p) <= Len(t)
  /\ \A i \in 1..Len(p) : p[i] = t[i]
  /\ Len(p) < Len(t) => t[Len(p) + 1] = Hash
  /\ e <= Len(p) + 1
  /\ e <= Len(p) => p[e] = Hash

\* There are as many of a quote in it.
LEMMA TripleUpTo ==
  ASSUME NEW t \in Seq(STRING), NEW e \in Nat, NEW p, UpTo(t, e, p), NEW i \in Nat \ {0},
         i <= Len(p), NEW q \in Quotes
  PROVE  Triple(p, i, q) <=> Triple(t, i, q)
<1>1. /\ p \in Seq(STRING) /\ Len(p) \in Nat /\ Len(t) \in Nat /\ Len(p) <= Len(t)
      /\ \A j \in 1..Len(p) : p[j] = t[j]
      /\ Len(p) < Len(t) => t[Len(p) + 1] = Hash
  BY DEF UpTo
<1>2. CASE i + 2 <= Len(p)
  <2>1. \A k \in i..i + 2 : k \in 1..Len(p)
    BY <1>1, <1>2
  <2> QED BY <1>1, <1>2, <2>1 DEF Triple
<1>3. CASE ~(i + 2 <= Len(p))
  <2>1. ~Triple(p, i, q)
    BY <1>3 DEF Triple
  <2>2. ASSUME Triple(t, i, q) PROVE FALSE
    <3>1. Len(p) + 1 \in i..i + 2 /\ Len(p) < Len(t)
      BY <1>1, <1>3, <2>2 DEF Triple
    <3>2. t[Len(p) + 1] = q
      BY <2>2, <3>1 DEF Triple
    <3> QED BY <1>1, <3>1, <3>2 DEF Quotes, Hash
  <2> QED BY <2>1, <2>2
<1> QED BY <1>2, <1>3

\* The lexer reads it as it reads the whole.
LEMMA LexUpTo ==
  ASSUME NEW t \in Seq(STRING), NEW e \in Nat, NEW r, UpTo(t, e, r),
         NEW l, NEW p, NEW q, NEW long, NEW d, NEW x, Between(l, p, q, long, d, x), p < e,
         q = None => t[p] # Hash
  PROVE  /\ ~(p > Len(r)) /\ r[p] = t[p]
         /\ Lex(r, l) = Lex(t, l)
<1>1. p \in Nat \ {0} /\ l = Lexing(p, q, long, d, x) /\ q \in Quotes \cup {None}
  BY DEF Between
<1>2. /\ r \in Seq(STRING) /\ Len(r) \in Nat /\ Len(t) \in Nat /\ Len(r) <= Len(t) /\ e <= Len(r) + 1
      /\ \A j \in 1..Len(r) : r[j] = t[j]
  BY DEF UpTo
<1>3. p <= Len(r) /\ ~(p > Len(r)) /\ ~(p > Len(t)) /\ r[p] = t[p]
  BY <1>1, <1>2
<1>4. l.pos = p /\ l.in = q /\ l.long = long
  BY <1>1 DEF Lexing
<1>5. \A c \in Quotes : Triple(r, p, c) <=> Triple(t, p, c)
  BY <1>1, <1>3, TripleUpTo
<1>6. CASE q = None
  <2>1. t[p] # "hash"
    BY <1>6 DEF Hash
  <2>2. Lex(r, l) = LexToken(r, l) /\ Lex(t, l) = LexToken(t, l)
    BY <1>3, <1>4, <1>6 DEF Lex, None
  <2>3. LexToken(r, l) = LexToken(t, l)
    <3>1. CASE t[p] \in Quotes /\ Triple(t, p, t[p])
      <4>1. Triple(r, p, t[p])
        BY <1>5, <3>1
      <4> QED BY <1>3, <1>4, <3>1, <4>1 DEF LexToken, Quotes
    <3>2. CASE t[p] \in Quotes /\ ~Triple(t, p, t[p])
      <4>1. ~Triple(r, p, t[p])
        BY <1>5, <3>2
      <4> QED BY <1>3, <1>4, <3>2, <4>1 DEF LexToken, Quotes
    <3>3. CASE t[p] \notin Quotes
      BY <1>3, <1>4, <2>1, <3>3 DEF LexToken
    <3> QED BY <3>1, <3>2, <3>3
  <2> QED BY <1>3, <2>2, <2>3
<1>7. CASE q # None
  <2>1. Lex(r, l) = LexString(r, l) /\ Lex(t, l) = LexString(t, l)
    BY <1>3, <1>4, <1>7 DEF Lex, None
  <2>2. q \in Quotes
    BY <1>1, <1>7
  <2>3. Triple(r, p, q) <=> Triple(t, p, q)
    BY <1>5, <2>2
  <2>4. LexString(r, l) = LexString(t, l)
    BY <1>3, <1>4, <2>3 DEF LexString
  <2> QED BY <1>3, <2>1, <2>4
<1> QED BY <1>6, <1>7
\* What the scanner passes from each of its states, the lexer's last place is one of.
LEMMA ScanFollows ==
  ASSUME NEW t \in Seq(STRING), NEW e, NEW long, NEW d, NEW x, LexesTo(t, e, long, d, x),
         NEW r, UpTo(t, e, r), NEW a,
         NEW V, Start \in V, \A s \in V : Next(r, a, s) \in V
  PROVE  At(e, None, d, x) \in V
<1> DEFINE Paired(l) == \E i \in Nat, u \in Quotes \cup {None} :
                          /\ Beside(r, l.pos, l.in, l.long, i, u)
                          /\ At(i, u, l.depth, l.splits) \in V
           T == {l \in Lexes : Paired(l)}
<1>1. /\ e \in 1..Len(t) + 1 /\ e \in Nat /\ Len(t) \in Nat
  BY DEF LexesTo
<1>2. /\ r \in Seq(STRING) /\ Len(r) \in Nat /\ Len(r) <= Len(t) /\ e <= Len(r) + 1
  BY DEF UpTo
<1>3. LexStart \in T
  <2>1. LexStart \in Lexes
    BY DEF LexStart, Lexes, None
  <2>2. /\ LexStart.pos = 1 /\ LexStart.in = None /\ LexStart.depth = 0 /\ LexStart.splits = {}
        /\ Start = At(1, None, 0, {})
    BY DEF LexStart, Start, At, None
  <2>3. Beside(r, LexStart.pos, LexStart.in, LexStart.long, 1, None)
    BY <2>2 DEF Beside, Same
  <2>4. At(1, None, LexStart.depth, LexStart.splits) \in V
    BY <2>2
  <2>5. Paired(LexStart)
    BY <2>3, <2>4
  <2> HIDE DEF Paired
  <2> QED BY <2>1, <2>5
<1>4. ASSUME NEW l \in T, NEW p, NEW q, NEW long1, NEW d1, NEW x1,
             Between(l, p, q, long1, d1, x1), p < e, p <= Len(t), q = None => t[p] # Hash,
             Whole(Lex(t, l)), Lex(t, l).pos <= e
      PROVE  Lex(t, l) \in T
  <2> DEFINE next == Lex(t, l)
  <2>1. /\ p \in Nat /\ q \in Quotes \cup {None} /\ long1 \in Lengths /\ d1 \in Int /\ x1 \in SUBSET Nat
        /\ l = Lexing(p, q, long1, d1, x1)
    BY <1>4 DEF Between
  <2>2. l.pos = p /\ l.in = q /\ l.long = long1 /\ l.depth = d1 /\ l.splits = x1
    BY <2>1 DEF Lexing
  <2>3. l \in Lexes /\ Paired(l)
    OBVIOUS
  <2>4. PICK i \in Nat, u \in Quotes \cup {None} : Beside(r, p, q, long1, i, u) /\ At(i, u, d1, x1) \in V
    BY <2>2, <2>3
  <2>5. ~(p > Len(r)) /\ r[p] = t[p] /\ Lex(r, l) = next
    BY <1>1, <1>4, LexUpTo
  <2>6. next \in Lexes
    BY <1>1, <2>3, LexTakes
  <2>7. next.pos <= Len(r) + 1
    <3>1. next.pos \in Nat
      BY <2>6 DEF Lexes
    <3> QED BY <1>1, <1>2, <1>4, <3>1
  <2>8. next = Lex(r, Lexing(p, q, long1, d1, x1)) /\ Whole(next) /\ (q = None => r[p] # Hash)
    BY <1>4, <2>1, <2>5
  <2> HIDE DEF next
  <2>9. Keeps(r, a, i, u, d1, x1, next)
    BY <1>2, <2>1, <2>4, <2>5, <2>7, <2>8, StaysBeside
  <2>10. PICK p2, i2 \in Nat, q2, u2 \in Quotes \cup {None}, long2 \in Lengths, d2 \in Int, x2 \in SUBSET Nat :
            /\ next = Lexing(p2, q2, long2, d2, x2)
            /\ Beside(r, p2, q2, long2, i2, u2)
            /\ GetsTo(r, a, i, u, d1, x1, At(i2, u2, d2, x2))
    BY <2>9 DEF Keeps
  <2>11. next.pos = p2 /\ next.in = q2 /\ next.long = long2 /\ next.depth = d2 /\ next.splits = x2
    BY <2>10 DEF Lexing
  <2>12. At(i2, u2, d2, x2) \in V
    BY <2>4, <2>10 DEF GetsTo
  <2>13. Paired(next)
    BY <2>10, <2>11, <2>12
  <2> HIDE DEF Paired
  <2> QED BY <2>6, <2>13 DEF next
<1>5. Lexing(e, None, long, d, x) \in T
  <2> HIDE DEF T
  <2>1. Passes(t, e, T)
    BY <1>3, <1>4 DEF Passes
  <2> QED BY <2>1 DEF LexesTo
<1>6. PICK i \in Nat, u \in Quotes \cup {None} : Beside(r, e, None, long, i, u) /\ At(i, u, d, x) \in V
  <2>1. Paired(Lexing(e, None, long, d, x))
    BY <1>5
  <2> QED BY <2>1 DEF Lexing
<1>7. ~TwoAhead(r, e, None, i, u)
  <2>1. CASE e <= Len(r)
    BY <2>1 DEF UpTo, TwoAhead, Quotes, Hash
  <2>2. CASE ~(e <= Len(r))
    BY <1>1, <1>2, <2>2 DEF TwoAhead
  <2> QED BY <2>1, <2>2
<1>8. None \notin Quotes
  BY DEF None, Quotes
<1>9. Same(e, None, i, u)
  BY <1>6, <1>7, <1>8 DEF Beside, OneAhead, OneBehind
<1> QED BY <1>6, <1>9 DEF Same

\* So the scanner ends with the lexer's brackets and separators.
LEMMA ScanEnds ==
  ASSUME NEW t \in Seq(STRING), NEW e, NEW long, NEW d, NEW x, LexesTo(t, e, long, d, x)
  PROVE  /\ Scan(t, Aware).depth = d
         /\ \A r, a : UpTo(t, e, r) /\ e = Len(r) + 1 => Scan(r, a).splits = x
<1>1. /\ e \in Nat /\ Len(t) \in Nat /\ e <= Len(t) + 1 /\ (e <= Len(t) => t[e] = Hash)
      /\ d \in Int /\ x \in SUBSET Nat
  BY DEF LexesTo
<1>2. Scan(t, Aware).depth = d
  <2>1. UpTo(t, e, t)
    BY <1>1 DEF UpTo
  <2>2. PICK V : /\ Start \in V
                 /\ \A s \in V : Next(t, Aware, s) \in V
                 /\ \A s \in V : s.pos > Len(t) => s = Scan(t, Aware)
    BY ScanReaches
  <2>3. At(e, None, d, x) \in V
    BY <2>1, <2>2, ScanFollows
  <2>4. CASE e > Len(t)
    <3>1. At(e, None, d, x) = Scan(t, Aware)
      BY <2>2, <2>3, <2>4 DEF At
    <3>2. At(e, None, d, x).depth = d
      BY DEF At
    <3> QED BY <3>1, <3>2
  <2>5. CASE ~(e > Len(t))
    <3>1. Next(t, Aware, At(e, None, d, x)) = At(Len(t) + 1, None, d, x)
      BY <1>1, <2>5, ScanComment
    <3>2. At(Len(t) + 1, None, d, x) \in V
      BY <2>2, <2>3, <3>1
    <3>3. At(Len(t) + 1, None, d, x).pos > Len(t) /\ At(Len(t) + 1, None, d, x).depth = d
      BY <1>1 DEF At
    <3> QED BY <2>2, <3>2, <3>3
  <2> QED BY <2>4, <2>5
<1>3. ASSUME NEW r, NEW a, UpTo(t, e, r), e = Len(r) + 1 PROVE Scan(r, a).splits = x
  <2>1. r \in Seq(STRING) /\ Len(r) \in Nat
    BY <1>3 DEF UpTo
  <2>2. PICK V : /\ Start \in V
                 /\ \A s \in V : Next(r, a, s) \in V
                 /\ \A s \in V : s.pos > Len(r) => s = Scan(r, a)
    BY <2>1, ScanReaches
  <2>3. At(e, None, d, x) \in V
    BY <1>3, <2>2, ScanFollows
  <2>4. At(e, None, d, x).pos > Len(r) /\ At(e, None, d, x).splits = x
    BY <1>3, <2>1 DEF At
  <2> QED BY <2>2, <2>3, <2>4
<1> QED BY <1>2, <1>3

-----------------------------------------------------------------------------
(* The stripper beside the lexer                                            *)

\* The stripper at p, in q.
Looking(p, q) == [pos |-> p, in |-> q]

\* What the stripper does with a character.
LEMMA SeekChar ==
  ASSUME NEW t, NEW p \in Nat, NEW q \in Quotes \cup {None}, ~(p > Len(t)),
         NEW next, next = SeekComment(t, Looking(p, q))
  PROVE  /\ t[p] = Escape => next = Looking(p + 2, q)
         /\ t[p] \in Quotes /\ q = None => next = Looking(p + 1, t[p])
         /\ t[p] \in Quotes /\ t[p] = q => next = Looking(p + 1, None)
         /\ t[p] \in Quotes /\ q # None /\ t[p] # q => next = Looking(p + 1, q)
         /\ t[p] = Hash /\ q # None => next = Looking(p + 1, q)
         /\ t[p] \notin Quotes \cup {Hash, Escape} => next = Looking(p + 1, q)
BY DEF SeekComment, Looking, Quotes, None, Escape, Hash

\* Three quotes open and close a string, and open or close another.
LEMMA SeekTriple ==
  ASSUME NEW t \in Seq(STRING), NEW p \in Nat, NEW c \in Quotes, Triple(t, p, c),
         NEW V, \A s \in V : SeekComment(t, s) \in V
  PROVE  /\ Looking(p, None) \in V => Looking(p + 3, c) \in V
         /\ Looking(p, c) \in V => Looking(p + 3, None) \in V
<1>1. p + 2 <= Len(t) /\ t[p] = c /\ t[p + 1] = c /\ t[p + 2] = c
  BY TripleIs
<1>2. /\ p + 1 \in Nat /\ p + 2 \in Nat /\ Len(t) \in Nat /\ (p + 1) + 1 = p + 2 /\ (p + 2) + 1 = p + 3
      /\ c \in Quotes \cup {None} /\ None \in Quotes \cup {None}
  OBVIOUS
<1>3. ~(p > Len(t)) /\ ~(p + 1 > Len(t)) /\ ~(p + 2 > Len(t)) /\ c # None
  <2>1. ~(p > Len(t)) /\ ~(p + 1 > Len(t)) /\ ~(p + 2 > Len(t))
    BY <1>1, <1>2
  <2>2. c # None
    BY DEF Quotes, None
  <2> QED BY <2>1, <2>2
<1>4. /\ SeekComment(t, Looking(p, None)) = Looking(p + 1, c)
      /\ SeekComment(t, Looking(p, c)) = Looking(p + 1, None)
  BY <1>1, <1>2, <1>3, SeekChar
<1>5. /\ SeekComment(t, Looking(p + 1, c)) = Looking(p + 2, None)
      /\ SeekComment(t, Looking(p + 1, None)) = Looking(p + 2, c)
  BY <1>1, <1>2, <1>3, SeekChar
<1>6. /\ SeekComment(t, Looking(p + 2, None)) = Looking(p + 3, c)
      /\ SeekComment(t, Looking(p + 2, c)) = Looking(p + 3, None)
  BY <1>1, <1>2, <1>3, SeekChar
<1> QED BY <1>4, <1>5, <1>6

\* With every token of the lexer the stripper gets to its place.
LEMMA SeekToken ==
  ASSUME NEW t \in Seq(STRING), NEW p \in Nat, ~(p > Len(t)),
         NEW q \in Quotes \cup {None}, NEW long \in Lengths, q = None => t[p] # Hash,
         NEW d \in Int, NEW x \in SUBSET Nat,
         NEW next, next = Lex(t, Lexing(p, q, long, d, x)), Whole(next),
         NEW V, \A s \in V : SeekComment(t, s) \in V, Looking(p, q) \in V
  PROVE  Looking(next.pos, next.in) \in V
<1>1. \A p2, q2, long2, d2, x2 : next = Lexing(p2, q2, long2, d2, x2) => next.pos = p2 /\ next.in = q2
  BY DEF Lexing
<1>2. SeekComment(t, Looking(p, q)) \in V
  OBVIOUS
<1>3. CASE q = None
  <2>1. next = Lex(t, Lexing(p, None, long, d, x))
    BY <1>3
  <2>2. CASE t[p] \in Quotes /\ Triple(t, p, t[p])
    <3>1. next = Lexing(p + 3, t[p], Long, d, x)
      BY <2>1, <2>2, LexOutside
    <3>2. Looking(p + 3, t[p]) \in V
      BY <1>3, <2>2, SeekTriple
    <3> QED BY <1>1, <3>1, <3>2
  <2>3. CASE t[p] \in Quotes /\ ~Triple(t, p, t[p])
    <3>1. next = Lexing(p + 1, t[p], Short, d, x)
      BY <2>1, <2>3, LexOutside
    <3>2. Looking(p + 1, t[p]) \in V
      BY <1>2, <1>3, <2>3, SeekChar
    <3> QED BY <1>1, <3>1, <3>2
  <2>4. CASE t[p] \notin Quotes
    <3>1. t[p] # Escape /\ t[p] # Hash
      BY <1>3, <2>1, LexOutside
    <3>2. \/ next = Lexing(p + 1, None, long, d, x)
          \/ next = Lexing(p + 1, None, long, d, With(x, p))
          \/ next = Lexing(p + 1, None, long, d + 1, x)
          \/ next = Lexing(p + 1, None, long, d - 1, x)
      BY <2>1, <2>4, <3>1, LexOutside
    <3>3. Looking(p + 1, None) \in V
      BY <1>2, <1>3, <2>4, <3>1, SeekChar
    <3> QED BY <1>1, <3>2, <3>3
  <2> QED BY <2>2, <2>3, <2>4
<1>4. CASE q # None
  <2>1. q \in Quotes
    BY <1>4
  <2>2. CASE t[p] = Escape
    <3>1. next = Lexing(p + 2, q, long, d, x)
      BY <2>1, <2>2, LexInside
    <3>2. Looking(p + 2, q) \in V
      BY <1>2, <2>2, SeekChar
    <3> QED BY <1>1, <3>1, <3>2
  <2>3. CASE t[p] = q /\ long = Short
    <3>1. next = Lexing(p + 1, None, long, d, x)
      BY <2>1, <2>3, LexInside
    <3>2. Looking(p + 1, None) \in V
      BY <1>2, <2>1, <2>3, SeekChar
    <3> QED BY <1>1, <3>1, <3>2
  <2>4. CASE t[p] = q /\ long = Long
    <3>1. Triple(t, p, q) /\ next = Lexing(p + 3, None, long, d, x)
      BY <2>1, <2>4, LexInside
    <3>2. Looking(p + 3, None) \in V
      BY <2>1, <3>1, SeekTriple
    <3> QED BY <1>1, <3>1, <3>2
  <2>5. CASE t[p] \notin {Escape, q}
    <3>1. next = Lexing(p + 1, q, long, d, x)
      BY <2>1, <2>5, LexInside
    <3>2. Looking(p + 1, q) \in V
      BY <1>2, <1>4, <2>5, SeekChar
    <3> QED BY <1>1, <3>1, <3>2
  <2> QED BY <2>2, <2>3, <2>4, <2>5 DEF Lengths
<1> QED BY <1>3, <1>4

\* So it finds the lexer's comment, and what it leaves is the text up to it.
LEMMA SeekEnds ==
  ASSUME NEW t \in Seq(STRING), NEW e, NEW long, NEW d, NEW x, LexesTo(t, e, long, d, x)
  PROVE  CommentStart(t) = e
<1>1. /\ e \in Nat /\ Len(t) \in Nat /\ e <= Len(t) + 1 /\ (e <= Len(t) => t[e] = Hash)
  BY DEF LexesTo
<1>2. PICK V : /\ SeekStart \in V
               /\ \A s \in V : SeekComment(t, s) \in V
               /\ \A s \in V : SeekComment(t, s) = s => s.pos = CommentStart(t)
  BY SeekReaches
<1> DEFINE T == {l \in Lexes : Looking(l.pos, l.in) \in V}
<1>3. LexStart \in T
  <2>1. LexStart \in Lexes /\ LexStart.pos = 1 /\ LexStart.in = None
    BY DEF LexStart, Lexes, None
  <2>2. SeekStart = Looking(1, None)
    BY DEF SeekStart, Looking
  <2> QED BY <1>2, <2>1, <2>2
<1>4. ASSUME NEW l \in T, NEW p, NEW q, NEW long1, NEW d1, NEW x1,
             Between(l, p, q, long1, d1, x1), p < e, p <= Len(t), q = None => t[p] # Hash,
             Whole(Lex(t, l)), Lex(t, l).pos <= e
      PROVE  Lex(t, l) \in T
  <2> DEFINE next == Lex(t, l)
  <2>1. /\ p \in Nat /\ q \in Quotes \cup {None} /\ long1 \in Lengths /\ d1 \in Int /\ x1 \in SUBSET Nat
        /\ l = Lexing(p, q, long1, d1, x1)
    BY <1>4 DEF Between
  <2>2. l.pos = p /\ l.in = q
    BY <2>1 DEF Lexing
  <2>3. l \in Lexes /\ Looking(p, q) \in V
    BY <2>2
  <2>4. next \in Lexes
    BY <1>1, <2>3, LexTakes
  <2>5. next = Lex(t, Lexing(p, q, long1, d1, x1)) /\ Whole(next) /\ ~(p > Len(t))
    BY <1>1, <1>4, <2>1
  <2> HIDE DEF next
  <2>6. Looking(next.pos, next.in) \in V
    BY <1>2, <1>4, <2>1, <2>3, <2>5, SeekToken
  <2> QED BY <2>4, <2>6 DEF next
<1>5. Lexing(e, None, long, d, x) \in T
  <2> HIDE DEF T
  <2>1. Passes(t, e, T)
    BY <1>3, <1>4 DEF Passes
  <2> QED BY <2>1 DEF LexesTo
<1>6. Looking(e, None) \in V
  BY <1>5 DEF Lexing
<1>7. SeekComment(t, Looking(e, None)) = Looking(e, None)
  <2>1. Looking(e, None).pos = e /\ Looking(e, None).in = ""
    BY DEF Looking, None
  <2>2. e > Len(t) \/ t[e] = "hash"
    BY <1>1 DEF Hash
  <2> HIDE DEF T
  <2> QED BY <2>1, <2>2 DEF SeekComment
<1>8. Looking(e, None).pos = e
  BY DEF Looking
<1> QED BY <1>2, <1>6, <1>7, <1>8

\* What it strips is the lexer's comment.
LEMMA StripsToComment ==
  ASSUME NEW t \in Seq(STRING), NEW e, NEW long, NEW d, NEW x, LexesTo(t, e, long, d, x),
         NEW r, r = StripInlineComments(t)
  PROVE  UpTo(t, e, r) /\ Len(r) + 1 = e
<1>1. /\ e \in Nat /\ e >= 1 /\ Len(t) \in Nat /\ e <= Len(t) + 1 /\ (e <= Len(t) => t[e] = Hash)
  BY DEF LexesTo
<1>2. CommentStart(t) = e
  BY SeekEnds
<1>3. CASE e > Len(t)
  <2>1. r = t
    BY <1>2, <1>3 DEF StripInlineComments
  <2>2. e = Len(t) + 1
    BY <1>1, <1>3
  <2> QED BY <1>1, <2>1, <2>2 DEF UpTo
<1>4. CASE ~(e > Len(t))
  <2>1. r = SubSeq(t, 1, e - 1)
    BY <1>2, <1>4 DEF StripInlineComments
  <2>2. r \in Seq(STRING) /\ Len(r) = e - 1 /\ \A i \in 1..e - 1 : r[i] = t[i]
    BY <1>1, <1>4, <2>1, SubSeqProperties
  <2>3. Len(r) + 1 = e /\ Len(r) <= Len(t) /\ ~(e <= Len(r)) /\ t[e] = Hash /\ e <= Len(r) + 1
    BY <1>1, <1>4, <2>2
  <2> QED BY <2>2, <2>3 DEF UpTo
<1> QED BY <1>3, <1>4

\* string_scanner.rs:1 (and trampoline.rs, which strips comments before it splits): in a text of
\* whole tokens of Python, whose triple-quoted strings hold no quote of their own kind, the
\* scanner finds the lexer's brackets, its separators and its comment.
THEOREM ScannerFindsTokens ==
  ASSUME NEW t \in Seq(STRING), WellFormed(t), ~Lexed(t).odd
  PROVE  LET stripped == StripInlineComments(t)
         IN /\ ParenDepthChange(t) = Lexed(t).depth
            /\ SplitsAtDepth0(stripped) = Lexed(t).splits
            /\ Len(stripped) = IF Lexed(t).comment = 0 THEN Len(t) ELSE Lexed(t).comment - 1
<1> DEFINE r == StripInlineComments(t)
<1>1. PICK e, long, d, x : LexesTo(t, e, long, d, x)
  BY LexArrives
<1>2. /\ e \in Nat /\ e >= 1 /\ Len(t) \in Nat /\ e <= Len(t) + 1
      /\ Lexed(t).depth = d /\ Lexed(t).splits = x
      /\ Lexed(t).comment = IF e <= Len(t) THEN e ELSE 0
  BY <1>1 DEF LexesTo
<1>3. UpTo(t, e, r) /\ Len(r) + 1 = e
  BY <1>1, StripsToComment
<1>4. ParenDepthChange(t) = d
  BY <1>1, ScanEnds DEF ParenDepthChange, Aware
<1>5. SplitsAtDepth0(r) = x
  <2>1. \A a : Scan(r, a).splits = x
    BY <1>1, <1>3, ScanEnds
  <2> HIDE DEF r
  <2> QED BY <2>1 DEF SplitsAtDepth0
<1>6. Len(r) = IF Lexed(t).comment = 0 THEN Len(t) ELSE Lexed(t).comment - 1
  <2>1. r \in Seq(STRING)
    BY <1>3 DEF UpTo
  <2>2. Len(r) \in Nat
    BY <2>1
  <2> HIDE DEF r
  <2> QED BY <1>2, <1>3, <2>2
<1> QED BY <1>2, <1>4, <1>5, <1>6
====
