----------------------- MODULE CallsAndFilters_proofs -----------------------
(***************************************************************************)
(* Proofs about CallsAndFilters: sample, dispatch, wrapper, diff, type     *)
(* errors, reports, patterns, imports, names and texts, for every input.   *)
(* What a recursive function computes is proved by induction over the set  *)
(* of the numbers, or places, for which it is true.                        *)
(***************************************************************************)
EXTENDS CallsAndFilters, StringScanner_proofs, FiniteSetTheorems

-----------------------------------------------------------------------------
(* Samples                                                                  *)

\* The sums of the first numbers: none is 0, and each adds the next number (sample_mutants' total).
LEMMA SumsDef ==
  ASSUME NEW c \in Seq(Nat)
  PROVE  /\ Sampler!Sums(c) \in [0..Len(c) -> Nat]
         /\ Sampler!Sums(c)[0] = 0
         /\ \A i \in 1..Len(c) : Sampler!Sums(c)[i] = Sampler!Sums(c)[i - 1] + c[i]
<1> DEFINE n == Len(c)
           step == [i \in 1..n |-> [v \in Nat |-> v + c[i]]]
           Is(f) == f = [i \in 0..n |-> IF i = 0 THEN 0 ELSE f[i - 1] + c[i]]
<1>1. n \in Nat /\ \A i \in 1..n : c[i] \in Nat
  OBVIOUS
<1>2. step \in [1..n -> [Nat -> Nat]]
  BY <1>1
<1>3. PICK f : Steps(f, n, Nat, 0, step)
  <2>1. n \in Nat /\ 0 \in Nat
    BY <1>1
  <2> HIDE DEF step, n, Is
  <2> QED BY <1>2, <2>1, Recursion
<1>4. Is(f)
  <2>1. ASSUME NEW i \in 1..n PROVE f[i] = f[i - 1] + c[i]
    <3>0. i - 1 \in 0..n
      BY <1>1
    <3>1. f[i - 1] \in Nat
      <4> HIDE DEF step
      <4> QED BY <1>3, <3>0 DEF Steps
    <3> QED BY <1>3, <3>1 DEF Steps
  <2>2. \A i \in 0..n : i = 0 \/ i \in 1..n
    BY <1>1
  <2>3. \A i \in 0..n : f[i] = IF i = 0 THEN 0 ELSE f[i - 1] + c[i]
    BY <1>3, <2>1, <2>2 DEF Steps
  <2>4. f = [i \in 0..n |-> f[i]]
    BY <1>3 DEF Steps
  <2> QED BY <2>3, <2>4
<1>5. Sampler!Sums(c) = CHOOSE g : Is(g)
  BY DEF Sampler!Sums
<1>6. Is(Sampler!Sums(c))
  <2> HIDE DEF Is
  <2> QED BY <1>4, <1>5
<1> DEFINE s == Sampler!Sums(c)
           S == {i \in Nat : i <= n => s[i] \in Nat}
<1>7. s[0] = 0 /\ \A i \in 1..n : s[i] = s[i - 1] + c[i]
  BY <1>1, <1>6
<1>8. ASSUME NEW i \in Nat, i \in S PROVE i + 1 \in S
  <2> HIDE DEF s
  <2> SUFFICES ASSUME i + 1 <= n PROVE s[i + 1] \in Nat
    OBVIOUS
  <2>1. i + 1 \in 1..n /\ (i + 1) - 1 = i /\ s[i] \in Nat
    BY <1>1, <1>8
  <2>2. s[i + 1] = s[i] + c[i + 1]
    BY <1>7, <2>1
  <2> QED BY <1>1, <2>1, <2>2
<1>9. Nat \subseteq S
  <2>1. 0 \in S
    BY <1>7
  <2> HIDE DEF S
  <2> QED BY <1>8, <2>1, SetInduction
<1>10. s = [i \in 0..n |-> s[i]]
  BY <1>6
<1>11. \A i \in 0..n : s[i] \in Nat
  BY <1>1, <1>9
<1> QED
  <2> HIDE DEF s
  <2>1. s \in [0..n -> Nat]
    BY <1>10, <1>11
  <2> QED BY <1>7, <2>1 DEF s

-----------------------------------------------------------------------------
(* Minima, quotients and products                                           *)

\* The least of three numbers is one of them and bounds the others.
LEMMA MinOf3 ==
  ASSUME NEW a \in Int, NEW b \in Int, NEW c \in Int
  PROVE  /\ Sampler!Min({a, b, c}) \in {a, b, c}
         /\ Sampler!Min({a, b, c}) <= a
         /\ Sampler!Min({a, b, c}) <= b
         /\ Sampler!Min({a, b, c}) <= c
<1>1. \E m \in {a, b, c} : \A y \in {a, b, c} : m <= y
  <2>1. CASE a <= b /\ a <= c
    BY <2>1
  <2>2. CASE b <= a /\ b <= c
    BY <2>2
  <2>3. CASE c <= a /\ c <= b
    BY <2>3
  <2> QED BY <2>1, <2>2, <2>3
<1> QED
  BY <1>1 DEF Sampler!Min

\* The greater of two numbers.
LEMMA MaxOf2 ==
  ASSUME NEW a \in Int, NEW b \in Int
  PROVE  /\ Sampler!Max({a, b}) \in {a, b}
         /\ Sampler!Max({a, b}) >= a
         /\ Sampler!Max({a, b}) >= b
<1>1. \E m \in {a, b} : \A y \in {a, b} : m >= y
  <2>1. CASE a <= b
    BY <2>1
  <2>2. CASE b <= a
    BY <2>2
  <2> QED BY <2>1, <2>2
<1> QED
  BY <1>1 DEF Sampler!Max

\* The lesser of two numbers.
LEMMA MinOf2 ==
  ASSUME NEW a \in Int, NEW b \in Int
  PROVE  /\ Sampler!Min({a, b}) \in {a, b}
         /\ Sampler!Min({a, b}) <= a
         /\ Sampler!Min({a, b}) <= b
<1>1. \E m \in {a, b} : \A y \in {a, b} : m <= y
  <2>1. CASE a <= b
    BY <2>1
  <2>2. CASE b <= a
    BY <2>2
  <2> QED BY <2>1, <2>2
<1> QED
  BY <1>1 DEF Sampler!Min

\* The quotient, rounded down.
LEMMA Division ==
  ASSUME NEW a \in Nat, NEW b \in Nat \ {0}
  PROVE  /\ a \div b \in Nat
         /\ b * (a \div b) <= a
         /\ a < b * (a \div b) + b
  OBVIOUS

\* A factor keeps the order.
LEMMA ProductOrder ==
  \A a, b, c \in Nat : a <= b => c * a <= c * b /\ c * a \in Nat /\ c * b \in Nat
  OBVIOUS

\* The target of a sample is one mutant at least and all of them at most.
LEMMA TargetInRange ==
  ASSUME NEW total \in Nat \ {0}, NEW p \in Nat, NEW q \in Nat \ {0}
  PROVE  /\ Sampler!TargetCount(total, <<p, q>>) \in 1..total
<1> DEFINE asked == IF p > 0 /\ p <= q THEN Sampler!Ceil(total * p, q)
                    ELSE Sampler!Min({p \div q, total})
<1>1. Sampler!TargetCount(total, <<p, q>>) = Sampler!Max({1, asked})
  BY DEF Sampler!TargetCount
<1>2. asked \in Nat /\ asked <= total
  <2>1. CASE p > 0 /\ p <= q
    <3> DEFINE d == (total * p + q - 1) \div q
    <3>1. total * p <= total * q /\ total * p \in Nat /\ total * q \in Nat
      BY <2>1, ProductOrder
    <3>2. total * p + q - 1 \in Nat
      BY <3>1
    <3>3. d \in Nat /\ q * d <= total * p + q - 1
      BY <3>2, Division
    <3>4. q * d < q * (total + 1)
      <4>1. q * (total + 1) = total * q + q
        OBVIOUS
      <4>2. q * d \in Nat
        BY <3>3
      <4> HIDE DEF d
      <4> QED BY <3>1, <3>3, <4>1, <4>2
    <3>5. ~(total + 1 <= d)
      BY <3>3, <3>4, ProductOrder
    <3> QED BY <2>1, <3>3, <3>5 DEF Sampler!Ceil
  <2>2. CASE ~(p > 0 /\ p <= q)
    <3> DEFINE k == p \div q
    <3>1. k \in Nat
      BY Division
    <3>2. asked = Sampler!Min({k, total})
      BY <2>2
    <3> HIDE DEF k, asked
    <3>3. /\ Sampler!Min({k, total}) \in {k, total}
          /\ Sampler!Min({k, total}) <= total
      BY <3>1, MinOf2
    <3> QED BY <3>1, <3>2, <3>3
  <2> QED BY <2>1, <2>2
<1> HIDE DEF asked
<1>3. /\ Sampler!Max({1, asked}) \in {1, asked}
      /\ Sampler!Max({1, asked}) >= 1
  BY <1>2, MaxOf2
<1> QED BY <1>1, <1>2, <1>3

\* An operator's share is within what remains and what it has; short of both, it is one at
\* least and not less than its part of the target, rounded.
LEMMA ShareInRange ==
  ASSUME NEW c \in Seq(Nat), NEW i \in 1..Len(c), NEW t \in Nat, NEW left \in Nat,
         Sampler!Total(c) \in Nat \ {0}
  PROVE  LET share == Sampler!Share(c, i, t, left)
         IN /\ share \in Nat /\ share <= left /\ share <= c[i]
            /\ \/ share = left
               \/ share = c[i]
               \/ i # Len(c) /\ share >= 1 /\ share >= Sampler!Round(c[i] * t, Sampler!Total(c))
<1> DEFINE total == Sampler!Total(c)
           r == Sampler!Round(c[i] * t, total)
           part == IF i = Len(c) THEN left ELSE Sampler!Max({1, r})
           share == Sampler!Share(c, i, t, left)
<1>1. c[i] \in Nat /\ c[i] * t \in Nat /\ i \in Nat
  BY ProductOrder
<1>2. r \in Nat
  <2>1. 2 * (c[i] * t) + total \in Nat /\ 2 * total \in Nat \ {0}
    BY <1>1, SMTT(30)
  <2> HIDE DEF total
  <2> QED BY <2>1, Division DEF Sampler!Round
<1>3. part \in Nat /\ (i # Len(c) => part >= 1 /\ part >= r) /\ (i = Len(c) => part = left)
  <2> HIDE DEF r, total
  <2>1. Sampler!Max({1, r}) \in {1, r} /\ Sampler!Max({1, r}) >= 1 /\ Sampler!Max({1, r}) >= r
    <3> HIDE DEF part, share
    <3>1. r \in Int /\ 1 \in Int
      BY <1>2
    <3> QED BY <3>1, MaxOf2
  <2> QED BY <1>2, <2>1
<1>4. share = Sampler!Min({left, c[i], part})
  BY DEF Sampler!Share
<1> HIDE DEF part, share
<1>5. /\ Sampler!Min({left, c[i], part}) \in {left, c[i], part}
      /\ Sampler!Min({left, c[i], part}) <= left
      /\ Sampler!Min({left, c[i], part}) <= c[i]
  <2> DEFINE cap == c[i]
  <2>1. cap \in Int /\ part \in Int /\ left \in Int
    BY <1>1, <1>3
  <2> HIDE DEF cap, r, total
  <2>2. /\ Sampler!Min({left, cap, part}) \in {left, cap, part}
        /\ Sampler!Min({left, cap, part}) <= left
        /\ Sampler!Min({left, cap, part}) <= cap
    BY <2>1, MinOf3
  <2> QED BY <2>2 DEF cap
<1>6. /\ share \in Nat /\ share <= left /\ share <= c[i]
      /\ share = left \/ share = c[i] \/ (i # Len(c) /\ share >= 1 /\ share >= r)
  BY <1>1, <1>3, <1>4, <1>5
<1> QED BY <1>6 DEF share

\* What remains of the target: all of it at first, less by the share of each operator.
LEMMA RemainingDef ==
  ASSUME NEW c \in Seq(Nat), NEW t \in Nat, Sampler!Total(c) \in Nat \ {0}
  PROVE  LET left == Sampler!Remaining(c, t)
         IN /\ left \in [0..Len(c) -> Nat]
            /\ left[0] = t
            /\ \A i \in 1..Len(c) : left[i] = left[i - 1] - Sampler!Share(c, i, t, left[i - 1])
<1> DEFINE n == Len(c)
           step == [i \in 1..n |-> [v \in Nat |-> v - Sampler!Share(c, i, t, v)]]
           Is(f) == f = [i \in 0..n |-> IF i = 0 THEN t
                                        ELSE f[i - 1] - Sampler!Share(c, i, t, f[i - 1])]
<1>1. n \in Nat
  OBVIOUS
<1>2. step \in [1..n -> [Nat -> Nat]]
  <2>1. ASSUME NEW i \in 1..n, NEW v \in Nat PROVE v - Sampler!Share(c, i, t, v) \in Nat
    <3> DEFINE share == Sampler!Share(c, i, t, v)
    <3>1. share \in Nat /\ share <= v
      BY ShareInRange
    <3> HIDE DEF share
    <3>2. v - share \in Nat
      BY <3>1
    <3> QED BY <3>2 DEF share
  <2> QED BY <2>1
<1>3. PICK f : Steps(f, n, Nat, t, step)
  <2> HIDE DEF step, n, Is
  <2> QED BY <1>1, <1>2, Recursion
<1>4. Is(f)
  <2>1. ASSUME NEW i \in 1..n
        PROVE  f[i] = f[i - 1] - Sampler!Share(c, i, t, f[i - 1])
    <3>1. i - 1 \in 0..n
      BY <1>1
    <3>2. f[i - 1] \in Nat
      <4> HIDE DEF step
      <4> QED BY <1>3, <3>1 DEF Steps
    <3>3. f[i] = step[i][f[i - 1]]
      <4> HIDE DEF step
      <4> QED BY <1>3 DEF Steps
    <3> QED BY <3>2, <3>3
  <2>2. \A i \in 0..n : i = 0 \/ i \in 1..n
    BY <1>1
  <2>3. f = [i \in 0..n |-> f[i]] /\ f[0] = t
    <3> HIDE DEF step
    <3> QED BY <1>3 DEF Steps
  <2>4. \A i \in 0..n : f[i] = IF i = 0 THEN t ELSE f[i - 1] - Sampler!Share(c, i, t, f[i - 1])
    BY <2>1, <2>2, <2>3
  <2> QED BY <2>3, <2>4
<1> DEFINE left == Sampler!Remaining(c, t)
<1>5. Is(left)
  <2>1. left = CHOOSE g : Is(g)
    BY DEF Sampler!Remaining
  <2> HIDE DEF Is, left
  <2> QED BY <1>4, <2>1
<1>6. /\ left = [i \in 0..n |-> left[i]] /\ left[0] = t
      /\ \A i \in 1..n : left[i] = left[i - 1] - Sampler!Share(c, i, t, left[i - 1])
  <2> HIDE DEF left
  <2>1. 0 \in 0..n /\ \A i \in 1..n : i \in 0..n /\ i # 0
    BY <1>1
  <2> QED BY <1>5, <2>1
<1> HIDE DEF left
<1> DEFINE S == {i \in Nat : i <= n => left[i] \in Nat}
<1>7. ASSUME NEW i \in Nat, i \in S PROVE i + 1 \in S
  <2> SUFFICES ASSUME i + 1 <= n PROVE left[i + 1] \in Nat
    OBVIOUS
  <2>1. i + 1 \in 1..n /\ (i + 1) - 1 = i /\ left[i] \in Nat
    BY <1>1, <1>7
  <2>2. left[i + 1] = left[i] - Sampler!Share(c, i + 1, t, left[i])
    BY <1>6, <2>1
  <2>3. left[i] - Sampler!Share(c, i + 1, t, left[i]) \in Nat
    <3> DEFINE share == Sampler!Share(c, i + 1, t, left[i])
    <3>1. share \in Nat /\ share <= left[i]
      BY <2>1, ShareInRange
    <3> HIDE DEF share
    <3>2. left[i] - share \in Nat
      BY <2>1, <3>1
    <3> QED BY <3>2 DEF share
  <2> QED BY <2>2, <2>3
<1>8. Nat \subseteq S
  <2>1. 0 \in S
    BY <1>6
  <2> HIDE DEF S
  <2> QED BY <1>7, <2>1, SetInduction
<1>9. left \in [0..n -> Nat]
  <2>1. \A i \in 0..n : left[i] \in Nat
    BY <1>1, <1>8
  <2> QED BY <1>6, <2>1
<1> QED BY <1>6, <1>9 DEF left

\* A share that is not less than the rounded part falls short of the exact one by half a
\* mutant at most.
LEMMA RoundingStep ==
  ASSUME NEW total \in Nat \ {0}, NEW t \in Nat, NEW c \in Nat, NEW share \in Nat,
         share >= Sampler!Round(c * t, total)
  PROVE  2 * (total * share) + total >= 2 * (t * c)
<1> DEFINE a == 2 * (c * t) + total
           b == 2 * total
           d == a \div b
<1>1. c * t \in Nat /\ c * t = t * c
  BY ProductOrder
<1>2. a \in Nat /\ b \in Nat \ {0}
  BY <1>1
<1>3. d \in Nat /\ a < b * d + b
  <2> HIDE DEF a, b
  <2> QED BY <1>2, Division
<1>4. share >= d
  BY DEF Sampler!Round
<1> HIDE DEF d
<1>5. b * d <= b * share
  BY <1>2, <1>3, <1>4, ProductOrder
<1>6. b * share = 2 * (total * share) /\ total * share \in Nat
  OBVIOUS
<1>7. b * d \in Nat /\ b * share \in Nat
  BY <1>2, <1>3
<1> HIDE DEF b
<1>8. a < b * share + b
  BY <1>2, <1>3, <1>5, <1>7
<1> QED BY <1>1, <1>6, <1>8 DEF a, b

\* Products of sums and differences.
LEMMA Distribute ==
  \A a, b, c \in Int : /\ a * (b - c) = a * b - a * c /\ a * (b + c) = a * b + a * c
                       /\ a * b \in Int
  OBVIOUS

\* What remains after the last operator is at most half a mutant for each.
LEMMA ShortBy ==
  ASSUME NEW c \in Seq(Nat \ {0}), Len(c) > 0, NEW t \in Nat, t < Sampler!Total(c)
  PROVE  2 * Sampler!Remaining(c, t)[Len(c)] <= Len(c)
<1> DEFINE n == Len(c)
           sum == Sampler!Sums(c)
           total == Sampler!Total(c)
           left == Sampler!Remaining(c, t)
           Kept(i) == left[i] = 0 \/ 2 * (total * left[i]) <= 2 * (t * (total - sum[i])) + i * total
           S == {i \in Nat : i <= n => Kept(i)}
<1>1. n \in Nat /\ c \in Seq(Nat) /\ \A i \in 1..n : c[i] \in Nat \ {0}
  OBVIOUS
<1>2. /\ \A i \in 0..n : sum[i] \in Nat
      /\ sum[0] = 0 /\ \A i \in 1..n : sum[i] = sum[i - 1] + c[i]
      /\ total = sum[n]
  <2>1. total = sum[n]
    BY DEF Sampler!Total
  <2> QED BY <1>1, <2>1, SumsDef
<1>3. total \in Nat \ {0}
  <2> HIDE DEF sum, total, n
  <2>1. total \in Nat
    BY <1>1, <1>2
  <2> QED BY <2>1 DEF total
<1>4. /\ \A i \in 0..n : left[i] \in Nat
      /\ left[0] = t
      /\ \A i \in 1..n : left[i] = left[i - 1] - Sampler!Share(c, i, t, left[i - 1])
  BY <1>1, <1>3, RemainingDef
<1>5. \A i \in 1..n, v \in Nat :
         LET share == Sampler!Share(c, i, t, v)
         IN /\ share \in Nat /\ share <= v /\ share <= c[i]
            /\ \/ share = v
               \/ share = c[i]
               \/ i # Len(c) /\ share >= 1 /\ share >= Sampler!Round(c[i] * t, total)
  BY <1>1, <1>3, ShareInRange
<1> HIDE DEF sum, left, total
<1>6. ASSUME NEW i \in Nat, i + 1 <= n, Kept(i) PROVE Kept(i + 1)
  <2> DEFINE l == left[i]
             k == left[i + 1]
             d == c[i + 1]
             share == Sampler!Share(c, i + 1, t, l)
             s == sum[i]
  <2>1. /\ i + 1 \in 1..n /\ (i + 1) - 1 = i /\ i \in 0..n /\ i + 1 \in 0..n
    BY <1>1, <1>6
  <2>2. /\ l \in Nat /\ k \in Nat /\ d \in Nat \ {0} /\ s \in Nat
        /\ k = l - share /\ sum[i + 1] = s + d
    BY <1>1, <1>2, <1>4, <2>1
  <2>3. /\ share \in Nat /\ share <= l
        /\ share = l \/ share = d \/ share >= Sampler!Round(d * t, total)
    BY <1>5, <2>1, <2>2
  <2>4. CASE share = l
    BY <2>2, <2>4
  <2>5. CASE l = 0
    BY <2>2, <2>3, <2>5
  <2>6. CASE l # 0 /\ share # l
    <3>1. 2 * (total * share) + total >= 2 * (t * d)
      <4>1. CASE share = d
        <5>1. d * t <= d * total /\ d * t \in Nat /\ d * total \in Nat
          BY <1>3, <2>2, ProductOrder, SMTT(30) DEF total
        <5>2. d * t = t * d /\ d * total = total * d
          BY <1>3, <2>2
        <5> HIDE DEF d, share
        <5> QED BY <1>3, <4>1, <5>1, <5>2
      <4>2. CASE share >= Sampler!Round(d * t, total)
        <5> HIDE DEF d, share
        <5> QED BY <1>3, <2>2, <2>3, <4>2, RoundingStep
      <4> QED BY <2>3, <2>6, <4>1, <4>2
    <3>2. 2 * (total * l) <= 2 * (t * (total - s)) + i * total
      BY <1>6, <2>6
    <3> HIDE DEF l, k, d, share, s
    <3>3. total * k = total * l - total * share
      BY <1>3, <2>2, <2>3, Distribute
    <3>4. t * (total - (s + d)) = t * (total - s) - t * d
      BY <1>3, <2>2, Distribute
    <3>5. (i + 1) * total = i * total + total
      BY <1>3
    <3>6. /\ total * k \in Int /\ total * l \in Int /\ total * share \in Int
          /\ t * (total - (s + d)) \in Int /\ t * (total - s) \in Int /\ t * d \in Int
          /\ i * total \in Int /\ (i + 1) * total \in Int
      BY <1>3, <2>2, <2>3
    <3>7. 2 * (total * k) <= 2 * (t * (total - (s + d))) + (i + 1) * total
      <4> DEFINE e1 == total * k
                 e2 == total * l
                 e3 == total * share
                 f1 == t * (total - (s + d))
                 f2 == t * (total - s)
                 f3 == t * d
                 g1 == (i + 1) * total
                 g2 == i * total
      <4>1. /\ 2 * e3 + total >= 2 * f3 /\ 2 * e2 <= 2 * f2 + g2
            /\ e1 = e2 - e3 /\ f1 = f2 - f3 /\ g1 = g2 + total
        BY <3>1, <3>2, <3>3, <3>4, <3>5
      <4>2. /\ e1 \in Int /\ e2 \in Int /\ e3 \in Int /\ f1 \in Int /\ f2 \in Int
            /\ f3 \in Int /\ g1 \in Int /\ g2 \in Int /\ total \in Int
        BY <1>3, <3>6
      <4>3. 2 * e1 <= 2 * f1 + g1
        <5> HIDE DEF e1, e2, e3, f1, f2, f3, g1, g2
        <5> QED BY <4>1, <4>2
      <4> QED BY <4>3
    <3> QED BY <2>2, <3>7 DEF k
  <2> QED BY <2>4, <2>5, <2>6
<1>7. Kept(0)
  <2>1. 2 * (total * t) <= 2 * (t * (total - 0)) + 0 * total
    BY <1>3
  <2> QED BY <1>2, <1>4, <2>1
<1>8. Kept(n)
  <2> HIDE DEF Kept
  <2>1. 0 \in S
    BY <1>7
  <2>2. \A i \in Nat : i \in S => i + 1 \in S
    <3> SUFFICES ASSUME NEW i \in Nat, i \in S, i + 1 <= n PROVE Kept(i + 1)
      OBVIOUS
    <3> QED BY <1>1, <1>6
  <2>3. Nat \subseteq S
    <3> HIDE DEF S
    <3> QED BY <2>1, <2>2, SetInduction
  <2> QED BY <1>1, <2>3
<1> DEFINE r == left[n]
<1>9. r \in Nat
  BY <1>1, <1>4
<1>10. r = 0 \/ 2 * (total * r) <= n * total
  <2>1. t * (total - sum[n]) = 0 /\ n * total \in Nat
    BY <1>1, <1>2, <1>3, SMTT(30)
  <2>2. left[n] = 0 \/ 2 * (total * left[n]) <= 2 * (t * (total - sum[n])) + n * total
    BY <1>8
  <2> DEFINE e == t * (total - sum[n])
             p == n * total
             q == 2 * (total * left[n])
  <2>3. e = 0 /\ p \in Nat /\ (left[n] = 0 \/ q <= 2 * e + p)
    BY <2>1, <2>2
  <2>4. left[n] = 0 \/ q <= p
    <3> HIDE DEF e, p, q
    <3> QED BY <2>3
  <2> QED BY <2>4
<1> HIDE DEF r
<1>11. 2 * r <= n
  <2>1. CASE r = 0
    BY <1>1, <2>1
  <2>2. CASE 2 * (total * r) <= n * total
    <3>1. 2 * (total * r) = total * (2 * r) /\ n * total = total * n
      BY <1>1, <1>3, <1>9
    <3>2. CASE n + 1 <= 2 * r
      <4>1. total * (n + 1) <= total * (2 * r)
        BY <1>1, <1>3, <1>9, <3>2, ProductOrder, SMTT(30)
      <4>2. total * (n + 1) = total * n + total /\ total * n \in Nat /\ total * (2 * r) \in Nat
        BY <1>1, <1>3, <1>9
      <4> HIDE DEF n
      <4> QED BY <1>3, <2>2, <3>1, <4>1, <4>2
    <3> QED BY <1>1, <1>9, <3>2
  <2> QED BY <1>10, <2>1, <2>2
<1> QED BY <1>11 DEF r, left

\* There is a mutant if there is an operator.
LEMMA TotalPositive ==
  ASSUME NEW c \in Seq(Nat \ {0}), c # <<>>
  PROVE  Sampler!Total(c) \in Nat \ {0}
<1> DEFINE n == Len(c)
           sum == Sampler!Sums(c)
<1>1. n \in Nat \ {0} /\ c \in Seq(Nat) /\ c[n] \in Nat \ {0} /\ n \in 1..n /\ n - 1 \in 0..n
  OBVIOUS
<1>2. sum \in [0..n -> Nat] /\ sum[n] = sum[n - 1] + c[n]
  BY <1>1, SumsDef
<1>3. sum[n - 1] \in Nat
  <2> HIDE DEF sum, n
  <2> QED BY <1>1, <1>2
<1>4. Sampler!Total(c) = sum[n]
  BY DEF Sampler!Total
<1> HIDE DEF sum, n
<1> QED BY <1>1, <1>2, <1>3, <1>4

\* The sums of a sequence begin with those of its beginning.
LEMMA TotalOfPrefix ==
  ASSUME NEW c \in Seq(Nat), NEW k \in 0..Len(c)
  PROVE  Sampler!Total(SubSeq(c, 1, k)) = Sampler!Sums(c)[k]
<1> DEFINE b == SubSeq(c, 1, k)
           sum == Sampler!Sums(c)
           part == Sampler!Sums(b)
           S == {i \in Nat : i <= k => part[i] = sum[i]}
<1>1. b \in Seq(Nat) /\ Len(b) = k /\ k \in Nat /\ \A i \in 1..k : b[i] = c[i] /\ i \in 1..Len(c)
  OBVIOUS
<1>2. /\ part[0] = 0 /\ \A i \in 1..k : part[i] = part[i - 1] + c[i]
  <2> HIDE DEF b
  <2> QED BY <1>1, SumsDef
<1>3. /\ sum[0] = 0 /\ \A i \in 1..k : sum[i] = sum[i - 1] + c[i]
  BY <1>1, SumsDef
<1> HIDE DEF part, sum
<1>4. ASSUME NEW i \in Nat, i \in S PROVE i + 1 \in S
  <2> SUFFICES ASSUME i + 1 <= k PROVE part[i + 1] = sum[i + 1]
    OBVIOUS
  <2>1. i + 1 \in 1..k /\ (i + 1) - 1 = i /\ part[i] = sum[i]
    BY <1>1, <1>4
  <2> QED BY <1>2, <1>3, <2>1
<1>5. Nat \subseteq S
  <2>1. 0 \in S
    BY <1>2, <1>3
  <2> HIDE DEF S
  <2> QED BY <1>4, <2>1, SetInduction
<1>6. Sampler!Total(b) = part[k]
  BY <1>1 DEF Sampler!Total, part
<1>7. part[k] = sum[k]
  BY <1>1, <1>5
<1> QED BY <1>6, <1>7 DEF sum

-----------------------------------------------------------------------------
(* The sample                                                               *)

\* What a sample has of the first operators is what they have not left of the target.
LEMMA SampleTakes ==
  ASSUME NEW c \in Seq(Nat \ {0}), c # <<>>, NEW t \in Nat,
         NEW out \in Seq(Nat), Len(out) = Len(c),
         \A i \in 1..Len(c) : out[i] = Sampler!Share(c, i, t, Sampler!Remaining(c, t)[i - 1])
  PROVE  \A i \in 0..Len(c) : Sampler!Sums(out)[i] = t - Sampler!Remaining(c, t)[i]
<1> DEFINE n == Len(c)
           left == Sampler!Remaining(c, t)
           sum == Sampler!Sums(out)
           S == {i \in Nat : i <= n => sum[i] = t - left[i]}
<1>1. n \in Nat /\ c \in Seq(Nat) /\ Sampler!Total(c) \in Nat \ {0}
  BY TotalPositive
<1>2. /\ \A i \in 0..n : left[i] \in Nat
      /\ left[0] = t /\ \A i \in 1..n : left[i] = left[i - 1] - out[i]
  <2>1. /\ left \in [0..n -> Nat] /\ left[0] = t
        /\ \A i \in 1..n : left[i] = left[i - 1] - Sampler!Share(c, i, t, left[i - 1])
    BY <1>1, RemainingDef
  <2>2. \A i \in 1..n : out[i] = Sampler!Share(c, i, t, left[i - 1])
    OBVIOUS
  <2> HIDE DEF left, n
  <2> QED BY <2>1, <2>2
<1>3. sum[0] = 0 /\ \A i \in 1..n : sum[i] = sum[i - 1] + out[i]
  BY SumsDef
<1>4. \A i \in 1..n : out[i] \in Nat
  OBVIOUS
<1> HIDE DEF left, sum
<1>5. ASSUME NEW i \in Nat, i \in S PROVE i + 1 \in S
  <2> SUFFICES ASSUME i + 1 <= n PROVE sum[i + 1] = t - left[i + 1]
    OBVIOUS
  <2>1. i + 1 \in 1..n /\ i \in 0..n /\ i + 1 \in 0..n /\ (i + 1) - 1 = i /\ sum[i] = t - left[i]
    BY <1>1, <1>5
  <2>2. /\ sum[i + 1] = sum[i] + out[i + 1] /\ left[i + 1] = left[i] - out[i + 1]
        /\ left[i] \in Nat /\ left[i + 1] \in Nat /\ out[i + 1] \in Nat
    BY <1>2, <1>3, <1>4, <2>1
  <2> QED BY <2>1, <2>2
<1>6. Nat \subseteq S
  <2>1. 0 \in S
    BY <1>2, <1>3
  <2> HIDE DEF S
  <2> QED BY <1>5, <2>1, SetInduction
<1>7. \A i \in 0..n : sum[i] = t - left[i]
  BY <1>1, <1>6
<1> QED BY <1>7 DEF sum, left

\* What SampleRepresentsOperators says of one sample.
Represents(counts, value, sample) ==
  LET target == Sampler!TargetCount(Sampler!Total(counts), value)
      taken  == Sampler!Total(sample)
  IN /\ taken <= target
     /\ 2 * (target - taken) <= Len(counts)
     /\ \A i \in DOMAIN sample :
           sample[i] = 0 => Sampler!Total(SubSeq(sample, 1, i - 1)) = target

\* The sample of any mutants, for any value, represents their operators.
LEMMA SamplesRepresent ==
  ASSUME NEW c \in Seq(Nat \ {0}), c # <<>>, NEW v \in Nat \X (Nat \ {0})
  PROVE  Represents(c, v, Sampler!SampleMutants(c, v))
<1> DEFINE total == Sampler!Total(c)
           t == Sampler!TargetCount(total, v)
           n == Len(c)
           left == Sampler!Remaining(c, t)
           out == Sampler!SampleMutants(c, v)
<1>1. total \in Nat \ {0} /\ c \in Seq(Nat) /\ n \in Nat \ {0}
  BY TotalPositive
<1>2. t \in 1..total /\ t \in Nat
  <2>1. v = <<v[1], v[2]>> /\ v[1] \in Nat /\ v[2] \in Nat \ {0}
    OBVIOUS
  <2> HIDE DEF total
  <2>2. Sampler!TargetCount(total, <<v[1], v[2]>>) \in 1..total
    BY <1>1, <2>1, TargetInRange
  <2> QED BY <1>1, <2>1, <2>2, SMTT(30)
<1>3. CASE t >= total
  <2>1. out = c /\ t = total
    BY <1>1, <1>2, <1>3 DEF Sampler!SampleMutants
  <2>2. \A i \in DOMAIN c : c[i] # 0
    OBVIOUS
  <2>3. total <= t /\ 2 * (t - total) <= n
    BY <1>1, <2>1
  <2> QED BY <2>1, <2>2, <2>3 DEF Represents
<1>4. CASE t < total
  <2> DEFINE share(i) == Sampler!Share(c, i, t, left[i - 1])
  <2>1. out = [i \in 1..n |-> share(i)]
    <3>1. ~(t >= total) /\ DOMAIN c = 1..n
      BY <1>1, <1>2, <1>4
    <3> QED BY <3>1 DEF Sampler!SampleMutants
  <2>2. /\ \A i \in 0..n : left[i] \in Nat
        /\ \A i \in 1..n : i - 1 \in 0..n
        /\ left[0] = t
    <3> HIDE DEF t, out, share
    <3>1. left \in [0..n -> Nat] /\ left[0] = t
      <4> HIDE DEF total
      <4>1. Sampler!Total(c) \in Nat \ {0}
        BY <1>1 DEF total
      <4> QED BY <1>1, <1>2, <4>1, RemainingDef
    <3>2. \A i \in 1..n : i - 1 \in 0..n
      BY <1>1
    <3> HIDE DEF left, n
    <3>3. \A i \in 0..n : left[i] \in Nat
      BY <3>1
    <3> QED BY <3>1, <3>2, <3>3
  <2>3. ASSUME NEW i \in 1..n
        PROVE  share(i) \in Nat /\ (share(i) = 0 => left[i - 1] = 0)
    <3>1. left[i - 1] \in Nat /\ c[i] \in Nat \ {0} /\ t \in Nat
      BY <1>1, <1>2, <2>2
    <3>2. /\ share(i) \in Nat
          /\ share(i) = left[i - 1] \/ share(i) = c[i] \/ share(i) >= 1
      <4> HIDE DEF left
      <4> QED BY <1>1, <3>1, ShareInRange
    <3> HIDE DEF share
    <3> QED BY <3>1, <3>2
  <2>4. out \in Seq(Nat) /\ Len(out) = n /\ DOMAIN out = 1..n /\ \A i \in 1..n : out[i] = share(i)
    <3> HIDE DEF out, share
    <3> QED BY <1>1, <2>1, <2>3
  <2>5. \A i \in 0..n : Sampler!Sums(out)[i] = t - left[i]
    <3>1. \A i \in 1..n : out[i] = Sampler!Share(c, i, t, Sampler!Remaining(c, t)[i - 1])
      BY <2>4
    <3> HIDE DEF out, t, total
    <3>2. \A i \in 0..n : Sampler!Sums(out)[i] = t - Sampler!Remaining(c, t)[i]
      BY <1>2, <2>4, <3>1, SampleTakes
    <3> QED BY <3>2
  <2>6. Sampler!Total(out) = t - left[n]
    <3>1. n \in 0..n
      BY <1>1
    <3> HIDE DEF out
    <3> QED BY <2>4, <2>5, <3>1 DEF Sampler!Total
  <2>7. 2 * left[n] <= n /\ left[n] \in Nat
    BY <1>1, <1>2, <1>4, <2>2, ShortBy
  <2>8. ASSUME NEW i \in 1..n, out[i] = 0
        PROVE  Sampler!Total(SubSeq(out, 1, i - 1)) = t
    <3>1. i - 1 \in 0..n /\ left[i - 1] = 0
      BY <2>2, <2>3, <2>4, <2>8
    <3>2. Sampler!Total(SubSeq(out, 1, i - 1)) = Sampler!Sums(out)[i - 1]
      <4> HIDE DEF out
      <4> QED BY <2>4, <3>1, TotalOfPrefix
    <3> HIDE DEF out, left, t, total, share
    <3>3. Sampler!Sums(out)[i - 1] = t - left[i - 1]
      BY <2>5, <3>1
    <3> QED BY <1>2, <3>1, <3>2, <3>3
  <2>9. t - left[n] <= t /\ 2 * (t - (t - left[n])) <= n
    <3> HIDE DEF left, t
    <3> QED BY <1>1, <1>2, <2>7
  <2> HIDE DEF left, out, t, total
  <2>10. /\ Sampler!Total(out) <= t /\ 2 * (t - Sampler!Total(out)) <= n
         /\ \A i \in DOMAIN out : out[i] = 0 => Sampler!Total(SubSeq(out, 1, i - 1)) = t
    BY <2>4, <2>6, <2>8, <2>9
  <2> QED BY <2>10 DEF Represents, t, total, out
<1> HIDE DEF t, total
<1> QED BY <1>1, <1>2, <1>3, <1>4

\* What was given is of its set, and what is done is what the sampler gives for it.
SampleGiven ==
  subject = "sample" =>
     /\ input \in Samples
     /\ done => output = Sampler!SampleMutants(input.counts, input.value)

\* A sample keeps to the target, falls short of it by little, and leaves no operator out that
\* it has a mutant for: sample_mutants, for every number of operators and of mutants.
THEOREM SampleIsRepresentative == CallsAndFiltersSpec => []SampleRepresentsOperators
<1>1. GivenCallOrFilter /\ Unstarted => SampleGiven
  BY DEF GivenCallOrFilter, Given, Unstarted, SampleGiven
<1>2. SampleGiven /\ [CallOrFilter]_vars => SampleGiven'
  <2> SUFFICES ASSUME SampleGiven, [CallOrFilter]_vars PROVE SampleGiven'
    OBVIOUS
  <2>1. CASE Sample
    BY <2>1 DEF SampleGiven, Sample, Gives
  <2>2. CASE Call
    BY <2>2 DEF SampleGiven, Call, Gives
  <2>3. CASE Dispatch
    BY <2>3 DEF SampleGiven, Dispatch, Gives
  <2>4. CASE TypeCheck
    BY <2>4 DEF SampleGiven, TypeCheck, Gives
  <2>5. CASE ParseDiff
    BY <2>5 DEF SampleGiven, ParseDiff, Gives
  <2>6. CASE ReportTwice
    BY <2>6 DEF SampleGiven, ReportTwice, Gives
  <2>7. CASE Match
    BY <2>7 DEF SampleGiven, Match, Gives
  <2>8. CASE ImportAll
    BY <2>8 DEF SampleGiven, ImportAll, Gives
  <2>9. CASE NameMutants
    BY <2>9 DEF SampleGiven, NameMutants, Gives
  <2>10. CASE ScanText
    BY <2>10 DEF SampleGiven, ScanText, Gives
  <2>11. CASE UNCHANGED vars
    BY <2>11 DEF SampleGiven, vars
  <2> QED BY <2>1, <2>2, <2>3, <2>4, <2>5, <2>6, <2>7, <2>8, <2>9, <2>10, <2>11 DEF CallOrFilter
<1>3. SampleGiven => SampleRepresentsOperators
  <2> SUFFICES ASSUME SampleGiven, Finished("sample")
               PROVE  Represents(input.counts, input.value, output)
    BY DEF SampleRepresentsOperators, Represents
  <2>1. /\ input.counts \in Seq(Nat \ {0}) /\ input.counts # <<>>
        /\ input.value \in Nat \X (Nat \ {0})
        /\ output = Sampler!SampleMutants(input.counts, input.value)
    BY InputsAssumption DEF SampleGiven, Finished, SamplesAssumption
  <2> QED BY <2>1, SamplesRepresent
<1> QED BY <1>1, <1>2, <1>3, PTL DEF CallsAndFiltersSpec

-----------------------------------------------------------------------------
(* The dispatch                                                             *)

\* A set of numbers that is not empty has a least one.
LEMMA LeastNumber ==
  ASSUME NEW T \in SUBSET Nat, T # {}
  PROVE  \E x \in T : \A y \in T : x <= y
<1>1. IsWellFoundedOn(OpToRel(<, Nat), Nat)
  BY NatLessThanWellFounded
<1> DEFINE R == OpToRel(<, Nat)
<1>2. \E x \in T : \A y \in T : ~ (<<y, x>> \in R)
  <2>1. IsWellFoundedOn(R, Nat)
    BY <1>1
  <2> HIDE DEF R
  <2> QED BY <2>1, WFMin
<1>3. PICK x \in T : \A y \in T : ~ (<<y, x>> \in R)
  BY <1>2
<1>4. ASSUME NEW y \in T PROVE x <= y
  <2>1. x \in Nat /\ y \in Nat
    OBVIOUS
  <2>2. CASE y < x
    <3>1. <<y, x>> \in R
      BY <2>1, <2>2 DEF OpToRel
    <3> QED BY <1>3, <3>1
  <2> QED BY <2>1, <2>2
<1> QED BY <1>3, <1>4

\* A key, and a mark and a number after it.
Marked(key, mark, n) == key \o <<mark, n>>

\* The parts of a marked key.
LEMMA MarkedParts ==
  ASSUME NEW S, NEW key \in Seq(S), NEW mark \in S, NEW n \in S
  PROVE  /\ Marked(key, mark, n) \in Seq(S)
         /\ Len(Marked(key, mark, n)) = Len(key) + 2
         /\ Marked(key, mark, n)[Len(key) + 1] = mark
         /\ Marked(key, mark, n)[Len(key) + 2] = n
         /\ \A i \in 1..Len(key) : Marked(key, mark, n)[i] = key[i]
  BY DEF Marked

\* The parts of the name of a mutant.
Tokens == Parts \cup Marks

\* What is and what is not a word.
LEMMA TokensOfNames ==
  /\ Marks = {"__irradiate_", "__sp_"}
  /\ Words \subseteq Parts /\ Parts \subseteq Tokens
  /\ "." \in Parts /\ "." \notin Words
  /\ "__irradiate_" \in Tokens /\ "__irradiate_" \notin Parts
  /\ "__sp_" \in Tokens /\ "__sp_" \notin Parts
  /\ "__sp_" # "__irradiate_" /\ "__irradiate_" # "."
  /\ "x_" \in Words /\ "x|" \in Words /\ "|" \in Words
  BY InputsAssumption DEF WordsAssumption, Parts, Tokens, Marks

\* The mark is where the key ends, so two marked keys are the same if one begins with the other.
LEMMA OneMark ==
  ASSUME NEW k1 \in Seq(Parts), NEW k2 \in Seq(Parts), NEW n \in Words,
         NEW mark \in Marks,
         Tramp!IsPrefix(k1 \o <<"__irradiate_">>, Marked(k2, mark, n))
  PROVE  k1 = k2 /\ mark = "__irradiate_"
<1> DEFINE p == k1 \o <<"__irradiate_">>
           a == Marked(k2, mark, n)
           l1 == Len(k1)
           l2 == Len(k2)
<1>1. /\ Parts \subseteq Tokens /\ "__irradiate_" \notin Parts /\ n \in Parts /\ n \in Tokens
      /\ "__irradiate_" \in Tokens /\ mark \notin Parts /\ mark \in Tokens
  BY TokensOfNames
<1>2. /\ k1 \in Seq(Tokens) /\ k2 \in Seq(Tokens) /\ l1 \in Nat /\ l2 \in Nat
      /\ \A i \in 1..l1 : k1[i] \in Parts
      /\ \A i \in 1..l2 : k2[i] \in Parts
  <2>1. k1 \in Seq(Tokens) /\ k2 \in Seq(Tokens)
    BY <1>1
  <2> QED BY <2>1
<1>3. /\ p \in Seq(Tokens) /\ Len(p) = l1 + 1 /\ p[l1 + 1] = "__irradiate_"
      /\ \A i \in 1..l1 : p[i] = k1[i]
  BY <1>1, <1>2
<1>4. /\ a \in Seq(Tokens) /\ Len(a) = l2 + 2 /\ a[l2 + 1] = mark /\ a[l2 + 2] = n
      /\ \A i \in 1..l2 : a[i] = k2[i]
  BY <1>1, <1>2, MarkedParts
<1>5. Len(p) <= Len(a) /\ SubSeq(p, 1, Len(p)) = SubSeq(a, 1, Len(p))
  BY DEF Tramp!IsPrefix
<1> HIDE DEF p, a
<1>6. \A i \in 1..l1 + 1 : p[i] = a[i]
  <2> SUFFICES ASSUME NEW i \in 1..l1 + 1 PROVE p[i] = a[i]
    OBVIOUS
  <2>1. SubSeq(p, 1, Len(p))[i] = p[i] /\ SubSeq(a, 1, Len(p))[i] = a[i]
    BY <1>2, <1>3, <1>4, <1>5
  <2> QED BY <1>5, <2>1
<1>7. a[l1 + 1] = "__irradiate_" /\ l1 + 1 <= l2 + 2
  BY <1>2, <1>3, <1>4, <1>5, <1>6
<1>8. l1 = l2 /\ mark = "__irradiate_"
  <2>1. l1 + 1 \in 1..l2 \/ l1 + 1 = l2 + 1 \/ l1 + 1 = l2 + 2
    BY <1>2, <1>7
  <2>2. ~(l1 + 1 \in 1..l2)
    BY <1>1, <1>2, <1>4, <1>7
  <2> QED BY <1>1, <1>2, <1>4, <1>7, <2>1, <2>2
<1>9. \A i \in 1..l1 : k1[i] = k2[i]
  BY <1>2, <1>3, <1>4, <1>6, <1>8
<1> QED BY <1>2, <1>8, <1>9, SeqEqual

\* What the names of a function are made of.
NamedFunctions == [module : Seq(Parts), class : Words, name : Seq(Words)]

\* The key of a function is its module, a dot and its mangled name, which has no dot.
LEMMA Keys ==
  ASSUME NEW f \in NamedFunctions
  PROVE  /\ Tramp!MangleName(f) \in Seq(Words)
         /\ Tramp!FuncKey(f) \in Seq(Parts)
         /\ Tramp!FuncKey(f) = (f.module \o <<".">>) \o Tramp!MangleName(f)
<1>1. /\ "x_" \in Words /\ "x|" \in Words /\ "|" \in Words /\ Words \subseteq Parts /\ "." \in Parts
  BY TokensOfNames
<1>2. f.module \in Seq(Parts) /\ f.class \in Words /\ f.name \in Seq(Words)
  BY DEF NamedFunctions
<1>3. Tramp!MangleName(f) \in Seq(Words)
  <2> DEFINE p == IF f.class = "" THEN <<"x_">> ELSE <<"x|", f.class, "|">>
             w == f.name
  <2>1. p \in Seq(Words) /\ w \in Seq(Words)
    <3>1. <<"x_">> \in Seq(Words)
      BY <1>1
    <3>2. <<"x|", f.class, "|">> \in Seq(Words)
      BY <1>1, <1>2
    <3> QED BY <1>2, <3>1, <3>2
  <2>2. Tramp!MangleName(f) = p \o w
    BY DEF Tramp!MangleName
  <2> HIDE DEF p, w
  <2>3. p \o w \in Seq(Words)
    BY <2>1
  <2> QED BY <2>2, <2>3
<1> DEFINE m == Tramp!MangleName(f)
           w == f.module
<1>4. m \in Seq(Parts) /\ w \in Seq(Parts) /\ <<".">> \in Seq(Parts)
  <2>1. m \in Seq(Words)
    BY <1>3
  <2> HIDE DEF m, w
  <2>2. m \in Seq(Parts)
    BY <1>1, <2>1, SeqMonotonic
  <2> QED BY <1>1, <1>2, <2>2 DEF w
<1>5. Tramp!FuncKey(f) = (w \o <<".">>) \o m
  <2>1. Tramp!FuncKey(f) = w \o <<".">> \o m
    BY DEF Tramp!FuncKey
  <2> QED BY <2>1
<1> HIDE DEF m, w
<1>6. (w \o <<".">>) \o m \in Seq(Parts)
  BY <1>4
<1> QED BY <1>3, <1>5, <1>6 DEF m, w

\* After the last dot of a mutant's name comes the name of its variant.
LEMMA Variants ==
  ASSUME NEW f \in NamedFunctions, NEW n \in Words
  PROVE  Tramp!AfterLastDot(Tramp!MutantKey(f, n)) = Tramp!VariantName(f, n)
<1> DEFINE key == Tramp!MutantKey(f, n)
           m == Tramp!MangleName(f)
           w == f.module
           v == Tramp!VariantName(f, n)
           d == Len(w) + 1
           Dot(i) == i \in 0..Len(key) /\ (i > 0 => key[i] = ".") /\ \A j \in i + 1..Len(key) : key[j] # "."
<1>1. /\ w \in Seq(Parts) /\ m \in Seq(Words)
      /\ Tramp!FuncKey(f) = (w \o <<".">>) \o m
  BY Keys DEF NamedFunctions
<1>2. /\ Words \subseteq Tokens /\ Parts \subseteq Tokens /\ "." \notin Words /\ "__irradiate_" # "."
      /\ n # "." /\ n \in Tokens /\ "." \in Tokens /\ "__irradiate_" \in Tokens
  BY TokensOfNames
<1>3. v = Marked(m, "__irradiate_", n) /\ key = Marked((w \o <<".">>) \o m, "__irradiate_", n)
  BY <1>1 DEF Tramp!VariantName, Tramp!MutantKey, Marked
<1> HIDE DEF m, w, v, key
<1>4. m \in Seq(Tokens) /\ w \in Seq(Tokens) /\ <<".">> \in Seq(Tokens)
  BY <1>1, <1>2, SeqMonotonic
<1> DEFINE head == w \o <<".">>
<1>5. /\ head \in Seq(Tokens) /\ Len(head) = d /\ head[d] = "." /\ d \in Nat \ {0}
  BY <1>4
<1>6. /\ v \in Seq(Tokens) /\ Len(v) = Len(m) + 2
      /\ \A i \in 1..Len(v) : v[i] # "."
  <2>1. \A i \in 1..Len(m) : m[i] \in Words
    BY <1>1
  <2>2. /\ v \in Seq(Tokens) /\ Len(v) = Len(m) + 2
        /\ \A i \in 1..Len(m) : v[i] = m[i]
        /\ v[Len(m) + 1] = "__irradiate_" /\ v[Len(m) + 2] = n
    <3> DEFINE mark == "__irradiate_"
    <3>1. mark \in Tokens /\ v = Marked(m, mark, n)
      BY <1>2, <1>3
    <3> HIDE DEF mark
    <3>2. /\ v \in Seq(Tokens) /\ Len(v) = Len(m) + 2
          /\ \A i \in 1..Len(m) : v[i] = m[i]
          /\ v[Len(m) + 1] = mark /\ v[Len(m) + 2] = n
      <4>1. m \in Seq(Tokens) /\ n \in Tokens
        BY <1>2, <1>4
      <4>2. mark \in Tokens
        BY <3>1
      <4> HIDE DEF Tokens
      <4>3. /\ Marked(m, mark, n) \in Seq(Tokens) /\ Len(Marked(m, mark, n)) = Len(m) + 2
            /\ \A i \in 1..Len(m) : Marked(m, mark, n)[i] = m[i]
            /\ Marked(m, mark, n)[Len(m) + 1] = mark /\ Marked(m, mark, n)[Len(m) + 2] = n
        BY ONLY <4>1, <4>2, MarkedParts
      <4> QED BY <3>1, <4>3
    <3> QED BY <3>2 DEF mark
  <2>3. \A i \in 1..Len(v) : i \in 1..Len(m) \/ i = Len(m) + 1 \/ i = Len(m) + 2
    BY <1>4, <2>2
  <2> QED BY <1>2, <2>1, <2>2, <2>3
<1> HIDE DEF head, d
<1>7. key = head \o v
  <2>1. <<"__irradiate_", n>> \in Seq(Tokens)
    BY <1>2
  <2>2. key = (head \o m) \o <<"__irradiate_", n>> /\ v = m \o <<"__irradiate_", n>>
    BY <1>3 DEF Marked, head
  <2> DEFINE e == <<"__irradiate_", n>>
  <2> HIDE DEF e
  <2>3. (head \o m) \o e = head \o (m \o e)
    BY <1>4, <1>5, <2>1, ConcatAssociative DEF e
  <2> QED BY <2>2, <2>3 DEF e
<1>8. /\ key \in Seq(Tokens) /\ Len(key) = d + Len(v) /\ Len(v) \in Nat
      /\ key[d] = "." /\ d \in 1..Len(key)
      /\ \A i \in 1..Len(v) : key[d + i] = v[i] /\ v[i] # "."
  <2>1. /\ head \o v \in Seq(Tokens) /\ Len(head \o v) = d + Len(v) /\ Len(v) \in Nat
        /\ \A i \in 1..d + Len(v) : (head \o v)[i] = IF i <= d THEN head[i] ELSE v[i - d]
    <3>1. head \in Seq(Tokens) /\ v \in Seq(Tokens) /\ Len(head) = d
      BY <1>5, <1>6
    <3>2. /\ head \o v \in Seq(Tokens) /\ Len(head \o v) = Len(head) + Len(v)
          /\ \A i \in 1..Len(head) + Len(v) :
                (head \o v)[i] = IF i <= Len(head) THEN head[i] ELSE v[i - Len(head)]
      BY <3>1, ConcatProperties
    <3> QED BY <3>1, <3>2
  <2>2. \A i \in 1..Len(v) : d + i \in 1..d + Len(v) /\ ~(d + i <= d) /\ (d + i) - d = i
    BY <1>5, <2>1
  <2>3. d \in 1..d + Len(v)
    BY <1>5, <2>1
  <2> QED BY <1>5, <1>6, <1>7, <2>1, <2>2, <2>3
<1>9. Dot(d)
  <2> SUFFICES ASSUME NEW j \in d + 1..Len(key) PROVE key[j] # "."
    BY <1>8
  <2>1. j - d \in 1..Len(v) /\ d + (j - d) = j
    BY <1>8
  <2> QED BY <1>8, <2>1
<1>10. \A i : Dot(i) => i = d
  <2> SUFFICES ASSUME NEW i, Dot(i), i # d PROVE FALSE
    OBVIOUS
  <2>1. CASE i < d
    BY <1>8, <2>1
  <2>2. CASE i > d
    BY <1>8, <1>9, <2>2
  <2> QED BY <1>8, <2>1, <2>2
<1>11. Tramp!AfterLastDot(key) = SubSeq(key, 1 + d, Len(key))
  <2>1. (CHOOSE i \in 0..Len(key) : (i > 0 => key[i] = ".") /\ \A j \in i + 1..Len(key) : key[j] # ".") = d
    BY <1>9, <1>10
  <2> QED BY <2>1 DEF Tramp!AfterLastDot
<1>12. SubSeq(key, 1 + d, Len(key)) = v
  <2> DEFINE s == SubSeq(key, 1 + d, Len(key))
  <2>1. s \in Seq(Tokens) /\ Len(s) = Len(v)
    BY <1>8
  <2>2. \A i \in 1..Len(v) : s[i] = v[i]
    BY <1>8
  <2> HIDE DEF s
  <2>3. s = v
    BY <1>6, <2>1, <2>2, SeqEqual
  <2> QED BY <2>3 DEF s
<1> QED BY <1>11, <1>12 DEF key, v

\* The lookup stops at a class of another module only if that one comes first.
HidesOwn(f, mro) ==
  \E i \in DOMAIN mro :
     /\ Defines(mro[i], f) /\ mro[i].module # f.module
     /\ \A j \in 1..i - 1 : ~(Defines(mro[j], f) /\ mro[j].module = f.module)

\* A function that is not hidden is found by its own lookup.
LEMMA ResolvesItself ==
  ASSUME NEW f \in NamedFunctions, NEW C, NEW mro \in Seq(C),
         f.class # "" => \E i \in DOMAIN mro : Defines(mro[i], f),
         ~HidesOwn(f, mro)
  PROVE  Tramp!Resolve(f, mro) = f
<1>1. CASE f.class = ""
  BY <1>1 DEF Tramp!Resolve
<1>2. CASE f.class # ""
  <2> DEFINE T == {i \in DOMAIN mro : mro[i].class = f.class /\ f.name \in mro[i].methods}
             first == CHOOSE i \in T : \A j \in T : i <= j
             l == Len(mro)
  <2>1. T \in SUBSET Nat /\ T # {} /\ DOMAIN mro = 1..l /\ l \in Nat
    <3>1. DOMAIN mro = 1..l /\ l \in Nat
      BY LenProperties
    <3>2. T # {}
      BY <1>2 DEF Defines
    <3>3. \A i \in T : i \in 1..l
      BY <3>1
    <3>4. l \in Nat
      BY <3>1
    <3> HIDE DEF T, l
    <3>5. T \in SUBSET Nat
      BY ONLY <3>3, <3>4
    <3> QED BY <3>1, <3>2, <3>5
  <2>2. first \in T /\ \A j \in T : first <= j
    <3>1. \E i \in T : \A j \in T : i <= j
      <4> HIDE DEF T
      <4> QED BY <2>1, LeastNumber
    <3> HIDE DEF T
    <3> QED BY <3>1
  <2>3. \A i \in DOMAIN mro : i \in T <=> Defines(mro[i], f)
    BY DEF Defines
  <2>4. Tramp!Resolve(f, mro) = [f EXCEPT !.module = mro[first].module]
    BY <1>2 DEF Tramp!Resolve
  <2> HIDE DEF first, l
  <2>5. first \in DOMAIN mro /\ first \in 1..l
    BY <2>1, <2>2
  <2> HIDE DEF T
  <2>6. mro[first].module = f.module
    <3>1. Defines(mro[first], f)
      BY <2>2, <2>3, <2>5
    <3>2. \A j \in 1..first - 1 : ~Defines(mro[j], f)
      <4> SUFFICES ASSUME NEW j \in 1..first - 1, Defines(mro[j], f) PROVE FALSE
        OBVIOUS
      <4>0. l \in Nat /\ first \in 1..l /\ j \in 1..first - 1
        BY <2>1, <2>5
      <4>1. j \in 1..l /\ ~(first <= j)
        BY ONLY <4>0
      <4>2. j \in DOMAIN mro
        BY <2>1, <4>1
      <4> QED BY <2>2, <2>3, <4>1, <4>2
    <3> QED BY <2>5, <3>1, <3>2 DEF HidesOwn
  <2>7. [f EXCEPT !.module = f.module] = f
    BY DEF NamedFunctions
  <2> QED BY <2>4, <2>6, <2>7
<1> QED BY <1>1, <1>2

\* What can be active.
Modes == {<<>>, <<"fail">>, <<"stats">>}

\* The name of a mutant.
IsMutant(active) ==
  LET last == Len(active)
  IN /\ active \in Seq(Parts \cup Marks)
     /\ last >= 2 /\ SubSeq(active, 1, last - 2) \in Seq(Parts)
     /\ active[last - 1] \in Marks /\ active[last] \in Words

\* The name of a mutant is a marked key.
LEMMA MutantIsMarked ==
  ASSUME NEW active, IsMutant(active)
  PROVE  \E key \in Seq(Parts), mark \in Marks, n \in Words :
            active = Marked(key, mark, n) /\ n = active[Len(active)]
<1> DEFINE last == Len(active)
           key == SubSeq(active, 1, last - 2)
           mark == active[last - 1]
           n == active[last]
<1>1. /\ active \in Seq(Tokens) /\ last >= 2 /\ key \in Seq(Parts) /\ mark \in Marks /\ n \in Words
      /\ last \in Nat
  BY DEF IsMutant, Tokens
<1>2. Parts \subseteq Tokens /\ Marks \subseteq Tokens /\ Words \subseteq Tokens
  BY TokensOfNames DEF Tokens
<1>3. key \in Seq(Tokens) /\ Len(key) = last - 2 /\ \A i \in 1..last - 2 : key[i] = active[i]
  <2>1. \A i \in 1..last - 2 : active[i] \in Tokens
    <3> HIDE DEF key, mark, n
    <3> QED BY <1>1
  <2>2. 1 \in Int /\ last - 2 \in Int
    BY <1>1
  <2> DEFINE upto == last - 2
  <2>3. /\ key \in Seq(Tokens) /\ Len(key) = IF 1 <= upto THEN upto - 1 + 1 ELSE 0
        /\ \A i \in 1..upto - 1 + 1 : key[i] = active[1 + i - 1]
    <3> HIDE DEF upto
    <3> QED BY <2>1, <2>2, SubSeqProperties DEF upto
  <2>4. last - 2 \in Nat
    BY <1>1
  <2> HIDE DEF key, last
  <2>5. upto \in Nat
    BY <2>4
  <2> HIDE DEF upto
  <2>6. Len(key) = upto /\ \A i \in 1..upto : key[i] = active[i]
    BY <2>3, <2>5
  <2> QED BY <2>3, <2>6 DEF upto
<1> HIDE DEF key
<1>4. mark \in Tokens /\ n \in Tokens
  BY <1>1, <1>2
<1> DEFINE whole == Marked(key, mark, n)
<1>5. /\ whole \in Seq(Tokens) /\ Len(whole) = last
      /\ whole[last - 1] = mark /\ whole[last] = n
      /\ \A i \in 1..last - 2 : whole[i] = key[i]
  <2>0. key \in Seq(Tokens) /\ mark \in Tokens /\ n \in Tokens
    BY <1>3, <1>4
  <2> HIDE DEF mark, n
  <2>1. /\ whole \in Seq(Tokens) /\ Len(whole) = Len(key) + 2
        /\ \A i \in 1..Len(key) : whole[i] = key[i]
        /\ whole[Len(key) + 1] = mark /\ whole[Len(key) + 2] = n
    BY ONLY <2>0, MarkedParts
  <2>2. Len(key) + 2 = last /\ Len(key) + 1 = last - 1 /\ Len(key) = last - 2
    BY <1>1, <1>3
  <2> HIDE DEF whole, last
  <2> QED BY <2>1, <2>2
<1> HIDE DEF whole
<1>6. \A i \in 1..last : whole[i] = active[i]
  <2> SUFFICES ASSUME NEW i \in 1..last PROVE whole[i] = active[i]
    OBVIOUS
  <2>1. i \in 1..last - 2 \/ i = last - 1 \/ i = last
    BY <1>1
  <2> QED BY <1>3, <1>5, <2>1
<1>7. whole = active
  BY <1>1, <1>5, <1>6, SeqEqual
<1> QED BY <1>1, <1>7 DEF whole

\* What is active names mutant n of f, or none of f.
LEMMA OwnOrNot ==
  ASSUME NEW f \in NamedFunctions, NEW active, IsMutant(active),
         NEW mutants \in SUBSET Words,
         active = Tramp!MutantKey(f, active[Len(active)]) => active[Len(active)] \in mutants
  PROVE  \/ \E n \in mutants : /\ active = Tramp!MutantKey(f, n)
                               /\ \A k \in mutants : active = Tramp!MutantKey(f, k) => k = n
                               /\ Tramp!IsPrefix(Tramp!Prefix(f), active)
         \/ /\ ~Tramp!IsPrefix(Tramp!Prefix(f), active)
            /\ \A k \in mutants : active # Tramp!MutantKey(f, k)
<1> DEFINE own == Tramp!FuncKey(f)
<1>1. PICK key \in Seq(Parts), mark \in Marks, n \in Words :
         active = Marked(key, mark, n) /\ n = active[Len(active)]
  BY MutantIsMarked
<1>2. own \in Seq(Parts)
  BY Keys
<1>3. /\ Tramp!Prefix(f) = own \o <<"__irradiate_">>
      /\ \A k : Tramp!MutantKey(f, k) = Marked(own, "__irradiate_", k)
  BY DEF Tramp!Prefix, Tramp!MutantKey, Marked
<1>4. /\ "__irradiate_" \in Marks /\ Parts \subseteq Tokens /\ Marks \subseteq Tokens
      /\ Words \subseteq Tokens
  BY TokensOfNames DEF Tokens
<1> HIDE DEF own
<1>5. \A k \in Words : Tramp!IsPrefix(own \o <<"__irradiate_">>, Marked(own, "__irradiate_", k))
  <2> SUFFICES ASSUME NEW k \in Words
               PROVE  Tramp!IsPrefix(own \o <<"__irradiate_">>, Marked(own, "__irradiate_", k))
    OBVIOUS
  <2> DEFINE mk == "__irradiate_"
             p == own \o <<mk>>
             a == Marked(own, mk, k)
             l == Len(own)
  <2>1. own \in Seq(Tokens) /\ mk \in Tokens /\ k \in Tokens /\ l \in Nat
    BY <1>2, <1>4
  <2> HIDE DEF mk
  <2>2. p \in Seq(Tokens) /\ Len(p) = l + 1 /\ p[l + 1] = mk /\ \A i \in 1..l : p[i] = own[i]
    BY <2>1
  <2>3. /\ a \in Seq(Tokens) /\ Len(a) = l + 2 /\ a[l + 1] = mk /\ \A i \in 1..l : a[i] = own[i]
    BY ONLY <2>1, MarkedParts
  <2> HIDE DEF p, a, l
  <2>4. \A i \in 1..l + 1 : p[i] = a[i]
    <3> SUFFICES ASSUME NEW i \in 1..l + 1 PROVE p[i] = a[i]
      OBVIOUS
    <3>1. i \in 1..l \/ i = l + 1
      BY <2>1
    <3> QED BY <2>2, <2>3, <3>1
  <2> DEFINE s == SubSeq(p, 1, l + 1)
             t == SubSeq(a, 1, l + 1)
  <2>5. /\ s \in Seq(Tokens) /\ t \in Seq(Tokens) /\ Len(s) = l + 1 /\ Len(t) = l + 1
        /\ \A i \in 1..l + 1 : s[i] = p[i] /\ t[i] = a[i]
    BY <2>1, <2>2, <2>3
  <2> HIDE DEF s, t
  <2>6. s = t
    BY <2>4, <2>5, SeqEqual
  <2>7. Tramp!IsPrefix(p, a)
    BY <2>1, <2>2, <2>3, <2>6 DEF Tramp!IsPrefix, s, t
  <2> QED BY <2>7 DEF p, a, mk
<1>6. CASE Tramp!IsPrefix(Tramp!Prefix(f), active)
  <2>1. own = key /\ mark = "__irradiate_"
    BY <1>1, <1>2, <1>3, <1>6, OneMark
  <2>2. active = Tramp!MutantKey(f, n) /\ n \in mutants
    BY <1>1, <1>3, <2>1
  <2>3. \A k \in mutants : active = Tramp!MutantKey(f, k) => k = n
    <3> SUFFICES ASSUME NEW k \in mutants, active = Tramp!MutantKey(f, k) PROVE k = n
      OBVIOUS
    <3> DEFINE mk == "__irradiate_"
    <3>1. own \in Seq(Tokens) /\ mk \in Tokens /\ k \in Tokens
      BY <1>2, <1>4
    <3>2. active = Marked(own, mk, k)
      BY <1>3
    <3> HIDE DEF mk
    <3>3. Len(Marked(own, mk, k)) = Len(own) + 2 /\ Marked(own, mk, k)[Len(own) + 2] = k
      BY ONLY <3>1, MarkedParts
    <3> QED BY <1>1, <3>2, <3>3
  <2> QED BY <1>6, <2>2, <2>3
<1>7. CASE ~Tramp!IsPrefix(Tramp!Prefix(f), active)
  BY <1>3, <1>5, <1>7
<1> QED BY <1>6, <1>7

\* What DispatchIsExact says of one dispatch.
Exact(f, mutants, active, outcome) ==
  LET own == {n \in mutants : active = Tramp!MutantKey(f, n)}
  IN \/ active = <<"fail">>
     \/ /\ outcome.runs = (IF own = {} THEN "orig" ELSE "variant")
        /\ \A n \in own : outcome.variant = Tramp!VariantName(f, n)
        /\ outcome.hits = (IF active = <<"stats">> THEN {Tramp!FuncKey(f)} ELSE {})

\* The dispatch of a function that is not hidden is exact.
LEMMA DispatchesExactly ==
  ASSUME NEW f \in NamedFunctions, NEW active, NEW mutants \in SUBSET Words,
         \/ active \in Modes
         \/ /\ IsMutant(active)
            /\ active = Tramp!MutantKey(f, active[Len(active)]) => active[Len(active)] \in mutants
  PROVE  Exact(f, mutants, active, Tramp!IrradiateTrampoline(f, mutants, active))
<1> DEFINE outcome == Tramp!IrradiateTrampoline(f, mutants, active)
<1>1. CASE active \in Modes
  <2>1. ASSUME NEW n \in mutants PROVE Len(Tramp!MutantKey(f, n)) >= 2
    <3> DEFINE own == Tramp!FuncKey(f)
               mk == "__irradiate_"
    <3>1. own \in Seq(Tokens) /\ mk \in Tokens /\ n \in Tokens
      BY Keys, TokensOfNames
    <3>2. Tramp!MutantKey(f, n) = Marked(own, mk, n)
      BY DEF Tramp!MutantKey, Marked
    <3> HIDE DEF mk, own
    <3>3. Len(Marked(own, mk, n)) = Len(own) + 2
      BY ONLY <3>1, MarkedParts
    <3>4. Len(own) \in Nat
      BY <3>1
    <3> QED BY <3>2, <3>3, <3>4
  <2>2. Len(active) < 2
    BY <1>1 DEF Modes
  <2>3. \A n \in mutants : active # Tramp!MutantKey(f, n)
    BY <2>1, <2>2
  <2>4. CASE active = <<>>
    <3>1. active # <<"stats">>
      BY <2>4
    <3>2. outcome = [runs |-> "orig", variant |-> <<>>, hits |-> {}]
      BY <2>4 DEF Tramp!IrradiateTrampoline, Tramp!Outcome
    <3> QED BY <2>3, <3>1, <3>2 DEF Exact
  <2>5. CASE active = <<"fail">>
    BY <2>5 DEF Exact
  <2>6. CASE active = <<"stats">>
    <3>1. active # <<>> /\ active # <<"fail">>
      BY <2>6
    <3>2. outcome = [runs |-> "orig", variant |-> <<>>, hits |-> {Tramp!FuncKey(f)}]
      BY <2>6, <3>1 DEF Tramp!IrradiateTrampoline, Tramp!Outcome
    <3> QED BY <2>3, <2>6, <3>2 DEF Exact
  <2> QED BY <1>1, <2>4, <2>5, <2>6 DEF Modes
<1>2. CASE /\ IsMutant(active)
           /\ active = Tramp!MutantKey(f, active[Len(active)]) => active[Len(active)] \in mutants
  <2>1. active \notin Modes
    <3>1. Len(active) >= 2 /\ Len(active) \in Nat
      <4>1. active \in Seq(Tokens) /\ Len(active) >= 2
        BY <1>2 DEF IsMutant, Tokens
      <4> QED BY <4>1
    <3>2. Len(<<>>) = 0 /\ Len(<<"fail">>) = 1 /\ Len(<<"stats">>) = 1
      OBVIOUS
    <3>3. active # <<>> /\ active # <<"fail">> /\ active # <<"stats">>
      <4>1. \A a : Len(a) = 0 \/ Len(a) = 1 => a # active
        BY <3>1
      <4> QED BY <3>2, <4>1, Zenon
    <3> QED BY <3>3 DEF Modes
  <2>2. active # <<>> /\ active # <<"fail">> /\ active # <<"stats">>
    BY <2>1 DEF Modes
  <2>3. CASE /\ ~Tramp!IsPrefix(Tramp!Prefix(f), active)
             /\ \A k \in mutants : active # Tramp!MutantKey(f, k)
    <3>1. outcome = [runs |-> "orig", variant |-> <<>>, hits |-> {}]
      BY <2>2, <2>3 DEF Tramp!IrradiateTrampoline, Tramp!Outcome
    <3> QED BY <2>2, <2>3, <3>1 DEF Exact
  <2>4. ASSUME NEW n \in mutants, active = Tramp!MutantKey(f, n),
               \A k \in mutants : active = Tramp!MutantKey(f, k) => k = n,
               Tramp!IsPrefix(Tramp!Prefix(f), active)
        PROVE  Exact(f, mutants, active, outcome)
    <3>1. Tramp!AfterLastDot(active) = Tramp!VariantName(f, n)
      BY <2>4, Variants
    <3>2. outcome = [runs |-> "variant", variant |-> Tramp!VariantName(f, n), hits |-> {}]
      BY <2>2, <2>4, <3>1 DEF Tramp!IrradiateTrampoline, Tramp!Outcome
    <3>3. {k \in mutants : active = Tramp!MutantKey(f, k)} = {n}
      BY <2>4
    <3> HIDE DEF outcome
    <3> QED BY <2>2, <3>2, <3>3 DEF Exact
  <2> QED BY <1>2, <2>3, <2>4, OwnOrNot
<1> QED BY <1>1, <1>2

\* What was given is of its set, and what is done is what the trampoline does with it.
DispatchGiven ==
  subject = "dispatch" =>
     /\ input \in Dispatches
     /\ done => output = Tramp!IrradiateTrampoline(Tramp!Resolve(input.f, input.mro),
                                                   input.mutants, input.active)

\* _irradiate_trampoline runs a mutant in its own function and nowhere else, for all names of
\* modules, classes and functions and all orders of lookup that do not hide the function.
THEOREM DispatchRunsItsOwnMutant == CallsAndFiltersSpec => []DispatchIsExact
<1>1. GivenCallOrFilter /\ Unstarted => DispatchGiven
  BY DEF GivenCallOrFilter, Given, Unstarted, DispatchGiven
<1>2. DispatchGiven /\ [CallOrFilter]_vars => DispatchGiven'
  <2> SUFFICES ASSUME DispatchGiven, [CallOrFilter]_vars PROVE DispatchGiven'
    OBVIOUS
  <2>1. CASE Dispatch
    BY <2>1 DEF DispatchGiven, Dispatch, Gives
  <2>2. CASE Call
    BY <2>2 DEF DispatchGiven, Call, Gives
  <2>3. CASE Sample
    BY <2>3 DEF DispatchGiven, Sample, Gives
  <2>4. CASE TypeCheck
    BY <2>4 DEF DispatchGiven, TypeCheck, Gives
  <2>5. CASE ParseDiff
    BY <2>5 DEF DispatchGiven, ParseDiff, Gives
  <2>6. CASE ReportTwice
    BY <2>6 DEF DispatchGiven, ReportTwice, Gives
  <2>7. CASE Match
    BY <2>7 DEF DispatchGiven, Match, Gives
  <2>8. CASE ImportAll
    BY <2>8 DEF DispatchGiven, ImportAll, Gives
  <2>9. CASE NameMutants
    BY <2>9 DEF DispatchGiven, NameMutants, Gives
  <2>10. CASE ScanText
    BY <2>10 DEF DispatchGiven, ScanText, Gives
  <2>11. CASE UNCHANGED vars
    BY <2>11 DEF DispatchGiven, vars
  <2> QED BY <2>1, <2>2, <2>3, <2>4, <2>5, <2>6, <2>7, <2>8, <2>9, <2>10, <2>11 DEF CallOrFilter
<1>3. DispatchGiven => DispatchIsExact
  <2> SUFFICES ASSUME DispatchGiven, Finished("dispatch"), ~Shadowed
               PROVE  Exact(input.f, input.mutants, input.active, output)
    BY DEF DispatchIsExact, Exact
  <2> DEFINE f == input.f
             mro == input.mro
             mutants == input.mutants
             active == input.active
  <2>1. /\ input \in Dispatches
        /\ output = Tramp!IrradiateTrampoline(Tramp!Resolve(f, mro), mutants, active)
    BY DEF DispatchGiven, Finished
  <2>2. /\ f \in NamedFunctions
        /\ mro \in Seq([module : Seq(Parts), class : Words, methods : SUBSET Seq(Words)])
        /\ f.class # "" => \E i \in DOMAIN mro : Defines(mro[i], f)
        /\ mutants \in SUBSET Words
        /\ \/ active \in Modes
           \/ /\ IsMutant(active)
              /\ active = Tramp!MutantKey(f, active[Len(active)]) => active[Len(active)] \in mutants
    BY <2>1, InputsAssumption DEF DispatchesAssumption, NamedFunctions, Modes, IsMutant
  <2>3. ~HidesOwn(f, mro)
    BY DEF Shadowed, HidesOwn
  <2> HIDE DEF f, mro, mutants, active
  <2>4. Tramp!Resolve(f, mro) = f
    BY <2>2, <2>3, ResolvesItself
  <2>5. Exact(f, mutants, active, Tramp!IrradiateTrampoline(f, mutants, active))
    BY <2>2, DispatchesExactly
  <2> QED BY <2>1, <2>4, <2>5 DEF f, mutants, active
<1> QED BY <1>1, <1>2, <1>3, PTL DEF CallsAndFiltersSpec

-----------------------------------------------------------------------------
(* The wrapper                                                              *)

\* What a parameter list is made of.
Parameters == [kind : Kinds, name : STRING, default : BOOLEAN]

\* first is the place of the first parameter of a kind, or the one after the last.
IsFirstOfKind(first, params, kinds) ==
  /\ first \in 1..Len(params) + 1
  /\ first <= Len(params) => params[first].kind \in kinds
  /\ \A j \in 1..first - 1 : params[j].kind \notin kinds

\* There is one such place, and IndexOfKind is it.
LEMMA FirstOfKind ==
  ASSUME NEW S, NEW params \in Seq(S), NEW kinds
  PROVE  IsFirstOfKind(Tramp!IndexOfKind(params, kinds), params, kinds)
<1> DEFINE T == {i \in DOMAIN params : params[i].kind \in kinds}
           n == Len(params)
           first == Tramp!IndexOfKind(params, kinds)
<1>1. n \in Nat /\ DOMAIN params = 1..n
  BY LenProperties
<1>2. first = IF T = {} THEN n + 1 ELSE CHOOSE i \in T : \A j \in T : i <= j
  BY DEF Tramp!IndexOfKind
<1>3. \A i : i \in T <=> i \in 1..n /\ params[i].kind \in kinds
  BY <1>1
<1> HIDE DEF n, first, T
<1> DEFINE Good == /\ first \in 1..n + 1
                   /\ first <= n => params[first].kind \in kinds
                   /\ \A j \in 1..first - 1 : params[j].kind \notin kinds
<1>4. ASSUME T = {} PROVE Good
  BY <1>1, <1>2, <1>3, <1>4
<1>5. ASSUME T # {} PROVE Good
  <2>1. T \in SUBSET Nat
    BY <1>1, <1>3
  <2>2. \E i \in T : \A j \in T : i <= j
    BY <1>5, <2>1, LeastNumber
  <2>3. first \in T /\ \A j \in T : first <= j
    BY <1>2, <1>5, <2>2
  <2>4. \A j \in 1..first - 1 : j \in 1..n /\ j \notin T
    BY <1>1, <1>3, <2>3
  <2> QED BY <1>1, <1>3, <2>3, <2>4
<1>6. Good
  <2> HIDE DEF Good
  <2> QED BY <1>4, <1>5
<1> QED BY <1>6 DEF n, first, IsFirstOfKind

\* plain goes through the parameters and takes the plain ones, from a place on.
IsPlain(plain, params, from, S) ==
  /\ plain \in [0..Len(params) -> Seq(S)]
  /\ plain[0] = <<>>
  /\ \A i \in 1..Len(params) :
        plain[i] = IF i >= from /\ params[i].kind = "param"
                   THEN Append(plain[i - 1], params[i]) ELSE plain[i - 1]

\* PlainFrom goes through them so.
LEMMA PlainDef ==
  ASSUME NEW S, NEW params \in Seq(S), NEW from \in Nat
  PROVE  IsPlain(Tramp!PlainFrom(params, from), params, from, S)
<1> DEFINE n == Len(params)
           V == Seq(S)
           Next1(i, v) == IF i >= from /\ params[i].kind = "param" THEN Append(v, params[i]) ELSE v
           step == [i \in 1..n |-> [v \in V |-> Next1(i, v)]]
           Is(f) == f = [i \in 0..n |-> IF i = 0 THEN <<>> ELSE Next1(i, f[i - 1])]
           Good(f) == /\ f \in [0..n -> V] /\ f[0] = <<>>
                      /\ \A i \in 1..n : f[i] = Next1(i, f[i - 1])
           plain == Tramp!PlainFrom(params, from)
<1>1. n \in Nat /\ \A i \in 1..n : params[i] \in S
  OBVIOUS
<1>2. \A i \in 1..n, v \in V : Next1(i, v) \in V
  BY <1>1
<1>3. <<>> \in V
  OBVIOUS
<1>4. plain = CHOOSE f : Is(f)
  BY DEF Tramp!PlainFrom
<1> HIDE DEF n, V, Next1, plain
<1>5. step \in [1..n -> [V -> V]]
  BY <1>2
<1>6. PICK f : Steps(f, n, V, <<>>, step)
  <2> HIDE DEF step
  <2> QED BY <1>1, <1>3, <1>5, Recursion
<1>7. Good(f)
  <2>1. ASSUME NEW i \in 1..n PROVE f[i] = Next1(i, f[i - 1])
    <3>1. f[i - 1] \in V /\ f[i] = step[i][f[i - 1]]
      <4>1. i - 1 \in 0..n
        BY <1>1
      <4> QED BY <1>6, <4>1 DEF Steps
    <3> QED BY <3>1
  <2> QED BY <1>6, <2>1 DEF Steps
<1>8. Is(f)
  <2>1. f = [i \in 0..n |-> f[i]]
    BY <1>7
  <2>2. \A i \in 0..n : f[i] = IF i = 0 THEN <<>> ELSE Next1(i, f[i - 1])
    <3> SUFFICES ASSUME NEW i \in 0..n, i # 0 PROVE f[i] = Next1(i, f[i - 1])
      BY <1>7
    <3>1. i \in 1..n
      BY <1>1
    <3> QED BY <1>7, <3>1
  <2> QED BY <2>1, <2>2
<1>9. \A g : Is(g) => g = f
  <2> SUFFICES ASSUME NEW g, Is(g) PROVE g = f
    OBVIOUS
  <2>1. g[0] = f[0] /\ \A i \in 1..n : g[i] = Next1(i, g[i - 1])
    BY <1>1, <1>7
  <2>2. \A i \in 1..n : g[i - 1] = f[i - 1] => g[i] = f[i]
    BY <1>7, <2>1
  <2>3. IsOver(g, n) /\ IsOver(f, n)
    BY <1>7 DEF IsOver
  <2>4. n \in Nat
    BY <1>1
  <2> QED BY ONLY <2>1, <2>2, <2>3, <2>4, SameSteps
<1>10. plain = f
  <2> HIDE DEF Is
  <2> QED BY <1>4, <1>8, <1>9
<1>11. Good(plain)
  BY <1>7, <1>10
<1> QED BY <1>11 DEF Good, n, V, Next1, plain, IsPlain

\* What is known of a legal parameter list.
IsSignature(params, n) ==
  /\ params \in Seq(Parameters) /\ n = Len(params) /\ n \in Nat
  /\ \A i \in 1..n : params[i] \in Parameters /\ params[i].kind \in Kinds
  /\ \A i, j \in 1..n : params[i].name = params[j].name => i = j
  /\ \A i, j \in 1..n : /\ params[i].kind \in {"star", "args"}
                       /\ params[j].kind \in {"star", "args"} => i = j
  /\ \A i \in 1..n : params[i].kind = "kwargs" => i = n
  /\ \A i, j \in 1..n : /\ params[i].kind = "slash"
                       /\ params[j].kind \in {"star", "args"} => i < j

\* A legal one is such.
LEMMA SignatureFacts ==
  ASSUME NEW params, LegalSignature(params)
  PROVE  IsSignature(params, Len(params))
<1> DEFINE n == Len(params)
<1>1. params \in Seq(Parameters)
  BY DEF LegalSignature, Parameters
<1>2. n \in Nat /\ DOMAIN params = 1..n
  BY <1>1, LenProperties
<1>3. \A i \in 1..n : params[i] \in Parameters
  BY <1>1, ElementOfSeq
<1>4. \A p \in Parameters : p.kind \in Kinds
  BY DEF Parameters
<1>5. /\ \A i, j \in DOMAIN params : params[i].name = params[j].name => i = j
      /\ \A i, j \in {k \in DOMAIN params : params[k].kind \in {"star", "args"}} : i = j
      /\ {k \in DOMAIN params : params[k].kind \in {"kwargs"}} \subseteq {n}
      /\ \A i \in {k \in DOMAIN params : params[k].kind \in {"slash"}},
            j \in {k \in DOMAIN params : params[k].kind \in {"star", "args"}} : i < j
  BY DEF LegalSignature
<1> HIDE DEF n
<1> QED BY <1>1, <1>2, <1>3, <1>4, <1>5 DEF IsSignature, n

\* v are plain parameters from among those from a place to another, no two of one name.
PlainUpTo(v, params, from, i) ==
  /\ v \in Seq(Parameters)
  /\ \A k \in 1..Len(v) : \E j \in 1..i : /\ j >= from /\ params[j].kind = "param"
                                         /\ v[k] = params[j]
  /\ \A k, l \in 1..Len(v) : v[k].name = v[l].name => k = l
  /\ from = 1 /\ i >= 1 /\ params[1].kind = "param" => Len(v) >= 1 /\ v[1] = params[1]

\* A plain parameter more.
LEMMA PlainStep ==
  ASSUME NEW params, LegalSignature(params), NEW from \in Nat, NEW i \in 1..Len(params),
         NEW v, PlainUpTo(v, params, from, i - 1), i >= from, params[i].kind = "param"
  PROVE  PlainUpTo(Append(v, params[i]), params, from, i)
<1> DEFINE w == Append(v, params[i])
           m == Len(v)
           n == Len(params)
<1>1. /\ params \in Seq(Parameters) /\ n \in Nat /\ i \in 1..n /\ v \in Seq(Parameters) /\ m \in Nat
      /\ \A j, k \in 1..n : params[j].name = params[k].name => j = k
      /\ params[i] \in Parameters
  <2>1. IsSignature(params, n)
    BY SignatureFacts
  <2>2. v \in Seq(Parameters) /\ m \in Nat
    BY DEF PlainUpTo
  <2> HIDE DEF m, n
  <2> QED BY <2>1, <2>2 DEF IsSignature, n
<1>2. /\ w \in Seq(Parameters) /\ Len(w) = m + 1 /\ w[m + 1] = params[i]
      /\ \A k \in 1..m : w[k] = v[k]
  BY <1>1, AppendProperties
<1>3. /\ \A k \in 1..m : \E j \in 1..i - 1 : /\ j >= from /\ params[j].kind = "param"
                                            /\ v[k] = params[j]
      /\ \A k, l \in 1..m : v[k].name = v[l].name => k = l
      /\ from = 1 /\ i - 1 >= 1 /\ params[1].kind = "param" => m >= 1 /\ v[1] = params[1]
  BY DEF PlainUpTo
<1> HIDE DEF w, m, n
<1>4. \A k \in 1..m + 1 : k \in 1..m \/ k = m + 1
  BY <1>1
<1>5. /\ i \in 1..i
      /\ \A j \in 1..i - 1 : j \in 1..i /\ j \in 1..n /\ j # i
  BY <1>1
<1>6. \A k \in 1..m + 1 : \E j \in 1..i : /\ j >= from /\ params[j].kind = "param"
                                         /\ w[k] = params[j]
  BY <1>2, <1>3, <1>4, <1>5
<1>7. \A k \in 1..m : w[k].name # w[m + 1].name
  <2> SUFFICES ASSUME NEW k \in 1..m PROVE w[k].name # w[m + 1].name
    OBVIOUS
  <2>1. PICK j \in 1..i - 1 : v[k] = params[j]
    BY <1>3
  <2>2. j \in 1..n /\ j # i
    BY <1>5, <2>1
  <2>3. params[j].name # params[i].name
    BY <1>1, <2>2
  <2> QED BY <1>2, <2>1, <2>3
<1>8. \A k, l \in 1..m + 1 : w[k].name = w[l].name => k = l
  BY <1>2, <1>3, <1>4, <1>7
<1>9. from = 1 /\ i >= 1 /\ params[1].kind = "param" => m + 1 >= 1 /\ w[1] = params[1]
  <2>1. CASE i = 1
    <3>1. ~(1 \in 1..m)
      BY <1>3, <2>1
    <3>2. m = 0
      BY <1>1, <3>1
    <3> QED BY <1>2, <2>1, <3>2
  <2>2. CASE i # 1
    <3>1. i - 1 >= 1
      BY <1>1, <2>2
    <3>2. from = 1 /\ params[1].kind = "param" => 1 \in 1..m /\ v[1] = params[1]
      BY <1>1, <1>3, <3>1
    <3> QED BY <1>1, <1>2, <3>2
  <2> QED BY <2>1, <2>2
<1>10. Len(w) = m + 1
  BY <1>2
<1> QED BY <1>2, <1>6, <1>8, <1>9, <1>10 DEF PlainUpTo, w

\* Which parameters PlainFrom has taken when it has come to a place.
LEMMA PlainTakes ==
  ASSUME NEW params, LegalSignature(params), NEW from \in Nat
  PROVE  \A i \in 0..Len(params) : PlainUpTo(Tramp!PlainFrom(params, from)[i], params, from, i)
<1> DEFINE plain == Tramp!PlainFrom(params, from)
           n == Len(params)
           S == {i \in Nat : i <= n => PlainUpTo(plain[i], params, from, i)}
<1>1. params \in Seq(Parameters) /\ n \in Nat
  BY SignatureFacts DEF IsSignature
<1>2. IsPlain(plain, params, from, Parameters)
  BY <1>1, PlainDef
<1> HIDE DEF plain
<1>3. PlainUpTo(plain[0], params, from, 0)
  <2>1. plain[0] = <<>>
    BY <1>2 DEF IsPlain
  <2> QED BY <2>1 DEF PlainUpTo
<1>4. ASSUME NEW i \in Nat, i \in S PROVE i + 1 \in S
  <2> SUFFICES ASSUME i + 1 <= n PROVE PlainUpTo(plain[i + 1], params, from, i + 1)
    OBVIOUS
  <2> DEFINE next == i + 1
             v == plain[i]
  <2>1. /\ next \in 1..n /\ next - 1 = i /\ PlainUpTo(v, params, from, i)
    BY <1>1, <1>4
  <2>2. plain[next] = IF next >= from /\ params[next].kind = "param"
                      THEN Append(v, params[next]) ELSE v
    BY <1>2, <2>1 DEF IsPlain
  <2>3. CASE next >= from /\ params[next].kind = "param"
    <3> HIDE DEF next, v
    <3>1. PlainUpTo(Append(v, params[next]), params, from, next)
      BY <1>1, <2>1, <2>3, PlainStep
    <3> QED BY <2>2, <2>3, <3>1 DEF next
  <2>4. CASE ~(next >= from /\ params[next].kind = "param")
    <3>1. plain[next] = v
      BY <2>2, <2>4
    <3>2. \A j \in 1..i : j \in 1..next
      BY <1>4
    <3>3. from = 1 /\ params[1].kind = "param" => i >= 1
      BY <2>1, <2>4
    <3> HIDE DEF next, v
    <3> QED BY <2>1, <3>1, <3>2, <3>3 DEF PlainUpTo, next
  <2> QED BY <2>3, <2>4
<1>5. Nat \subseteq S
  <2>1. 0 \in S
    BY <1>3
  <2> HIDE DEF S
  <2> QED BY <1>4, <2>1, SetInduction
<1>6. \A i \in 0..n : i \in Nat /\ i <= n
  BY <1>1
<1> QED BY <1>5, <1>6 DEF plain

\* What parse_param_names has collected at any time.
ParsedLists == [pos : Seq(Parameters), kw : Seq(Parameters), kwargs : BOOLEAN, afterStar : BOOLEAN]

\* Each part of the list of parameters leads from one to the next.
LEMMA PartsAreParsed ==
  ASSUME NEW p \in Parameters, NEW v \in ParsedLists
  PROVE  Tramp!ParsePart(v, p) \in ParsedLists
<1>1. /\ p.kind \in Kinds
      /\ v.pos \in Seq(Parameters) /\ v.kw \in Seq(Parameters)
  BY DEF Parameters, ParsedLists
<1>2. Append(v.pos, p) \in Seq(Parameters) /\ Append(v.kw, p) \in Seq(Parameters)
  BY <1>1
<1>3. CASE p.kind = "slash"
  BY <1>3 DEF Tramp!ParsePart
<1>4. CASE p.kind = "star"
  BY <1>4 DEF Tramp!ParsePart, ParsedLists
<1>5. CASE p.kind = "kwargs"
  BY <1>5 DEF Tramp!ParsePart, ParsedLists
<1>6. CASE p.kind = "args"
  BY <1>2, <1>6 DEF Tramp!ParsePart, ParsedLists
<1>7. CASE p.kind = "param"
  BY <1>2, <1>7 DEF Tramp!ParsePart, ParsedLists
<1> QED BY <1>1, <1>3, <1>4, <1>5, <1>6, <1>7 DEF Kinds

\* parsed goes through the parts of a parameter list.
IsParsed(parsed, params) ==
  /\ parsed \in [0..Len(params) -> ParsedLists]
  /\ parsed[0] = Tramp!NothingParsed
  /\ \A i \in 1..Len(params) : parsed[i] = Tramp!ParsePart(parsed[i - 1], params[i])

\* parse_param_names goes through them so.
LEMMA ParsedDef ==
  ASSUME NEW params \in Seq(Parameters)
  PROVE  IsParsed(Tramp!Parsed(params), params)
<1> DEFINE n == Len(params)
           V == ParsedLists
           Next1(i, v) == Tramp!ParsePart(v, params[i])
           step == [i \in 1..n |-> [v \in V |-> Next1(i, v)]]
           b == Tramp!NothingParsed
           Is(f) == f = [i \in 0..n |-> IF i = 0 THEN b ELSE Next1(i, f[i - 1])]
           Good(f) == /\ f \in [0..n -> V] /\ f[0] = b
                      /\ \A i \in 1..n : f[i] = Next1(i, f[i - 1])
           parsed == Tramp!Parsed(params)
<1>1. n \in Nat /\ \A i \in 1..n : params[i] \in Parameters
  OBVIOUS
<1>2. \A i \in 1..n, v \in V : Next1(i, v) \in V
  BY <1>1, PartsAreParsed
<1>3. b \in V
  BY DEF Tramp!NothingParsed, ParsedLists
<1>4. parsed = CHOOSE f : Is(f)
  BY DEF Tramp!Parsed
<1> HIDE DEF n, V, Next1, b, parsed
<1>5. step \in [1..n -> [V -> V]]
  BY <1>2
<1>6. PICK f : Steps(f, n, V, b, step)
  <2> HIDE DEF step
  <2> QED BY <1>1, <1>3, <1>5, Recursion
<1>7. Good(f)
  <2>1. ASSUME NEW i \in 1..n PROVE f[i] = Next1(i, f[i - 1])
    <3>1. f[i - 1] \in V /\ f[i] = step[i][f[i - 1]]
      <4>1. i - 1 \in 0..n
        BY <1>1
      <4> QED BY <1>6, <4>1 DEF Steps
    <3> QED BY <3>1
  <2> QED BY <1>6, <2>1 DEF Steps
<1>8. Is(f)
  <2>1. f = [i \in 0..n |-> f[i]]
    BY <1>7
  <2>2. \A i \in 0..n : f[i] = IF i = 0 THEN b ELSE Next1(i, f[i - 1])
    <3> SUFFICES ASSUME NEW i \in 0..n, i # 0 PROVE f[i] = Next1(i, f[i - 1])
      BY <1>7
    <3>1. i \in 1..n
      BY <1>1
    <3> QED BY <1>7, <3>1
  <2> QED BY <2>1, <2>2
<1>9. \A g : Is(g) => g = f
  <2> SUFFICES ASSUME NEW g, Is(g) PROVE g = f
    OBVIOUS
  <2>1. g[0] = f[0] /\ \A i \in 1..n : g[i] = Next1(i, g[i - 1])
    BY <1>1, <1>7
  <2>2. \A i \in 1..n : g[i - 1] = f[i - 1] => g[i] = f[i]
    BY <1>7, <2>1
  <2>3. IsOver(g, n) /\ IsOver(f, n)
    BY <1>7 DEF IsOver
  <2>4. n \in Nat
    BY <1>1
  <2> QED BY ONLY <2>1, <2>2, <2>3, <2>4, SameSteps
<1>10. parsed = f
  <2> HIDE DEF Is
  <2> QED BY <1>4, <1>8, <1>9
<1>11. Good(parsed)
  BY <1>7, <1>10
<1> QED BY <1>11 DEF Good, n, V, Next1, b, parsed, IsParsed

\* The parameters before the star, and those after it.
FirstStar(params) == Tramp!IndexOfKind(params, {"star", "args"})
Before(params)    == Tramp!PlainFrom(params, 1)
After(params)     == Tramp!PlainFrom(params, FirstStar(params))

\* The parameters passed by position, if all have been seen.
ByPosition(params, star) ==
  IF params[star].kind = "args" THEN Append(Before(params)[star - 1], params[star])
  ELSE Before(params)[star - 1]

\* What parse_param_names has found when it has come to a place.
ParsedUpTo(parsed, params, i) ==
  LET star == FirstStar(params)
  IN /\ parsed \in ParsedLists
     /\ parsed.afterStar <=> star <= i
     /\ parsed.kwargs <=> \E j \in 1..i : params[j].kind = "kwargs"
     /\ parsed.kw = After(params)[i]
     /\ i < star => parsed.pos = Before(params)[i]
     /\ i >= star => parsed.pos = ByPosition(params, star)

\* One part more.
LEMMA ParseStep ==
  ASSUME NEW params, LegalSignature(params), NEW i \in 1..Len(params),
         NEW v, ParsedUpTo(v, params, i - 1)
  PROVE  ParsedUpTo(Tramp!ParsePart(v, params[i]), params, i)
<1> DEFINE n == Len(params)
           p == params[i]
           w == Tramp!ParsePart(v, p)
           star == FirstStar(params)
           b == Before(params)
           a == After(params)
<1>1. IsSignature(params, n) /\ n \in Nat /\ i \in 1..n
  BY SignatureFacts DEF IsSignature
<1>2. p \in Parameters /\ p.kind \in Kinds
  BY <1>1 DEF IsSignature
<1>3. /\ star \in 1..n + 1
      /\ star <= n => params[star].kind \in {"star", "args"}
      /\ \A j \in 1..star - 1 : params[j].kind \notin {"star", "args"}
      /\ i = star => p.kind \in {"star", "args"}
      /\ p.kind \in {"star", "args"} => i = star
  <2>1. IsFirstOfKind(star, params, {"star", "args"})
    BY <1>1, FirstOfKind DEF FirstStar, IsSignature
  <2>2. /\ star \in 1..n + 1
        /\ star <= n => params[star].kind \in {"star", "args"}
        /\ \A j \in 1..star - 1 : params[j].kind \notin {"star", "args"}
    BY <2>1 DEF IsFirstOfKind
  <2>3. i = star => p.kind \in {"star", "args"}
    BY <1>1, <2>2
  <2>4. ASSUME p.kind \in {"star", "args"} PROVE i = star
    <3>1. i \notin 1..star - 1
      BY <2>2, <2>4
    <3>2. star \in 1..n
      BY <1>1, <2>2, <3>1
    <3> QED BY <1>1, <2>2, <2>4, <3>2 DEF IsSignature
  <2> QED BY <2>2, <2>3, <2>4
<1>4. /\ b[i] = IF p.kind = "param" THEN Append(b[i - 1], p) ELSE b[i - 1]
      /\ a[i] = IF i >= star /\ p.kind = "param" THEN Append(a[i - 1], p) ELSE a[i - 1]
  <2>1. IsPlain(b, params, 1, Parameters) /\ IsPlain(a, params, star, Parameters)
    <3>1. 1 \in Nat /\ star \in Nat
      BY <1>1, <1>3
    <3>2. params \in Seq(Parameters)
      BY <1>1 DEF IsSignature
    <3> QED BY <3>1, <3>2, PlainDef DEF Before, After
  <2> QED BY <1>1, <2>1 DEF IsPlain
<1> HIDE DEF star, b, a, n, p
<1>5. /\ v \in ParsedLists
      /\ v.afterStar <=> star <= i - 1
      /\ v.kwargs <=> \E j \in 1..i - 1 : params[j].kind = "kwargs"
      /\ v.kw = a[i - 1]
      /\ i - 1 < star => v.pos = b[i - 1]
      /\ i - 1 >= star => v.pos = ByPosition(params, star)
  BY DEF ParsedUpTo, star, b, a
<1>6. w \in ParsedLists
  BY <1>2, <1>5, PartsAreParsed
<1> DEFINE Good == /\ w.afterStar <=> star <= i
                   /\ w.kwargs <=> \E j \in 1..i : params[j].kind = "kwargs"
                   /\ w.kw = a[i]
                   /\ i < star => w.pos = b[i]
                   /\ i >= star => w.pos = ByPosition(params, star)
<1>7. (\E j \in 1..i : params[j].kind = "kwargs")
         <=> (p.kind = "kwargs" \/ \E j \in 1..i - 1 : params[j].kind = "kwargs")
  <2>1. \A j : j \in 1..i <=> j \in 1..i - 1 \/ j = i
    BY <1>1
  <2> QED BY <2>1 DEF p
<1>8. /\ i \in Int /\ star \in Int
      /\ star <= i - 1 => star <= i /\ i # star /\ i - 1 >= star /\ i >= star
      /\ ~(star <= i - 1) => i - 1 < star /\ (star <= i <=> i = star) /\ (i >= star <=> i = star)
  BY <1>1, <1>3
<1>9. ASSUME p.kind = "param" /\ star <= i - 1 PROVE Good
  <2>1. w = [v EXCEPT !.kw = Append(@, p)]
    BY <1>5, <1>9 DEF Tramp!ParsePart
  <2>2. /\ w.afterStar = v.afterStar /\ w.kwargs = v.kwargs /\ w.pos = v.pos
        /\ w.kw = Append(v.kw, p)
    BY <1>5, <2>1 DEF ParsedLists
  <2> HIDE DEF w
  <2> QED BY <1>3, <1>4, <1>5, <1>7, <1>8, <1>9, <2>2
<1>10. ASSUME p.kind = "param" /\ ~(star <= i - 1) PROVE Good
  <2>1. w = [v EXCEPT !.pos = Append(@, p)]
    BY <1>5, <1>10 DEF Tramp!ParsePart
  <2>2. /\ w.afterStar = v.afterStar /\ w.kwargs = v.kwargs /\ w.kw = v.kw
        /\ w.pos = Append(v.pos, p)
    BY <1>5, <2>1 DEF ParsedLists
  <2>3. i # star
    BY <1>3, <1>10
  <2> HIDE DEF w
  <2> QED BY <1>4, <1>5, <1>7, <1>8, <1>10, <2>2, <2>3
<1>11. ASSUME p.kind = "slash" \/ p.kind = "kwargs" PROVE Good
  <2>1. w = IF p.kind = "slash" THEN v ELSE [v EXCEPT !.kwargs = TRUE]
    BY <1>11 DEF Tramp!ParsePart
  <2>2. /\ w.afterStar = v.afterStar /\ w.kw = v.kw /\ w.pos = v.pos
        /\ w.kwargs <=> v.kwargs \/ p.kind = "kwargs"
    BY <1>5, <1>11, <2>1 DEF ParsedLists
  <2>3. i # star
    BY <1>3, <1>11
  <2> HIDE DEF w
  <2> QED BY <1>4, <1>5, <1>7, <1>8, <1>11, <2>2, <2>3
<1>12. ASSUME p.kind = "star" \/ p.kind = "args" PROVE Good
  <2>1. w = IF p.kind = "star" THEN [v EXCEPT !.afterStar = TRUE]
            ELSE [v EXCEPT !.pos = Append(@, p), !.afterStar = TRUE]
    BY <1>12 DEF Tramp!ParsePart
  <2>2. /\ w.afterStar = TRUE /\ w.kw = v.kw /\ w.kwargs = v.kwargs
        /\ w.pos = IF p.kind = "args" THEN Append(v.pos, p) ELSE v.pos
    BY <1>5, <1>12, <2>1 DEF ParsedLists
  <2>3. i = star /\ ~(star <= i - 1)
    BY <1>1, <1>3, <1>12
  <2>4. ByPosition(params, star) = IF p.kind = "args" THEN Append(b[i - 1], p) ELSE b[i - 1]
    BY <2>3 DEF ByPosition, b, p
  <2> HIDE DEF w
  <2> QED BY <1>4, <1>5, <1>7, <1>8, <1>12, <2>2, <2>3, <2>4
<1>13. Good
  <2> HIDE DEF Good
  <2> QED BY <1>2, <1>9, <1>10, <1>11, <1>12 DEF Kinds
<1> QED BY <1>6, <1>13 DEF ParsedUpTo, star, b, a, p, w

\* After the last part parse_param_names has gone through all of them.
LEMMA ParsedAtLast ==
  ASSUME NEW params, LegalSignature(params)
  PROVE  ParsedUpTo(Tramp!Parsed(params)[Len(params)], params, Len(params))
<1> DEFINE n == Len(params)
           parsed == Tramp!Parsed(params)
           S == {i \in Nat : i <= n => ParsedUpTo(parsed[i], params, i)}
<1>1. IsSignature(params, n) /\ n \in Nat /\ params \in Seq(Parameters)
  BY SignatureFacts DEF IsSignature
<1>2. IsParsed(parsed, params)
  BY <1>1, ParsedDef
<1> HIDE DEF parsed
<1>3. ParsedUpTo(parsed[0], params, 0)
  <2> DEFINE star == FirstStar(params)
  <2>1. star \in 1..n + 1
    BY <1>1, FirstOfKind DEF IsFirstOfKind, FirstStar
  <2>2. star \in Nat /\ ~(star <= 0) /\ 0 < star /\ ~(0 >= star)
    BY <1>1, <2>1
  <2>3. parsed[0] = Tramp!NothingParsed /\ parsed[0] \in ParsedLists
    BY <1>1, <1>2 DEF IsParsed
  <2>4. Before(params)[0] = <<>> /\ After(params)[0] = <<>>
    <3>1. 1 \in Nat
      OBVIOUS
    <3> HIDE DEF star
    <3>2. IsPlain(Before(params), params, 1, Parameters)
      BY <1>1, <3>1, PlainDef DEF Before
    <3>3. IsPlain(After(params), params, star, Parameters)
      BY <1>1, <2>2, PlainDef DEF After, star
    <3> QED BY <3>2, <3>3 DEF IsPlain
  <2>5. \A j \in 1..0 : FALSE
    OBVIOUS
  <2> HIDE DEF star
  <2> QED BY <2>2, <2>3, <2>4, <2>5 DEF ParsedUpTo, star, Tramp!NothingParsed
<1>4. ASSUME NEW i \in Nat, i \in S PROVE i + 1 \in S
  <2> SUFFICES ASSUME i + 1 <= n PROVE ParsedUpTo(parsed[i + 1], params, i + 1)
    OBVIOUS
  <2> DEFINE next == i + 1
             v == parsed[i]
  <2>1. next \in 1..n /\ next - 1 = i /\ ParsedUpTo(v, params, i)
    BY <1>1, <1>4
  <2>2. parsed[next] = Tramp!ParsePart(v, params[next])
    BY <1>2, <2>1 DEF IsParsed
  <2> HIDE DEF next, v
  <2>3. ParsedUpTo(Tramp!ParsePart(v, params[next]), params, next)
    BY <2>1, ParseStep
  <2> QED BY <2>2, <2>3 DEF next
<1>5. Nat \subseteq S
  <2>1. 0 \in S
    BY <1>3
  <2> HIDE DEF S
  <2> QED BY <1>4, <2>1, SetInduction
<1>6. n \in Nat /\ n <= n
  BY <1>1
<1> QED BY <1>5, <1>6 DEF parsed

\* The parameters that Python binds by position are those before the star.
LEMMA PositionalIs ==
  ASSUME NEW params, LegalSignature(params)
  PROVE  Tramp!Positional(params) = Before(params)[FirstStar(params) - 1]
<1> DEFINE n == Len(params)
           star == FirstStar(params)
           stop == Tramp!IndexOfKind(params, {"star", "args", "kwargs"})
           b == Before(params)
<1>1. IsSignature(params, n) /\ n \in Nat /\ params \in Seq(Parameters)
  BY SignatureFacts DEF IsSignature
<1>2. /\ star \in 1..n + 1
      /\ star <= n => params[star].kind \in {"star", "args"}
      /\ \A j \in 1..star - 1 : params[j].kind \notin {"star", "args"}
  <2>1. IsFirstOfKind(star, params, {"star", "args"})
    BY <1>1, FirstOfKind DEF FirstStar
  <2> QED BY <2>1 DEF IsFirstOfKind
<1>3. /\ stop \in 1..n + 1
      /\ stop <= n => params[stop].kind \in {"star", "args", "kwargs"}
      /\ \A j \in 1..stop - 1 : params[j].kind \notin {"star", "args", "kwargs"}
  <2>1. IsFirstOfKind(stop, params, {"star", "args", "kwargs"})
    BY <1>1, FirstOfKind
  <2> QED BY <2>1 DEF IsFirstOfKind
<1>4. Tramp!Positional(params) = b[stop - 1]
  BY DEF Tramp!Positional, Before
<1>5. \A i \in 1..n : params[i].kind # "param" => b[i] = b[i - 1]
  <2>1. 1 \in Nat
    OBVIOUS
  <2>2. IsPlain(b, params, 1, Parameters)
    BY <1>1, <2>1, PlainDef DEF Before
  <2> HIDE DEF b
  <2> QED BY <2>2 DEF IsPlain
<1>6. \A i \in 1..n : params[i].kind = "kwargs" => i = n
  BY <1>1 DEF IsSignature
<1> HIDE DEF n, star, stop, b
<1>7. CASE stop = star
  BY <1>4, <1>7 DEF star, b
<1>8. CASE stop # star
  <2>1. ~(star < stop)
    BY <1>1, <1>2, <1>3
  <2>2. stop \in 1..star - 1 /\ stop \in 1..n
    BY <1>1, <1>2, <1>3, <1>8, <2>1
  <2>3. params[stop].kind = "kwargs" /\ stop = n
    BY <1>2, <1>3, <1>6, <2>2
  <2>4. star = n + 1 /\ b[n] = b[n - 1] /\ star - 1 = n
    BY <1>1, <1>2, <1>5, <2>2, <2>3
  <2> QED BY <1>4, <2>3, <2>4 DEF star, b
<1> QED BY <1>7, <1>8

\* parse_param_names finds what Python binds by position, with *args after it; what it binds by
\* name; and whether there is a **kwargs.
FindsAll(parsed, params) ==
  /\ parsed \in ParsedLists
  /\ parsed.kw = Tramp!KeywordOnly(params)
  /\ parsed.kwargs <=> Tramp!Takes(params, "kwargs")
  /\ ~Tramp!Takes(params, "args") => parsed.pos = Tramp!Positional(params)
  /\ Tramp!Takes(params, "args") =>
        \E p \in Parameters : /\ p.kind = "args"
                              /\ parsed.pos = Append(Tramp!Positional(params), p)

\* So it does, when it has come to the end.
LEMMA ParsingFindsAll ==
  ASSUME NEW params, LegalSignature(params)
  PROVE  FindsAll(Tramp!Parsed(params)[Len(params)], params)
<1> DEFINE n == Len(params)
           star == FirstStar(params)
           parsed == Tramp!Parsed(params)[n]
           args == Tramp!Takes(params, "args")
<1>1. /\ IsSignature(params, n) /\ n \in Nat /\ params \in Seq(Parameters)
      /\ DOMAIN params = 1..n
      /\ \A i \in 1..n : params[i] \in Parameters
  BY SignatureFacts, LenProperties DEF IsSignature
<1>2. /\ star \in 1..n + 1
      /\ \A j \in 1..star - 1 : params[j].kind \notin {"star", "args"}
      /\ star <= n => params[star].kind \in {"star", "args"}
  <2>1. IsFirstOfKind(star, params, {"star", "args"})
    BY <1>1, FirstOfKind DEF FirstStar
  <2> QED BY <2>1 DEF IsFirstOfKind
<1>3. ParsedUpTo(parsed, params, n)
  BY ParsedAtLast
<1>4. args <=> star <= n /\ params[star].kind = "args"
  <2>1. ASSUME NEW i \in 1..n, params[i].kind = "args" PROVE star <= n /\ params[star].kind = "args"
    <3> HIDE DEF n, star
    <3>1. i \notin 1..star - 1
      BY <1>2, <2>1
    <3>2. star \in 1..n
      BY <1>1, <1>2, <3>1
    <3>3. params[star].kind \in {"star", "args"}
      BY <1>2, <3>2
    <3>4. star = i
      BY <1>1, <2>1, <3>2, <3>3 DEF IsSignature
    <3> QED BY <2>1, <3>2, <3>4
  <2>2. star <= n => star \in 1..n
    BY <1>1, <1>2
  <2>3. args <=> \E i \in 1..n : params[i].kind = "args"
    BY <1>1 DEF Tramp!Takes
  <2> HIDE DEF n, star, args
  <2> QED BY <2>1, <2>2, <2>3
<1> HIDE DEF parsed
<1>5. /\ parsed \in ParsedLists
      /\ parsed.kw = Tramp!KeywordOnly(params)
      /\ parsed.kwargs <=> Tramp!Takes(params, "kwargs")
  BY <1>1, <1>3 DEF ParsedUpTo, After, FirstStar, Tramp!KeywordOnly, Tramp!Takes
<1>6. parsed.pos = IF args THEN Append(Tramp!Positional(params), params[star])
                   ELSE Tramp!Positional(params)
  <2>1. CASE star <= n
    <3>1. parsed.pos = ByPosition(params, star)
      BY <1>1, <1>2, <1>3, <2>1 DEF ParsedUpTo
    <3> HIDE DEF args
    <3> QED BY <1>4, <2>1, <3>1, PositionalIs DEF ByPosition
  <2>2. CASE ~(star <= n)
    <3> HIDE DEF n, star, args
    <3>1. star = n + 1 /\ star - 1 = n /\ n < star
      BY <1>1, <1>2, <2>2
    <3>2. parsed.pos = Before(params)[n]
      BY <1>3, <3>1 DEF ParsedUpTo, star
    <3> QED BY <1>4, <2>2, <3>1, <3>2, PositionalIs DEF star
  <2> QED BY <2>1, <2>2
<1>7. args => params[star] \in Parameters /\ params[star].kind = "args"
  <2> HIDE DEF n, star, args
  <2> SUFFICES ASSUME args PROVE params[star] \in Parameters /\ params[star].kind = "args"
    OBVIOUS
  <2>1. star \in 1..n
    BY <1>1, <1>2, <1>4
  <2> QED BY <1>1, <1>4, <2>1
<1> HIDE DEF star
<1> QED BY <1>5, <1>6, <1>7 DEF FindsAll, parsed

\* What is bound by position, by name, and by position alone.
NamesApart(params, pos, kw) ==
  /\ pos \in Seq(Parameters) /\ kw \in Seq(Parameters)
  /\ \A k \in 1..Len(pos) : pos[k].kind = "param"
  /\ \A k, l \in 1..Len(pos) : pos[k].name = pos[l].name => k = l
  /\ Tramp!Names(pos) \cap Tramp!Names(kw) = {}
  /\ Tramp!PositionalOnly(params) \cap Tramp!Names(kw) = {}
  /\ 1 <= Len(params) /\ params[1].kind = "param" => Len(pos) >= 1 /\ pos[1] = params[1]

\* No name is bound in two of these ways.
LEMMA NamesAreApart ==
  ASSUME NEW params, LegalSignature(params)
  PROVE  NamesApart(params, Tramp!Positional(params), Tramp!KeywordOnly(params))
<1> DEFINE n == Len(params)
           star == FirstStar(params)
           slash == Tramp!IndexOfKind(params, {"slash"})
           pos == Tramp!Positional(params)
           kw == Tramp!KeywordOnly(params)
           po == Tramp!PositionalOnly(params)
           early == Before(params)[slash]
<1>1. /\ IsSignature(params, n) /\ n \in Nat /\ params \in Seq(Parameters)
      /\ DOMAIN params = 1..n
      /\ \A i, j \in 1..n : params[i].name = params[j].name => i = j
      /\ \A i, j \in 1..n : /\ params[i].kind = "slash"
                           /\ params[j].kind \in {"star", "args"} => i < j
  BY SignatureFacts, LenProperties DEF IsSignature
<1>2. /\ star \in 1..n + 1 /\ star - 1 \in 0..n
      /\ \A j \in 1..star - 1 : params[j].kind \notin {"star", "args"}
      /\ star <= n => params[star].kind \in {"star", "args"}
  <2>1. IsFirstOfKind(star, params, {"star", "args"})
    BY <1>1, FirstOfKind DEF FirstStar
  <2> QED BY <1>1, <2>1 DEF IsFirstOfKind
<1>3. /\ slash \in 1..n + 1
      /\ slash <= n => params[slash].kind = "slash"
      /\ \A j \in 1..slash - 1 : params[j].kind # "slash"
  <2>1. IsFirstOfKind(slash, params, {"slash"})
    BY <1>1, FirstOfKind
  <2> QED BY <2>1 DEF IsFirstOfKind
<1>4. pos = Before(params)[star - 1] /\ kw = After(params)[n]
  BY PositionalIs DEF After, FirstStar, Tramp!KeywordOnly
<1>5. PlainUpTo(pos, params, 1, star - 1)
  BY <1>2, <1>4, PlainTakes DEF Before
<1>6. PlainUpTo(kw, params, star, n)
  <2>1. n \in 0..n /\ star \in Nat
    BY <1>1, <1>2
  <2> QED BY <1>4, <2>1, PlainTakes DEF After
<1>7. po # {} => slash <= n /\ po = Tramp!Names(early)
  <2> SUFFICES ASSUME po # {} PROVE slash <= n /\ po = Tramp!Names(early)
    OBVIOUS
  <2>1. /\ \E i \in DOMAIN params : params[i].kind = "slash"
        /\ po = Tramp!Names(early)
    BY DEF Tramp!PositionalOnly, Before
  <2>2. PICK i \in 1..n : params[i].kind = "slash"
    BY <1>1, <2>1
  <2> HIDE DEF n, slash, po, early
  <2>3. slash <= n
    BY <1>1, <1>3, <2>2
  <2> QED BY <2>1, <2>3
<1>8. slash <= n => PlainUpTo(early, params, 1, slash)
  <2>1. slash <= n => slash \in 0..n
    BY <1>1, <1>3
  <2>2. 1 \in Nat
    OBVIOUS
  <2> QED BY <2>1, <2>2, PlainTakes DEF Before
<1> HIDE DEF n, star, slash, pos, kw, po, early
<1>9. \A q \in Tramp!Names(pos) : \E j \in 1..n : j < star /\ params[j].name = q
  <2> SUFFICES ASSUME NEW k \in DOMAIN pos PROVE \E j \in 1..n : j < star /\ params[j].name = pos[k].name
    BY DEF Tramp!Names
  <2>1. k \in 1..Len(pos)
    BY <1>5, LenProperties DEF PlainUpTo
  <2>2. PICK j \in 1..star - 1 : pos[k] = params[j]
    BY <1>5, <2>1 DEF PlainUpTo
  <2>3. j \in 1..n /\ j < star
    BY <1>1, <1>2, <2>2
  <2> QED BY <2>2, <2>3
<1>10. \A q \in Tramp!Names(kw) : \E j \in 1..n : star <= j /\ params[j].name = q
  <2> SUFFICES ASSUME NEW k \in DOMAIN kw PROVE \E j \in 1..n : star <= j /\ params[j].name = kw[k].name
    BY DEF Tramp!Names
  <2>1. k \in 1..Len(kw)
    BY <1>6, LenProperties DEF PlainUpTo
  <2>2. PICK j \in 1..n : j >= star /\ kw[k] = params[j]
    BY <1>6, <2>1 DEF PlainUpTo
  <2> QED BY <1>1, <1>2, <2>2
<1>11. \A q \in po : \E j \in 1..n : j <= slash /\ slash <= n /\ params[j].name = q
  <2> SUFFICES ASSUME NEW q \in po
               PROVE  \E j \in 1..n : j <= slash /\ slash <= n /\ params[j].name = q
    OBVIOUS
  <2>1. slash <= n /\ po = Tramp!Names(early) /\ PlainUpTo(early, params, 1, slash)
    BY <1>7, <1>8
  <2>2. PICK k \in DOMAIN early : q = early[k].name
    BY <2>1 DEF Tramp!Names
  <2>3. k \in 1..Len(early)
    BY <2>1, LenProperties DEF PlainUpTo
  <2>4. PICK j \in 1..slash : early[k] = params[j]
    BY <2>1, <2>3 DEF PlainUpTo
  <2>5. j \in 1..n /\ j <= slash
    BY <1>1, <1>3, <2>1, <2>4
  <2> QED BY <2>1, <2>2, <2>4, <2>5
<1>12. Tramp!Names(pos) \cap Tramp!Names(kw) = {}
  BY <1>1, <1>2, <1>9, <1>10
<1>13. po \cap Tramp!Names(kw) = {}
  <2> SUFFICES ASSUME NEW q \in po, q \in Tramp!Names(kw) PROVE FALSE
    OBVIOUS
  <2>1. PICK i \in 1..n : i <= slash /\ slash <= n /\ params[i].name = q
    BY <1>11
  <2>2. PICK j \in 1..n : star <= j /\ params[j].name = q
    BY <1>10
  <2>3. i = j
    BY <1>1, <2>1, <2>2
  <2>4. star \in 1..n /\ slash \in 1..n /\ star <= slash
    BY <1>1, <1>2, <1>3, <2>1, <2>2, <2>3
  <2>5. slash < star
    BY <1>1, <1>2, <1>3, <2>4
  <2> QED BY <1>1, <2>4, <2>5
<1>14. \A k \in 1..Len(pos) : pos[k].kind = "param"
  BY <1>5 DEF PlainUpTo
<1>15. 1 <= n /\ params[1].kind = "param" => Len(pos) >= 1 /\ pos[1] = params[1]
  <2> SUFFICES ASSUME 1 <= n, params[1].kind = "param" PROVE Len(pos) >= 1 /\ pos[1] = params[1]
    OBVIOUS
  <2>1. star # 1
    BY <1>2
  <2>2. star - 1 >= 1
    BY <1>1, <1>2, <2>1
  <2> QED BY <1>5, <2>2 DEF PlainUpTo
<1>16. /\ pos \in Seq(Parameters) /\ kw \in Seq(Parameters)
       /\ \A k, l \in 1..Len(pos) : pos[k].name = pos[l].name => k = l
  BY <1>5, <1>6 DEF PlainUpTo
<1> QED BY <1>12, <1>13, <1>14, <1>15, <1>16 DEF NamesApart, n, pos, kw, po

\* What the wrapper passes for a parameter that is bound by position.
ValuesFor(p, bound) == IF p.kind = "args" THEN bound.rest ELSE <<bound.named[p.name]>>

\* passed goes through the parameters and passes what each is bound to.
IsPassed(passed, pos, bound, W) ==
  /\ passed \in [0..Len(pos) -> Seq(W)]
  /\ passed[0] = <<>>
  /\ \A i \in 1..Len(pos) : passed[i] = passed[i - 1] \o ValuesFor(pos[i], bound)

\* generate_wrapper_function goes through them so.
LEMMA PassedDef ==
  ASSUME NEW W, NEW bound, NEW pos \in Seq(Parameters),
         \A i \in 1..Len(pos) : ValuesFor(pos[i], bound) \in Seq(W)
  PROVE  IsPassed(Tramp!Passed(pos, bound), pos, bound, W)
<1> DEFINE n == Len(pos)
           V == Seq(W)
           Next1(i, v) == v \o ValuesFor(pos[i], bound)
           step == [i \in 1..n |-> [v \in V |-> Next1(i, v)]]
           Is(f) == f = [i \in 0..n |-> IF i = 0 THEN <<>> ELSE Next1(i, f[i - 1])]
           Good(f) == /\ f \in [0..n -> V] /\ f[0] = <<>>
                      /\ \A i \in 1..n : f[i] = Next1(i, f[i - 1])
           passed == Tramp!Passed(pos, bound)
<1>1. n \in Nat
  OBVIOUS
<1>2. \A i \in 1..n, v \in V : Next1(i, v) \in V
  <2> SUFFICES ASSUME NEW i \in 1..n, NEW v \in Seq(W) PROVE v \o ValuesFor(pos[i], bound) \in Seq(W)
    OBVIOUS
  <2> DEFINE u == ValuesFor(pos[i], bound)
  <2>1. u \in Seq(W)
    OBVIOUS
  <2> HIDE DEF u
  <2> QED BY <2>1, ConcatProperties DEF u
<1>3. <<>> \in V
  OBVIOUS
<1>4. passed = CHOOSE f : Is(f)
  BY DEF Tramp!Passed, ValuesFor
<1> HIDE DEF n, V, Next1, passed
<1>5. step \in [1..n -> [V -> V]]
  BY <1>2
<1>6. PICK f : Steps(f, n, V, <<>>, step)
  <2> HIDE DEF step
  <2> QED BY <1>1, <1>3, <1>5, Recursion
<1>7. Good(f)
  <2>1. ASSUME NEW i \in 1..n PROVE f[i] = Next1(i, f[i - 1])
    <3>1. f[i - 1] \in V /\ f[i] = step[i][f[i - 1]]
      <4>1. i - 1 \in 0..n
        BY <1>1
      <4> QED BY <1>6, <4>1 DEF Steps
    <3> QED BY <3>1
  <2> QED BY <1>6, <2>1 DEF Steps
<1>8. Is(f)
  <2>1. f = [i \in 0..n |-> f[i]]
    BY <1>7
  <2>2. \A i \in 0..n : f[i] = IF i = 0 THEN <<>> ELSE Next1(i, f[i - 1])
    <3> SUFFICES ASSUME NEW i \in 0..n, i # 0 PROVE f[i] = Next1(i, f[i - 1])
      BY <1>7
    <3>1. i \in 1..n
      BY <1>1
    <3> QED BY <1>7, <3>1
  <2> QED BY <2>1, <2>2
<1>9. \A g : Is(g) => g = f
  <2> SUFFICES ASSUME NEW g, Is(g) PROVE g = f
    OBVIOUS
  <2>1. g[0] = f[0] /\ \A i \in 1..n : g[i] = Next1(i, g[i - 1])
    BY <1>1, <1>7
  <2>2. \A i \in 1..n : g[i - 1] = f[i - 1] => g[i] = f[i]
    BY <1>7, <2>1
  <2>3. IsOver(g, n) /\ IsOver(f, n)
    BY <1>7 DEF IsOver
  <2>4. n \in Nat
    BY <1>1
  <2> QED BY ONLY <2>1, <2>2, <2>3, <2>4, SameSteps
<1>10. passed = f
  <2> HIDE DEF Is
  <2> QED BY <1>4, <1>8, <1>9
<1>11. Good(passed)
  BY <1>7, <1>10
<1> QED BY <1>11 DEF Good, n, V, Next1, passed, IsPassed

\* v is what the first m parameters are bound to, and the rest of the positional values.
IsForwarded(v, pos, m, bound, W) ==
  /\ v \in Seq(W)
  /\ Len(v) = m + Len(bound.rest)
  /\ \A k \in 1..m : v[k] = bound.named[pos[k].name]
  /\ \A k \in 1..Len(bound.rest) : v[m + k] = bound.rest[k]

\* The parameters but *args are passed one for one, and *args all its values.
LEMMA PassesInOrder ==
  ASSUME NEW W, NEW bound, NEW pos \in Seq(Parameters), NEW m \in Nat,
         bound.rest \in Seq(W),
         \A k \in 1..m : pos[k].kind # "args" /\ bound.named[pos[k].name] \in W,
         \/ Len(pos) = m /\ bound.rest = <<>>
         \/ Len(pos) = m + 1 /\ pos[m + 1].kind = "args"
  PROVE  IsForwarded(Tramp!Passed(pos, bound)[Len(pos)], pos, m, bound, W)
<1> DEFINE n == Len(pos)
           passed == Tramp!Passed(pos, bound)
           rest == bound.rest
           Value(k) == bound.named[pos[k].name]
           Upto(v, i) == /\ v \in Seq(W) /\ Len(v) = i
                         /\ \A k \in 1..i : v[k] = Value(k)
           S == {i \in Nat : i <= m => Upto(passed[i], i)}
<1>1. /\ n \in Nat /\ (n = m \/ n = m + 1)
      /\ n = m => rest = <<>>
      /\ n = m + 1 => pos[m + 1].kind = "args"
      /\ rest \in Seq(W)
      /\ \A k \in 1..m : pos[k].kind # "args" /\ Value(k) \in W
  OBVIOUS
<1>2. /\ \A k \in 1..m : ValuesFor(pos[k], bound) = <<Value(k)>>
      /\ n = m + 1 => ValuesFor(pos[m + 1], bound) = rest
  BY <1>1 DEF ValuesFor
<1> HIDE DEF n, rest, Value
<1>3. IsPassed(passed, pos, bound, W)
  <2>1. \A i \in 1..n : ValuesFor(pos[i], bound) \in Seq(W)
    <3> SUFFICES ASSUME NEW i \in 1..n PROVE ValuesFor(pos[i], bound) \in Seq(W)
      OBVIOUS
    <3>1. i \in 1..m \/ (n = m + 1 /\ i = m + 1)
      BY <1>1
    <3>2. \A x \in W : <<x>> \in Seq(W)
      OBVIOUS
    <3> QED BY <1>1, <1>2, <3>1, <3>2
  <2> QED BY <2>1, PassedDef DEF n
<1> HIDE DEF passed
<1>4. /\ passed[0] = <<>>
      /\ \A i \in 1..n : passed[i] = passed[i - 1] \o ValuesFor(pos[i], bound)
  BY <1>3 DEF IsPassed, n
<1>5. ASSUME NEW i \in Nat, i \in S PROVE i + 1 \in S
  <2> SUFFICES ASSUME i + 1 <= m PROVE Upto(passed[i + 1], i + 1)
    OBVIOUS
  <2> DEFINE next == i + 1
             v == passed[i]
             x == Value(next)
  <2>1. next \in 1..n /\ next \in 1..m /\ next - 1 = i /\ Upto(v, i)
    BY <1>1, <1>5
  <2>2. passed[next] = v \o <<x>> /\ x \in W
    BY <1>1, <1>2, <1>4, <2>1
  <2> HIDE DEF v, x
  <2>3. /\ v \o <<x>> \in Seq(W) /\ Len(v \o <<x>>) = i + 1
        /\ (v \o <<x>>)[i + 1] = x /\ \A k \in 1..i : (v \o <<x>>)[k] = v[k]
    BY <2>1, <2>2
  <2> DEFINE w == v \o <<x>>
  <2>4. \A k \in 1..next : k \in 1..i \/ k = next
    BY <2>1
  <2> HIDE DEF w
  <2>5. Upto(w, next)
    BY <2>1, <2>3, <2>4 DEF w, x
  <2> QED BY <2>2, <2>5 DEF next, w
<1>6. Nat \subseteq S
  <2>1. 0 \in S
    <3>1. <<>> \in Seq(W) /\ Len(<<>>) = 0 /\ \A j \in 1..0 : FALSE
      OBVIOUS
    <3> HIDE DEF Value
    <3> QED BY <1>4, <3>1
  <2> HIDE DEF S
  <2> QED BY <1>5, <2>1, SetInduction
<1>7. Upto(passed[m], m)
  BY <1>6
<1> DEFINE v == passed[m]
<1>8. CASE n = m
  <2>1. IsForwarded(v, pos, m, bound, W)
    <3>1. Len(rest) = 0 /\ \A k \in 1..0 : FALSE
      BY <1>1, <1>8
    <3> HIDE DEF v
    <3> QED BY <1>7, <3>1 DEF IsForwarded, rest, Value, v
  <2> QED BY <1>8, <2>1 DEF n, passed
<1>9. CASE n = m + 1
  <2>1. passed[n] = v \o rest
    <3>1. n \in 1..n /\ n - 1 = m
      BY <1>1, <1>9
    <3> QED BY <1>2, <1>4, <1>9, <3>1
  <2>2. v \in Seq(W) /\ Len(v) = m /\ \A k \in 1..m : v[k] = Value(k)
    BY <1>7
  <2> DEFINE w == v \o rest
  <2> HIDE DEF v
  <2>3. /\ w \in Seq(W) /\ Len(w) = m + Len(rest)
        /\ \A i \in 1..m + Len(rest) : w[i] = IF i <= m THEN v[i] ELSE rest[i - m]
        /\ Len(rest) \in Nat
    <3>1. v \in Seq(W) /\ rest \in Seq(W) /\ Len(v) = m
      BY <1>1, <2>2
    <3>2. /\ v \o rest \in Seq(W) /\ Len(v \o rest) = Len(v) + Len(rest)
          /\ \A i \in 1..Len(v) + Len(rest) :
                (v \o rest)[i] = IF i <= Len(v) THEN v[i] ELSE rest[i - Len(v)]
      BY ONLY <3>1, ConcatProperties
    <3> QED BY <3>1, <3>2
  <2>4. /\ \A k \in 1..m : k \in 1..m + Len(rest) /\ k <= m
        /\ \A k \in 1..Len(rest) : m + k \in 1..m + Len(rest) /\ ~(m + k <= m) /\ (m + k) - m = k
    BY <2>3
  <2> HIDE DEF w
  <2>5. IsForwarded(w, pos, m, bound, W)
    BY <2>2, <2>3, <2>4 DEF IsForwarded, rest, Value
  <2> QED BY <2>1, <2>5 DEF n, passed, w
<1> QED BY <1>1, <1>8, <1>9

\* The parts of Bind: the names a function has, those a call gives by position and by name,
\* what it gives besides, and what need not be given.
AllNames(params) == Tramp!Names(Tramp!Positional(params)) \cup Tramp!Names(Tramp!KeywordOnly(params))
GivenByPosition(params, values) ==
  {Tramp!Positional(params)[i].name : i \in DOMAIN Tramp!Positional(params) \cap DOMAIN values}
GivenByName(params, keywords) ==
  (AllNames(params) \ Tramp!PositionalOnly(params)) \cap DOMAIN keywords
GivenBesides(params, keywords) == DOMAIN keywords \ GivenByName(params, keywords)
Defaulted(params) ==
  {p.name : p \in {q \in Tramp!Range(Tramp!Positional(params)) \cup Tramp!Range(Tramp!KeywordOnly(params)) :
                      q.default}}

Refused(params, values, keywords) ==
  LET given == GivenByPosition(params, values)
      byName == GivenByName(params, keywords)
  IN \/ Len(values) > Len(Tramp!Positional(params)) /\ ~Tramp!Takes(params, "args")
     \/ given \cap byName # {}
     \/ GivenBesides(params, keywords) # {} /\ ~Tramp!Takes(params, "kwargs")
     \/ ~(AllNames(params) \ (given \cup byName) \subseteq Defaulted(params))

NamedBy(params, values, keywords) ==
  LET pos == Tramp!Positional(params)
  IN [n \in AllNames(params) |->
        IF n \in GivenByPosition(params, values)
        THEN values[CHOOSE i \in DOMAIN pos : pos[i].name = n]
        ELSE IF n \in GivenByName(params, keywords) THEN keywords[n] ELSE "default"]

RestOf(params, values) == SubSeq(values, Len(Tramp!Positional(params)) + 1, Len(values))

Accepted(params, values, keywords) ==
  [ok    |-> TRUE,
   named |-> NamedBy(params, values, keywords),
   rest  |-> RestOf(params, values),
   extra |-> Tramp!Restrict(keywords, GivenBesides(params, keywords))]

\* They make up Bind.
LEMMA BindIs ==
  ASSUME NEW params, NEW values, NEW keywords
  PROVE  Tramp!Bind(params, values, keywords) =
           IF Refused(params, values, keywords) THEN Tramp!Rejected
           ELSE Accepted(params, values, keywords)
  BY DEF Tramp!Bind, Refused, Accepted, NamedBy, RestOf, AllNames, GivenByPosition, GivenByName,
         GivenBesides, Defaulted

\* The keywords that the wrapper passes for a call that was bound.
KeywordsFor(params, bound) ==
  LET named == Tramp!Names(Tramp!KeywordOnly(params))
  IN [n \in named \cup (IF Tramp!Takes(params, "kwargs") THEN DOMAIN bound.extra ELSE {}) |->
        IF n \in named THEN bound.named[n] ELSE bound.extra[n]]

\* What is left of the positional values is for *args.
LEMMA RestIsForArgs ==
  ASSUME NEW params, LegalSignature(params), NEW values \in Seq(STRING), NEW keywords,
         NEW bound, bound = Tramp!Bind(params, values, keywords), bound.ok
  PROVE  /\ bound.rest \in Seq(STRING)
         /\ bound.rest # <<>> => Tramp!Takes(params, "args")
<1> DEFINE pos == Tramp!Positional(params)
           m == Len(pos)
           rest == bound.rest
           args == Tramp!Takes(params, "args")
           from == m + 1
           upto == Len(values)
<1>1. bound = Accepted(params, values, keywords) /\ ~Refused(params, values, keywords)
  BY BindIs DEF Tramp!Rejected
<1>2. rest = SubSeq(values, from, upto) /\ (upto > m => args)
  BY <1>1 DEF Accepted, RestOf, Refused
<1>3. m \in Nat
  BY NamesAreApart DEF NamesApart
<1>4. upto \in Nat /\ from \in Int /\ \A i \in 1..upto : values[i] \in STRING
  BY <1>3
<1> HIDE DEF m, rest, args, upto
<1>5. /\ upto \in Int
      /\ \A i \in from..upto : values[i] \in STRING
  BY <1>3, <1>4
<1>6. from <= upto => upto > m
  BY <1>3, <1>4
<1> HIDE DEF from
<1>7. /\ SubSeq(values, from, upto) \in Seq(STRING)
      /\ Len(SubSeq(values, from, upto)) = IF from <= upto THEN upto - from + 1 ELSE 0
  BY <1>4, <1>5, SubSeqProperties
<1>8. rest # <<>> => from <= upto
  BY <1>2, <1>7
<1> QED BY <1>2, <1>6, <1>7, <1>8 DEF rest, args

\* A call that was bound, forwarded by position as far as it can be, is bound to the same.
LEMMA RebindsTheSame ==
  ASSUME NEW params, LegalSignature(params), NEW values \in Seq(STRING), NEW keywords,
         NEW bound, bound = Tramp!Bind(params, values, keywords), bound.ok,
         NEW W, NEW vs,
         IsForwarded(vs, Tramp!Positional(params), Len(Tramp!Positional(params)), bound, W)
  PROVE  Tramp!Bind(params, vs, KeywordsFor(params, bound)) = bound
<1> DEFINE pos == Tramp!Positional(params)
           kw == Tramp!KeywordOnly(params)
           po == Tramp!PositionalOnly(params)
           all == AllNames(params)
           ks == KeywordsFor(params, bound)
           m == Len(pos)
           others == GivenBesides(params, keywords)
           named == bound.named
           rest == bound.rest
           extra == bound.extra
           pnames == Tramp!Names(pos)
           knames == Tramp!Names(kw)
           args == Tramp!Takes(params, "args")
           kwargs == Tramp!Takes(params, "kwargs")
<1>1. NamesApart(params, pos, kw)
  BY NamesAreApart
<1>2. bound = Accepted(params, values, keywords) /\ ~Refused(params, values, keywords)
  BY BindIs DEF Tramp!Rejected
<1>3. /\ named = NamedBy(params, values, keywords)
      /\ rest = RestOf(params, values)
      /\ extra = Tramp!Restrict(keywords, others)
      /\ bound = [ok |-> TRUE, named |-> named, rest |-> rest, extra |-> extra]
  BY <1>2 DEF Accepted
<1>4. /\ Len(values) > m => args
      /\ others # {} => kwargs
  BY <1>2 DEF Refused
<1>5. /\ all = pnames \cup knames
      /\ others = DOMAIN keywords \ ((all \ po) \cap DOMAIN keywords)
  BY DEF AllNames, GivenBesides, GivenByName
<1>6. pos \in Seq(Parameters) /\ m \in Nat /\ DOMAIN pos = 1..m
  BY <1>1, LenProperties DEF NamesApart
<1>7. pnames \cap knames = {} /\ po \cap knames = {}
  BY <1>1 DEF NamesApart
<1>8. /\ vs \in Seq(W) /\ Len(vs) = m + Len(rest)
      /\ \A k \in 1..m : vs[k] = named[pos[k].name]
      /\ \A k \in 1..Len(rest) : vs[m + k] = rest[k]
  BY DEF IsForwarded
<1>9. DOMAIN named = all /\ named = [q \in all |-> named[q]]
  BY <1>3 DEF NamedBy
<1>10. DOMAIN extra = others /\ extra = [q \in others |-> keywords[q]]
  BY <1>3 DEF Tramp!Restrict
<1>11. /\ \A k \in DOMAIN pos : pos[k].name \in pnames
       /\ \A q \in pnames : \E k \in DOMAIN pos : pos[k].name = q
  BY DEF Tramp!Names
<1>12. ks = [q \in knames \cup (IF kwargs THEN DOMAIN extra ELSE {}) |->
               IF q \in knames THEN named[q] ELSE extra[q]]
  BY DEF KeywordsFor
<1>13. rest \in Seq(STRING) /\ Len(rest) \in Nat /\ (Len(rest) > 0 => args)
  <2>1. rest \in Seq(STRING) /\ (rest # <<>> => args)
    BY RestIsForArgs
  <2> HIDE DEF rest, args
  <2> QED BY <2>1
<1> HIDE DEF pos, kw, po, all, ks, m, others, named, rest, extra, pnames, knames, args, kwargs
<1>14. DOMAIN ks = knames \cup others
  BY <1>4, <1>10, <1>12
<1>15. others \cap knames = {} /\ others \cap (all \ po) = {}
  BY <1>5, <1>7
<1>16. GivenByName(params, ks) = knames
  <2>1. GivenByName(params, ks) = (all \ po) \cap DOMAIN ks
    BY DEF GivenByName, all, po
  <2> QED BY <1>5, <1>7, <1>14, <1>15, <2>1
<1>17. GivenBesides(params, ks) = others
  <2>1. GivenBesides(params, ks) = DOMAIN ks \ knames
    BY <1>16 DEF GivenBesides
  <2> QED BY <1>14, <1>15, <2>1
<1>18. DOMAIN pos \cap DOMAIN vs = DOMAIN pos
  <2>1. DOMAIN vs = 1..m + Len(rest)
    BY <1>8, LenProperties
  <2> QED BY <1>6, <1>13, <2>1
<1>19. GivenByPosition(params, vs) = pnames
  <2>1. GivenByPosition(params, vs) = {pos[i].name : i \in DOMAIN pos \cap DOMAIN vs}
    BY DEF GivenByPosition, pos
  <2>2. pnames = {pos[i].name : i \in DOMAIN pos}
    BY DEF pnames, Tramp!Names
  <2> QED BY <1>18, <2>1, <2>2
<1>20. ~Refused(params, vs, ks)
  <2>1. ~(Len(vs) > m /\ ~args)
    BY <1>6, <1>8, <1>13
  <2>2. all \ (pnames \cup knames) = {}
    BY <1>5
  <2> QED BY <1>4, <1>7, <1>16, <1>17, <1>19, <2>1, <2>2 DEF Refused, m, pos, args, kwargs, all
<1>21. NamedBy(params, vs, ks) = named
  <2> DEFINE new == [q \in all |-> IF q \in pnames THEN vs[CHOOSE i \in DOMAIN pos : pos[i].name = q]
                                   ELSE IF q \in knames THEN ks[q] ELSE "default"]
  <2>1. NamedBy(params, vs, ks) = new
    BY <1>16, <1>19 DEF NamedBy, all, pos
  <2>2. ASSUME NEW q \in all PROVE new[q] = named[q]
    <3>1. CASE q \in pnames
      <4> DEFINE k == CHOOSE i \in DOMAIN pos : pos[i].name = q
      <4>1. k \in DOMAIN pos /\ pos[k].name = q
        BY <1>11, <3>1
      <4>2. new[q] = vs[k]
        BY <3>1
      <4> HIDE DEF k, new
      <4> QED BY <1>6, <1>8, <4>1, <4>2
    <3>2. CASE q \notin pnames
      <4>1. q \in knames
        BY <1>5, <3>2
      <4>2. ks[q] = named[q]
        BY <1>12, <4>1
      <4> QED BY <3>2, <4>1, <4>2
    <3> QED BY <3>1, <3>2
  <2>3. new = [q \in all |-> new[q]]
    OBVIOUS
  <2> HIDE DEF new
  <2>4. new = named
    BY <1>9, <2>2, <2>3
  <2> QED BY <2>1, <2>4
<1>22. RestOf(params, vs) = rest
  <2> DEFINE from == m + 1
             upto == Len(vs)
             s == SubSeq(vs, from, upto)
             l == Len(rest)
  <2>1. RestOf(params, vs) = s
    BY DEF RestOf, m, pos
  <2>2. l \in Nat /\ upto = m + l /\ m \in Nat
    BY <1>6, <1>8, <1>13
  <2>3. \A k \in 1..l : vs[m + k] = rest[k]
    BY <1>8
  <2>4. vs \in Seq(W) /\ \A i \in 1..upto : vs[i] \in W
    BY <1>8
  <2> HIDE DEF l, upto
  <2>5. from \in Int /\ upto \in Int /\ \A i \in from..upto : vs[i] \in W
    BY <2>2, <2>4
  <2>6. from <= upto => upto - from + 1 = l
    BY <2>2
  <2>7. ~(from <= upto) => l = 0
    BY <2>2
  <2>8. \A i \in 1..upto - from + 1 : i \in 1..l /\ from + i - 1 = m + i
    BY <2>2
  <2> HIDE DEF from
  <2>9. /\ s \in Seq(W)
        /\ Len(s) = IF from <= upto THEN upto - from + 1 ELSE 0
        /\ \A i \in 1..upto - from + 1 : s[i] = vs[from + i - 1]
    BY <2>4, <2>5, SubSeqProperties
  <2> HIDE DEF s
  <2>10. Len(s) = l /\ \A i \in 1..l : s[i] = rest[i]
    <3>1. Len(s) = l
      BY <2>6, <2>7, <2>9
    <3>2. ASSUME NEW i \in 1..l PROVE s[i] = rest[i]
      <4>1. from <= upto
        BY <2>2, <2>7
      <4>2. i \in 1..upto - from + 1 /\ from + i - 1 = m + i
        BY <2>6, <2>8, <4>1
      <4> QED BY <2>3, <2>9, <4>2
    <3> QED BY <3>1, <3>2
  <2>11. s = rest
    <3>1. Len(s) = Len(rest) /\ \A i \in 1..Len(s) : s[i] = rest[i]
      BY <2>10 DEF l
    <3> QED BY <1>13, <2>9, <3>1, SeqEqual
  <2> QED BY <2>1, <2>11
<1>23. Tramp!Restrict(ks, others) = extra
  <2>1. Tramp!Restrict(ks, others) = [q \in others |-> ks[q]]
    BY DEF Tramp!Restrict
  <2>2. \A q \in others : ks[q] = keywords[q]
    <3> SUFFICES ASSUME NEW q \in others PROVE ks[q] = keywords[q]
      OBVIOUS
    <3>1. q \notin knames /\ kwargs
      BY <1>4, <1>15
    <3>2. ks[q] = extra[q]
      BY <1>10, <1>12, <3>1
    <3> QED BY <1>10, <3>2
  <2>3. [q \in others |-> ks[q]] = [q \in others |-> keywords[q]]
    BY <2>2
  <2> QED BY <1>10, <2>1, <2>3
<1>24. Tramp!Bind(params, vs, ks) = Accepted(params, vs, ks)
  BY <1>20, BindIs
<1>25. Accepted(params, vs, ks) = [ok |-> TRUE, named |-> named, rest |-> rest, extra |-> extra]
  BY <1>17, <1>21, <1>22, <1>23 DEF Accepted
<1> QED BY <1>3, <1>24, <1>25 DEF ks

\* The implicit first argument of a method has a name.
IsSelf(params, implicit) == implicit # "" => Tramp!Begins(params, "param")

\* The wrapper passes what its own binding gave it, self first.
LEMMA ForwardsAll ==
  ASSUME NEW params, LegalSignature(params), NEW values \in Seq(STRING), NEW keywords,
         NEW implicit, IsSelf(params, implicit),
         NEW bound, bound = Tramp!Bind(params, values, keywords), bound.ok
  PROVE  Tramp!Forwarded(params, bound, implicit) = bound
<1> DEFINE pos == Tramp!Positional(params)
           m == Len(pos)
           rest == bound.rest
           named == bound.named
           parsed == Tramp!Parsed(params)[Len(params)]
           full == parsed.pos
           args == Tramp!Takes(params, "args")
           stripped == Tramp!ParseParamNames(params, implicit # "")
           call == Tramp!CallArgs(params, bound, implicit)
           self == params[1].name
           W == STRING \cup {named[q] : q \in AllNames(params)}
           first == IF implicit = "" THEN <<>> ELSE <<named[self]>>
           vs == first \o call.values
<1>1. NamesApart(params, pos, Tramp!KeywordOnly(params)) /\ FindsAll(parsed, params)
  BY NamesAreApart, ParsingFindsAll
<1>2. /\ pos \in Seq(Parameters) /\ m \in Nat /\ DOMAIN pos = 1..m
      /\ \A k \in 1..m : pos[k].kind = "param"
  BY <1>1, LenProperties DEF NamesApart
<1>3. rest \in Seq(W) /\ (rest # <<>> => args)
  <2>1. rest \in Seq(STRING) /\ (rest # <<>> => args)
    BY RestIsForArgs
  <2> HIDE DEF rest, args
  <2> QED BY <2>1
<1>4. \A k \in 1..m : named[pos[k].name] \in W
  BY <1>2 DEF AllNames, Tramp!Names
<1>5. /\ full \in Seq(Parameters)
      /\ Len(full) = (IF args THEN m + 1 ELSE m)
      /\ \A k \in 1..m : full[k] = pos[k]
      /\ args => full[m + 1].kind = "args"
  <2>1. CASE args
    <3>1. PICK p \in Parameters : p.kind = "args" /\ full = Append(pos, p)
      BY <1>1, <2>1 DEF FindsAll
    <3> HIDE DEF pos, full
    <3>2. /\ full \in Seq(Parameters) /\ Len(full) = m + 1 /\ full[m + 1] = p
          /\ \A k \in 1..m : full[k] = pos[k]
      BY <1>2, <3>1
    <3> HIDE DEF m
    <3> QED BY <2>1, <3>1, <3>2
  <2>2. CASE ~args
    <3>1. full = pos
      BY <1>1, <2>2 DEF FindsAll
    <3> HIDE DEF pos, full
    <3> QED BY <1>2, <2>2, <3>1
  <2> QED BY <2>1, <2>2
<1>6. /\ stripped.kw = Tramp!KeywordOnly(params)
      /\ stripped.kwargs <=> Tramp!Takes(params, "kwargs")
      /\ stripped.pos = IF implicit # "" /\ full # <<>> THEN Tail(full) ELSE full
  <2>1. stripped = IF implicit # "" /\ full # <<>> THEN [parsed EXCEPT !.pos = Tail(@)] ELSE parsed
    BY DEF Tramp!ParseParamNames
  <2>2. /\ parsed \in ParsedLists /\ parsed.kw = Tramp!KeywordOnly(params)
        /\ parsed.kwargs <=> Tramp!Takes(params, "kwargs")
    BY <1>1 DEF FindsAll
  <2> HIDE DEF stripped, parsed
  <2> QED BY <2>1, <2>2 DEF ParsedLists
<1>7. /\ call.keywords = KeywordsFor(params, bound)
      /\ call.values = Tramp!Passed(stripped.pos, bound)[Len(stripped.pos)]
  <2> HIDE DEF stripped
  <2> QED BY <1>6 DEF Tramp!CallArgs, KeywordsFor, stripped
<1>8. Tramp!Forwarded(params, bound, implicit) = Tramp!Bind(params, vs, call.keywords)
  <2>1. implicit # "" => Tramp!SelfArgs(params, bound) = <<named[self]>>
    <3>1. Tramp!Begins(params, "param") => ~Tramp!Begins(params, "args")
      BY DEF Tramp!Begins
    <3> QED BY <3>1 DEF IsSelf, Tramp!SelfArgs
  <2>2. Tramp!Found(params, bound, implicit)
    BY DEF IsSelf, Tramp!Found
  <2>3. (IF implicit = "" THEN <<>> ELSE Tramp!SelfArgs(params, bound)) = first
    BY <2>1
  <2> HIDE DEF first
  <2> QED BY <2>2, <2>3 DEF Tramp!Forwarded
<1>9. implicit # "" => m >= 1 /\ pos[1].name = self
  <2> SUFFICES ASSUME implicit # "" PROVE m >= 1 /\ pos[1].name = self
    OBVIOUS
  <2>1. params # <<>> /\ params[1].kind = "param" /\ params[1].name = self
    BY DEF IsSelf, Tramp!Begins
  <2>2. 1 <= Len(params)
    <3>1. params \in Seq(Parameters)
      BY SignatureFacts DEF IsSignature
    <3>2. Len(params) \in Nat /\ Len(params) # 0
      BY <2>1, <3>1, EmptySeq, LenProperties
    <3> DEFINE l == Len(params)
    <3> HIDE DEF l
    <3>3. 1 <= l
      BY ONLY <3>2 DEF l
    <3> QED BY <3>3 DEF l
  <2> QED BY <1>1, <2>1, <2>2 DEF NamesApart
<1> HIDE DEF pos, m, rest, named, parsed, full, args, stripped, call, W, self
<1>10. IsForwarded(vs, pos, m, bound, W)
  <2>1. CASE implicit = ""
    <3>1. stripped.pos = full
      BY <1>6, <2>1
    <3>2. IsForwarded(call.values, full, m, bound, W)
      <4>1. \/ Len(full) = m /\ rest = <<>>
            \/ Len(full) = m + 1 /\ full[m + 1].kind = "args"
        BY <1>3, <1>5
      <4>2. \A k \in 1..m : full[k].kind # "args" /\ named[full[k].name] \in W
        BY <1>2, <1>4, <1>5
      <4>3. rest \in Seq(W) /\ full \in Seq(Parameters) /\ m \in Nat
        BY <1>2, <1>3, <1>5
      <4> QED BY <1>7, <3>1, <4>1, <4>2, <4>3, PassesInOrder DEF rest, named
    <3>3. vs = call.values
      <4>1. call.values \in Seq(W)
        BY <3>2 DEF IsForwarded
      <4>2. \A v \in Seq(W) : <<>> \o v = v
        BY ConcatEmptySeq
      <4> QED BY <2>1, <4>1, <4>2
    <3> HIDE DEF vs
    <3> QED BY <1>5, <3>2, <3>3 DEF IsForwarded
  <2>2. CASE implicit # ""
    <3> DEFINE q == Tail(full)
               x == named[self]
               k1 == m - 1
               v == call.values
    <3>0. m >= 1 /\ pos[1].name = self /\ m \in Nat
      BY <1>2, <1>9, <2>2
    <3>1. /\ q \in Seq(Parameters) /\ Len(q) = Len(full) - 1 /\ full # <<>>
          /\ \A k \in 1..Len(full) - 1 : q[k] = full[k + 1]
      <4>1. Len(full) >= 1 /\ full \in Seq(Parameters)
        BY <1>5, <3>0
      <4>2. full # <<>>
        BY <4>1
      <4> QED BY <4>1, <4>2
    <3>2. stripped.pos = q
      BY <1>6, <2>2, <3>1
    <3>3. k1 \in Nat /\ k1 + 1 = m /\ Len(full) - 1 = IF args THEN k1 + 1 ELSE k1
      BY <1>5, <3>0
    <3> HIDE DEF k1, q
    <3>4. ASSUME NEW k \in 1..k1 PROVE q[k] = pos[k + 1] /\ k + 1 \in 1..m
      <4>1. k \in 1..Len(full) - 1 /\ k + 1 \in 1..m
        BY <3>0, <3>3
      <4>2. q[k] = full[k + 1]
        BY <3>1, <4>1
      <4>3. full[k + 1] = pos[k + 1]
        BY <1>5, <4>1
      <4> QED BY <4>1, <4>2, <4>3
    <3>5. args => q[k1 + 1].kind = "args"
      BY <1>5, <3>1, <3>3
    <3>6. IsForwarded(v, q, k1, bound, W)
      <4>1. \/ Len(q) = k1 /\ rest = <<>>
            \/ Len(q) = k1 + 1 /\ q[k1 + 1].kind = "args"
        BY <1>3, <3>1, <3>3, <3>5
      <4>2. \A k \in 1..k1 : q[k].kind # "args" /\ named[q[k].name] \in W
        BY <1>2, <1>4, <3>4
      <4>3. rest \in Seq(W) /\ q \in Seq(Parameters) /\ k1 \in Nat
        BY <1>3, <3>1, <3>3
      <4> QED BY <1>7, <3>2, <4>1, <4>2, <4>3, PassesInOrder DEF rest, named
    <3>7. /\ v \in Seq(W) /\ Len(v) = k1 + Len(rest)
          /\ \A k \in 1..k1 : v[k] = named[q[k].name]
          /\ \A k \in 1..Len(rest) : v[k1 + k] = rest[k]
      BY <3>6 DEF IsForwarded, rest, named
    <3>8. vs = <<x>> \o v /\ x \in W
      <4>1. 1 \in 1..m
        BY <3>0
      <4> QED BY <1>4, <2>2, <3>0, <4>1
    <3> HIDE DEF v, x, vs
    <3>9. /\ vs \in Seq(W) /\ Len(vs) = 1 + Len(v) /\ vs[1] = x
          /\ \A k \in 1..Len(v) : vs[k + 1] = v[k]
      BY <3>7, <3>8
    <3>10. Len(rest) \in Nat
      BY <1>3
    <3>11. ASSUME NEW k \in 1..m PROVE vs[k] = named[pos[k].name]
      <4>1. CASE k = 1
        BY <3>0, <3>9, <4>1 DEF x
      <4>2. CASE k # 1
        <5>1. k - 1 \in 1..k1 /\ (k - 1) + 1 = k /\ k - 1 \in 1..Len(v)
          BY <3>3, <3>7, <3>10, <4>2
        <5>2. vs[k] = v[k - 1] /\ v[k - 1] = named[q[k - 1].name] /\ q[k - 1] = pos[k]
          BY <3>4, <3>7, <3>9, <5>1
        <5> QED BY <5>2
      <4> QED BY <4>1, <4>2
    <3>12. ASSUME NEW k \in 1..Len(rest) PROVE vs[m + k] = rest[k]
      <4>1. k1 + k \in 1..Len(v) /\ (k1 + k) + 1 = m + k
        BY <3>3, <3>7, <3>10
      <4> QED BY <3>7, <3>9, <4>1
    <3>13. Len(vs) = m + Len(rest)
      BY <3>3, <3>7, <3>9, <3>10
    <3> QED BY <3>9, <3>11, <3>12, <3>13 DEF IsForwarded, rest, named
  <2> QED BY <2>1, <2>2
<1>11. Tramp!Bind(params, vs, KeywordsFor(params, bound)) = bound
  BY <1>10, RebindsTheSame DEF pos, m
<1> QED BY <1>7, <1>8, <1>11

\* What was given is of its set, and what is done is what the wrapper does with it.
CallGiven ==
  subject = "call" =>
     /\ input \in Calls
     /\ done => LET bound == Tramp!Bind(input.params, input.values, input.keywords)
                IN /\ output.called = bound
                   /\ output.reached = IF bound.ok THEN Tramp!Forwarded(input.params, bound, input.implicit)
                                       ELSE bound

\* A function behind its wrapper gets the arguments it would have got without it, whatever
\* parameters Python lets it have and whatever it is called with; of methods those whose
\* first parameter has a name, which is what generate_trampoline looks them up by.
THEOREM WrapperForwardsEveryCall == CallsAndFiltersSpec => []WrapperIsTransparent
<1>1. GivenCallOrFilter /\ Unstarted => CallGiven
  BY DEF GivenCallOrFilter, Given, Unstarted, CallGiven
<1>2. CallGiven /\ [CallOrFilter]_vars => CallGiven'
  <2> SUFFICES ASSUME CallGiven, [CallOrFilter]_vars PROVE CallGiven'
    OBVIOUS
  <2>1. CASE Call
    BY <2>1 DEF CallGiven, Call, Gives
  <2>2. CASE Dispatch
    BY <2>2 DEF CallGiven, Dispatch, Gives
  <2>3. CASE Sample
    BY <2>3 DEF CallGiven, Sample, Gives
  <2>4. CASE TypeCheck
    BY <2>4 DEF CallGiven, TypeCheck, Gives
  <2>5. CASE ParseDiff
    BY <2>5 DEF CallGiven, ParseDiff, Gives
  <2>6. CASE ReportTwice
    BY <2>6 DEF CallGiven, ReportTwice, Gives
  <2>7. CASE Match
    BY <2>7 DEF CallGiven, Match, Gives
  <2>8. CASE ImportAll
    BY <2>8 DEF CallGiven, ImportAll, Gives
  <2>9. CASE NameMutants
    BY <2>9 DEF CallGiven, NameMutants, Gives
  <2>10. CASE ScanText
    BY <2>10 DEF CallGiven, ScanText, Gives
  <2>11. CASE UNCHANGED vars
    BY <2>11 DEF CallGiven, vars
  <2> QED BY <2>1, <2>2, <2>3, <2>4, <2>5, <2>6, <2>7, <2>8, <2>9, <2>10, <2>11 DEF CallOrFilter
<1>3. CallGiven => WrapperIsTransparent
  <2> SUFFICES ASSUME CallGiven, Finished("call"), ~NamesNoSelf
               PROVE  output.reached = output.called
    BY DEF WrapperIsTransparent
  <2> DEFINE params == input.params
             values == input.values
             keywords == input.keywords
             implicit == input.implicit
             bound == Tramp!Bind(params, values, keywords)
  <2>1. /\ input \in Calls
        /\ output.called = bound
        /\ output.reached = IF bound.ok THEN Tramp!Forwarded(params, bound, implicit) ELSE bound
    BY DEF CallGiven, Finished
  <2>2. LegalSignature(params) /\ values \in Seq(STRING) /\ IsSelf(params, implicit)
    BY <2>1, InputsAssumption DEF CallsAssumption, IsSelf, NamesNoSelf
  <2>3. bound.ok => Tramp!Forwarded(params, bound, implicit) = bound
    <3> HIDE DEF params, values, keywords, implicit
    <3> QED BY <2>2, ForwardsAll
  <2> QED BY <2>1, <2>3
<1> QED BY <1>1, <1>2, <1>3, PTL DEF CallsAndFiltersSpec

-----------------------------------------------------------------------------
(* The diff                                                                 *)

\* The lines of an edit.
Edits == {"keep", "add", "drop"}

\* The count of the new lines grows by one with every line that is not dropped.
LEMMA NewLinesCount ==
  ASSUME NEW edit
  PROVE  /\ Diff!NewLines(edit, 0) = 0
         /\ \A i \in Nat : Diff!NewLines(edit, i) \in Nat
         /\ \A i \in Nat \ {0} :
               Diff!NewLines(edit, i) = IF edit[i] = "drop" THEN Diff!NewLines(edit, i - 1)
                                        ELSE Diff!NewLines(edit, i - 1) + 1
         /\ \A i, j \in Nat : i <= j => Diff!NewLines(edit, i) <= Diff!NewLines(edit, j)
<1> DEFINE Kept(i) == {j \in 1..i : edit[j] # "drop"}
<1>1. \A i : Diff!NewLines(edit, i) = Cardinality(Kept(i))
  BY DEF Diff!NewLines, Diff!Cardinality, Cardinality, Diff!IsFiniteSet, IsFiniteSet
<1>2. \A i \in Nat : IsFiniteSet(Kept(i))
  <2> SUFFICES ASSUME NEW i \in Nat PROVE IsFiniteSet(Kept(i))
    OBVIOUS
  <2>1. IsFiniteSet(1..i)
    BY FS_Interval
  <2> QED BY <2>1, FS_Subset
<1>3. \A i \in Nat : Cardinality(Kept(i)) \in Nat
  BY <1>2, FS_CardinalityType
<1>4. Cardinality(Kept(0)) = 0
  <2>1. Kept(0) = {}
    OBVIOUS
  <2> QED BY <2>1, FS_EmptySet
<1>5. ASSUME NEW i \in Nat \ {0}
      PROVE  Cardinality(Kept(i)) = IF edit[i] = "drop" THEN Cardinality(Kept(i - 1))
                                    ELSE Cardinality(Kept(i - 1)) + 1
  <2>1. \A j : j \in 1..i <=> j \in 1..i - 1 \/ j = i
    OBVIOUS
  <2>2. i - 1 \in Nat /\ i \notin Kept(i - 1)
    OBVIOUS
  <2>3. Kept(i) = IF edit[i] = "drop" THEN Kept(i - 1) ELSE Kept(i - 1) \cup {i}
    BY <2>1
  <2>4. Cardinality(Kept(i - 1) \cup {i}) = Cardinality(Kept(i - 1)) + 1
    <3> DEFINE K == Kept(i - 1)
    <3>1. IsFiniteSet(K) /\ i \notin K
      BY <1>2, <2>2
    <3> HIDE DEF K
    <3>2. Cardinality(K \cup {i}) = Cardinality(K) + 1
      BY <3>1, FS_AddElement
    <3> QED BY <3>2 DEF K
  <2> HIDE DEF Kept
  <2> QED BY <2>3, <2>4
<1>6. ASSUME NEW i \in Nat, NEW j \in Nat, i <= j
      PROVE  Cardinality(Kept(i)) <= Cardinality(Kept(j))
  <2>1. Kept(i) \subseteq Kept(j)
    BY <1>6
  <2> HIDE DEF Kept
  <2> QED BY <1>2, <2>1, FS_Subset
<1> HIDE DEF Kept
<1> QED BY <1>1, <1>3, <1>4, <1>5, <1>6

\* A hunk ends with the last of the changed lines that follow its first.
LEMMA HunkEnds ==
  ASSUME NEW edit \in Seq(Edits), NEW i \in Diff!HunkStarts(edit)
  PROVE  LET last == Diff!HunkEnd(edit, i)
         IN /\ i \in 1..Len(edit) /\ last \in i..Len(edit)
            /\ \A k \in i..last : edit[k] # "keep"
            /\ last = Len(edit) \/ edit[last + 1] = "keep"
<1> DEFINE n == Len(edit)
           T == {j \in i..n : j = n \/ edit[j + 1] = "keep"}
<1>1. n \in Nat /\ i \in 1..n /\ edit[i] # "keep"
  <2>1. i \in DOMAIN edit /\ edit[i] # "keep"
    BY DEF Diff!HunkStarts
  <2> QED BY <2>1, LenProperties
<1> HIDE DEF n
<1>2. \E j \in T : \A k \in T : j <= k
  <2>1. T \in SUBSET Nat
    BY <1>1
  <2>2. n \in T
    BY <1>1
  <2> HIDE DEF T
  <2> QED BY <2>1, <2>2, LeastNumber
<1>3. PICK last \in T : \A k \in T : last <= k
  BY <1>2
<1>4. \A k \in i..last : edit[k] # "keep"
  <2> SUFFICES ASSUME NEW k \in i..last, edit[k] = "keep" PROVE FALSE
    OBVIOUS
  <2>1. k # i
    BY <1>1
  <2>2. k - 1 \in i..n /\ (k - 1) + 1 = k
    BY <1>1, <2>1
  <2>3. k - 1 \in T
    BY <2>2
  <2>4. ~(last <= k - 1)
    BY <1>1
  <2> QED BY <1>3, <2>3, <2>4
<1>5. last \in i..n /\ (last = n \/ edit[last + 1] = "keep")
  BY <1>3
<1>6. Diff!EndsHunk(edit, i, last)
  BY <1>4, <1>5 DEF Diff!EndsHunk, n
<1>7. LET end == Diff!HunkEnd(edit, i)
      IN end \in i..n /\ Diff!EndsHunk(edit, i, end)
  BY <1>5, <1>6 DEF Diff!HunkEnd, n
<1> QED BY <1>1, <1>7 DEF n, Diff!EndsHunk

\* The lines that a hunk names for the new version.
LinesOf(edit, i) == Diff!NewLines(edit, i - 1) + 1..Diff!NewLines(edit, Diff!HunkEnd(edit, i))

\* parse_hunk_header reads these.
LEMMA HunkIsRead ==
  ASSUME NEW edit \in Seq(Edits), NEW path, NEW i \in Diff!HunkStarts(edit)
  PROVE  Diff!ParseHunkHeader(Diff!Hunk(path, edit, i)) = LinesOf(edit, i)
<1> DEFINE last == Diff!HunkEnd(edit, i)
           before == Diff!NewLines(edit, i - 1)
           upto == Diff!NewLines(edit, last)
           len == upto - before
           hunk == Diff!Hunk(path, edit, i)
<1>1. before \in Nat /\ upto \in Nat /\ before <= upto
  <2>1. i \in 1..Len(edit) /\ last \in i..Len(edit)
    BY HunkEnds
  <2> HIDE DEF last
  <2>2. i - 1 \in Nat /\ last \in Nat /\ i - 1 <= last
    BY <2>1
  <2> QED BY <2>2, NewLinesCount
<1>2. /\ hunk.start = IF len = 0 THEN before ELSE before + 1
      /\ hunk.len = len
  BY DEF Diff!Hunk, Diff!DiffLine
<1>3. Diff!ParseHunkHeader(hunk) = hunk.start..hunk.start + hunk.len - 1
  BY DEF Diff!ParseHunkHeader
<1>4. LinesOf(edit, i) = before + 1..upto
  BY DEF LinesOf
<1> HIDE DEF last, before, upto, hunk
<1>5. hunk.start..hunk.start + hunk.len - 1 = before + 1..upto
  <2>1. CASE len = 0
    BY <1>1, <1>2, <2>1
  <2>2. CASE len # 0
    BY <1>1, <1>2, <2>2
  <2> QED BY <2>1, <2>2
<1> QED BY <1>3, <1>4, <1>5 DEF hunk

\* An added line is in one of the hunks, and the hunks hold nothing else.
LEMMA HunksHoldTheAdded ==
  ASSUME NEW edit \in Seq(Edits), NEW l
  PROVE  (\E i \in Diff!HunkStarts(edit) : l \in LinesOf(edit, i))
            <=> \E k \in DOMAIN edit : edit[k] = "add" /\ Diff!NewLines(edit, k) = l
<1> DEFINE n == Len(edit)
           New(i) == Diff!NewLines(edit, i)
           Starts == Diff!HunkStarts(edit)
<1>1. /\ New(0) = 0 /\ \A i \in Nat : New(i) \in Nat
      /\ \A i \in Nat \ {0} : New(i) = IF edit[i] = "drop" THEN New(i - 1) ELSE New(i - 1) + 1
      /\ \A i, j \in Nat : i <= j => New(i) <= New(j)
  BY NewLinesCount
<1>2. n \in Nat /\ DOMAIN edit = 1..n /\ \A k \in 1..n : edit[k] \in Edits
  BY LenProperties
<1>3. \A i : i \in Starts <=> i \in 1..n /\ edit[i] # "keep" /\ (i = 1 \/ edit[i - 1] = "keep")
  BY <1>2 DEF Diff!HunkStarts
<1>4. ASSUME NEW i \in Starts
      PROVE  LET last == Diff!HunkEnd(edit, i)
             IN /\ i \in 1..n /\ last \in i..n
                /\ \A k \in i..last : edit[k] # "keep"
                /\ last = n \/ edit[last + 1] = "keep"
  BY HunkEnds
<1>5. \A i : LinesOf(edit, i) = New(i - 1) + 1..New(Diff!HunkEnd(edit, i))
  BY DEF LinesOf
<1> HIDE DEF n, New, Starts
<1>6. ASSUME NEW i \in Starts, l \in LinesOf(edit, i)
      PROVE  \E k \in 1..n : edit[k] = "add" /\ New(k) = l
  <2> DEFINE last == Diff!HunkEnd(edit, i)
             T == {k \in i..last : l <= New(k)}
  <2>1. i \in 1..n /\ last \in i..n /\ \A k \in i..last : edit[k] # "keep"
    BY <1>4
  <2>2. l \in New(i - 1) + 1..New(last)
    BY <1>5, <1>6
  <2> HIDE DEF last
  <2>3. i \in Nat \ {0} /\ i - 1 \in Nat /\ last \in Nat /\ last \in i..last
    BY <1>2, <2>1
  <2>4. l \in Int /\ New(i - 1) < l /\ l <= New(last)
    BY <1>1, <2>2, <2>3
  <2>5. PICK k \in T : \A j \in T : k <= j
    <3>1. T \in SUBSET Nat
      BY <2>3
    <3>2. last \in T
      BY <2>3, <2>4
    <3> HIDE DEF T
    <3> QED BY <3>1, <3>2, LeastNumber
  <2>6. k \in i..last /\ l <= New(k)
    BY <2>5
  <2>7. New(k - 1) < l
    <3>1. CASE k = i
      BY <2>4, <3>1
    <3>2. CASE k # i
      <4>1. k - 1 \in i..last /\ ~(k <= k - 1) /\ k - 1 \in Nat
        BY <2>3, <2>6, <3>2
      <4>2. k - 1 \notin T
        BY <2>5, <4>1
      <4>3. ~(l <= New(k - 1)) /\ New(k - 1) \in Nat
        BY <1>1, <4>1, <4>2
      <4> QED BY <2>4, <4>3
    <3> QED BY <3>1, <3>2
  <2>8. k \in Nat \ {0} /\ k - 1 \in Nat /\ k \in 1..n
    BY <1>2, <2>1, <2>3, <2>6
  <2>9. edit[k] # "drop" /\ New(k) = l
    <3>1. New(k) \in Nat /\ New(k - 1) \in Nat
      BY <1>1, <2>8
    <3>2. New(k) = IF edit[k] = "drop" THEN New(k - 1) ELSE New(k - 1) + 1
      BY <1>1, <2>8
    <3> QED BY <2>4, <2>6, <2>7, <3>1, <3>2
  <2>10. edit[k] = "add"
    BY <1>2, <2>1, <2>6, <2>8, <2>9 DEF Edits
  <2> QED BY <2>8, <2>9, <2>10
<1>7. ASSUME NEW k \in 1..n, edit[k] = "add", New(k) = l
      PROVE  \E i \in Starts : l \in LinesOf(edit, i)
  <2> DEFINE T == {i \in 1..k : \A j \in i..k : edit[j] # "keep"}
  <2>1. k \in Nat \ {0} /\ k - 1 \in Nat
    BY <1>2
  <2>2. PICK i \in T : \A j \in T : i <= j
    <3>1. T \in SUBSET Nat
      BY <1>2
    <3>2. k \in T
      <4>1. \A j \in k..k : j = k
        BY <2>1
      <4> QED BY <1>7, <2>1, <4>1
    <3> HIDE DEF T
    <3> QED BY <3>1, <3>2, LeastNumber
  <2>3. i \in 1..k /\ \A j \in i..k : edit[j] # "keep"
    BY <2>2
  <2>4. i = 1 \/ edit[i - 1] = "keep"
    <3> SUFFICES ASSUME i # 1, edit[i - 1] # "keep" PROVE FALSE
      OBVIOUS
    <3>1. i - 1 \in 1..k /\ \A j \in i - 1..k : j = i - 1 \/ j \in i..k
      BY <2>1, <2>3
    <3>2. i - 1 \in T
      BY <2>3, <3>1
    <3>3. ~(i <= i - 1)
      BY <2>1, <2>3
    <3> QED BY <2>2, <3>2, <3>3
  <2>5. i \in Starts
    <3>1. i \in 1..n /\ i \in i..k
      BY <1>2, <2>3
    <3> QED BY <1>3, <2>3, <2>4, <3>1
  <2> DEFINE last == Diff!HunkEnd(edit, i)
  <2>6. i \in 1..n /\ last \in i..n /\ (last = n \/ edit[last + 1] = "keep")
    BY <1>4, <2>5
  <2> HIDE DEF last
  <2>7. k <= last
    <3> SUFFICES ASSUME ~(k <= last) PROVE FALSE
      OBVIOUS
    <3>1. last + 1 \in i..k /\ last # n
      BY <1>2, <2>1, <2>3, <2>6
    <3> QED BY <2>3, <2>6, <3>1
  <2>8. last \in Nat /\ i - 1 \in Nat /\ i - 1 <= k - 1
    BY <1>2, <2>1, <2>3, <2>6
  <2>9. New(i - 1) <= New(k - 1) /\ New(k) <= New(last) /\ New(k) = New(k - 1) + 1
    <3>1. edit[k] # "drop"
      BY <1>7
    <3> QED BY <1>1, <2>1, <2>7, <2>8, <3>1
  <2>10. /\ New(i - 1) \in Nat /\ New(k - 1) \in Nat /\ New(k) \in Nat /\ New(last) \in Nat
    BY <1>1, <2>1, <2>8
  <2>11. l \in New(i - 1) + 1..New(last)
    BY <1>7, <2>9, <2>10
  <2>12. l \in LinesOf(edit, i)
    BY <1>5, <2>11 DEF last
  <2> QED BY <2>5, <2>12
<1> QED BY <1>2, <1>6, <1>7 DEF New, Starts

\* What the parser reads, and where it is with it.  STRING need not be known to have the empty path.
Paths     == STRING \cup {""}
LineKinds == {"diff --git", "new file mode", "+++ b/", "+++ /dev/null", "@@"}
DiffLines == [kind : LineKinds, path : Paths, start : Int, len : Int]
DiffEntries == [path : Paths, all : BOOLEAN, lines : SUBSET Int]
Readings  == [files : Seq(DiffEntries), path : Paths, new : BOOLEAN, lines : SUBSET Int]

\* Putting a file that was read with the others keeps to the type.
LEMMA FinalizedIsReading ==
  ASSUME NEW r \in Readings
  PROVE  /\ Diff!Finalized(r) \in Readings
         /\ Diff!Finalized(r).files =
               IF r.path = "" THEN r.files
               ELSE Append(r.files, [path |-> r.path, all |-> r.new, lines |-> r.lines])
<1> DEFINE entry == [path |-> r.path, all |-> r.new, lines |-> r.lines]
<1>1. /\ r.files \in Seq(DiffEntries) /\ r.path \in Paths
      /\ r.new \in BOOLEAN /\ r.lines \in SUBSET Int
  BY DEF Readings
<1>2. entry \in DiffEntries
  BY <1>1 DEF DiffEntries
<1>3. Append(r.files, entry) \in Seq(DiffEntries)
  <2> HIDE DEF entry
  <2> QED BY <1>1, <1>2
<1>4. CASE r.path = ""
  BY <1>4 DEF Diff!Finalized
<1>5. CASE r.path # ""
  <2>1. Diff!Finalized(r) = [r EXCEPT !.files = Append(r.files, entry)]
    BY <1>5 DEF Diff!Finalized
  <2> HIDE DEF entry
  <2>2. /\ [r EXCEPT !.files = Append(r.files, entry)] \in Readings
        /\ [r EXCEPT !.files = Append(r.files, entry)].files = Append(r.files, entry)
    BY <1>3 DEF Readings
  <2>3. Diff!Finalized(r) \in Readings /\ Diff!Finalized(r).files = Append(r.files, entry)
    BY <2>1, <2>2
  <2> QED BY <1>5, <2>3 DEF entry
<1> QED BY <1>4, <1>5

\* What each line does.
LEMMA LineIsRead ==
  ASSUME NEW r \in Readings, NEW line \in DiffLines
  PROVE  LET s == Diff!ReadLine(r, line)
         IN /\ s \in Readings
            /\ line.kind = "diff --git" =>
                  /\ s.files = Diff!Finalized(r).files /\ s.path = ""
                  /\ ~s.new /\ s.lines = {}
            /\ line.kind # "diff --git" => s.files = r.files
            /\ line.kind = "+++ b/" => s.path = line.path
            /\ line.kind = "+++ /dev/null" => s.path = ""
            /\ line.kind \in {"new file mode", "@@"} => s.path = r.path
            /\ line.kind = "new file mode" => s.new
            /\ line.kind \in {"+++ b/", "+++ /dev/null", "@@"} => (s.new <=> r.new)
            /\ line.kind \in {"+++ b/", "+++ /dev/null", "new file mode"} => s.lines = r.lines
            /\ line.kind = "@@" =>
                  s.lines = IF r.new THEN r.lines ELSE r.lines \cup Diff!ParseHunkHeader(line)
<1> DEFINE fin == Diff!Finalized(r)
<1>1. fin \in Readings
  BY FinalizedIsReading
<1>2. line.kind \in LineKinds /\ line.path \in Paths
  BY DEF DiffLines
<1>3. "" \in Paths
  BY DEF Paths
<1>4. CASE line.kind = "diff --git"
  <2>1. Diff!ReadLine(r, line) = [fin EXCEPT !.path = "", !.new = FALSE, !.lines = {}]
    BY <1>4 DEF Diff!ReadLine
  <2> HIDE DEF fin
  <2>2. LET s == [fin EXCEPT !.path = "", !.new = FALSE, !.lines = {}]
        IN s \in Readings /\ s.files = fin.files /\ s.path = "" /\ ~s.new /\ s.lines = {}
    BY <1>1, <1>3 DEF Readings
  <2> QED BY <1>4, <2>1, <2>2 DEF fin
<1>5. CASE line.kind = "+++ b/"
  BY <1>2, <1>5 DEF Diff!ReadLine, Readings
<1>6. CASE line.kind = "+++ /dev/null"
  BY <1>3, <1>6 DEF Diff!ReadLine, Readings
<1>7. CASE line.kind = "new file mode"
  BY <1>7 DEF Diff!ReadLine, Readings
<1>8. CASE line.kind = "@@"
  <2> DEFINE more == Diff!ParseHunkHeader(line)
  <2>1. more \in SUBSET Int
    BY DEF Diff!ParseHunkHeader, DiffLines
  <2>2. Diff!ReadLine(r, line) = IF r.new THEN r ELSE [r EXCEPT !.lines = r.lines \cup more]
    BY <1>8 DEF Diff!ReadLine
  <2> HIDE DEF more
  <2>3. CASE r.new
    BY <1>8, <2>2, <2>3
  <2>4. CASE ~r.new
    BY <1>8, <2>1, <2>2, <2>4 DEF Readings, more
  <2> QED BY <2>3, <2>4
<1> QED BY <1>2, <1>4, <1>5, <1>6, <1>7, <1>8 DEF LineKinds

\* read goes through the lines, from r on.
IsRead(read, r, lines) ==
  /\ read \in [0..Len(lines) -> Readings]
  /\ read[0] = r
  /\ \A i \in 1..Len(lines) : read[i] = Diff!ReadLine(read[i - 1], lines[i])

\* parse_unified_diff goes through them so.
LEMMA ReadDef ==
  ASSUME NEW r \in Readings, NEW lines \in Seq(DiffLines)
  PROVE  IsRead(Diff!ReadFrom(r, lines), r, lines)
<1> DEFINE n == Len(lines)
           V == Readings
           Next1(i, v) == Diff!ReadLine(v, lines[i])
           step == [i \in 1..n |-> [v \in V |-> Next1(i, v)]]
           Is(f) == f = [i \in 0..n |-> IF i = 0 THEN r ELSE Next1(i, f[i - 1])]
           Good(f) == /\ f \in [0..n -> V] /\ f[0] = r
                      /\ \A i \in 1..n : f[i] = Next1(i, f[i - 1])
           read == Diff!ReadFrom(r, lines)
<1>1. n \in Nat /\ \A i \in 1..n : lines[i] \in DiffLines
  OBVIOUS
<1>2. \A i \in 1..n, v \in V : Next1(i, v) \in V
  BY <1>1, LineIsRead
<1>3. r \in V
  OBVIOUS
<1>4. read = CHOOSE f : Is(f)
  BY DEF Diff!ReadFrom
<1> HIDE DEF n, V, Next1, read
<1>5. step \in [1..n -> [V -> V]]
  BY <1>2
<1>6. PICK f : Steps(f, n, V, r, step)
  <2> HIDE DEF step
  <2> QED BY <1>1, <1>3, <1>5, Recursion
<1>7. Good(f)
  <2>1. ASSUME NEW i \in 1..n PROVE f[i] = Next1(i, f[i - 1])
    <3>1. f[i - 1] \in V /\ f[i] = step[i][f[i - 1]]
      <4>1. i - 1 \in 0..n
        BY <1>1
      <4> QED BY <1>6, <4>1 DEF Steps
    <3> QED BY <3>1
  <2> QED BY <1>6, <2>1 DEF Steps
<1>8. Is(f)
  <2>1. f = [i \in 0..n |-> f[i]]
    BY <1>7
  <2>2. \A i \in 0..n : f[i] = IF i = 0 THEN r ELSE Next1(i, f[i - 1])
    <3> SUFFICES ASSUME NEW i \in 0..n, i # 0 PROVE f[i] = Next1(i, f[i - 1])
      BY <1>7
    <3>1. i \in 1..n
      BY <1>1
    <3> QED BY <1>7, <3>1
  <2> QED BY <2>1, <2>2
<1>9. \A g : Is(g) => g = f
  <2> SUFFICES ASSUME NEW g, Is(g) PROVE g = f
    OBVIOUS
  <2>1. g[0] = f[0] /\ \A i \in 1..n : g[i] = Next1(i, g[i - 1])
    BY <1>1, <1>7
  <2>2. \A i \in 1..n : g[i - 1] = f[i - 1] => g[i] = f[i]
    BY <1>7, <2>1
  <2>3. IsOver(g, n) /\ IsOver(f, n)
    BY <1>7 DEF IsOver
  <2>4. n \in Nat
    BY <1>1
  <2> QED BY ONLY <2>1, <2>2, <2>3, <2>4, SameSteps
<1>10. read = f
  <2> HIDE DEF Is
  <2> QED BY <1>4, <1>8, <1>9
<1>11. Good(read)
  BY <1>7, <1>10
<1> QED BY <1>11 DEF Good, n, V, Next1, read, IsRead

\* What has been read at the end of the lines.
ReadAll(r, lines) == Diff!ReadFrom(r, lines)[Len(lines)]

\* Reading two texts is reading one after the other.
LEMMA ReadsInOrder ==
  ASSUME NEW r \in Readings, NEW s \in Seq(DiffLines), NEW t \in Seq(DiffLines)
  PROVE  ReadAll(r, s \o t) = ReadAll(ReadAll(r, s), t)
<1> DEFINE u == s \o t
           m == Len(s)
           n == Len(t)
           whole == Diff!ReadFrom(r, u)
           first == Diff!ReadFrom(r, s)
           then == Diff!ReadFrom(first[m], t)
<1>1. m \in Nat /\ n \in Nat
  BY LenProperties
<1>2. u \in Seq(DiffLines) /\ Len(u) = m + n
  BY ConcatProperties
<1>3. \A i \in 1..m + n : u[i] = IF i <= m THEN s[i] ELSE t[i - m]
  BY ConcatProperties
<1>4. IsRead(whole, r, u) /\ IsRead(first, r, s)
  <2> HIDE DEF u
  <2> QED BY <1>2, ReadDef
<1>5. first[m] \in Readings
  <2> HIDE DEF first
  <2> QED BY <1>1, <1>4 DEF IsRead
<1>6. IsRead(then, first[m], t)
  <2> HIDE DEF first
  <2> QED BY <1>5, ReadDef
<1> HIDE DEF u, m, n, whole, first, then
<1>7. /\ whole[0] = r /\ first[0] = r /\ then[0] = first[m]
      /\ \A i \in 1..m + n : whole[i] = Diff!ReadLine(whole[i - 1], u[i])
      /\ \A i \in 1..m : first[i] = Diff!ReadLine(first[i - 1], s[i])
      /\ \A i \in 1..n : then[i] = Diff!ReadLine(then[i - 1], t[i])
  BY <1>2, <1>4, <1>6 DEF IsRead, m, n
<1>8. \A i \in 0..m : whole[i] = first[i]
  <2> DEFINE T == {i \in Nat : i <= m => whole[i] = first[i]}
  <2>1. ASSUME NEW i \in Nat, i \in T PROVE i + 1 \in T
    <3> SUFFICES ASSUME i + 1 <= m PROVE whole[i + 1] = first[i + 1]
      OBVIOUS
    <3>1. /\ i + 1 \in 1..m + n /\ i + 1 \in 1..m /\ (i + 1) - 1 = i
          /\ whole[i] = first[i]
      BY <1>1, <2>1
    <3> QED BY <1>3, <1>7, <3>1
  <2>2. 0 \in T
    BY <1>7
  <2> HIDE DEF T
  <2>3. Nat \subseteq T
    BY <2>1, <2>2, SetInduction
  <2> QED BY <1>1, <2>3 DEF T
<1>9. \A i \in 0..n : whole[m + i] = then[i]
  <2> DEFINE T == {i \in Nat : i <= n => whole[m + i] = then[i]}
  <2>1. ASSUME NEW i \in Nat, i \in T PROVE i + 1 \in T
    <3> SUFFICES ASSUME i + 1 <= n PROVE whole[m + (i + 1)] = then[i + 1]
      OBVIOUS
    <3>1. /\ m + (i + 1) \in 1..m + n /\ i + 1 \in 1..n /\ (i + 1) - 1 = i
          /\ (m + (i + 1)) - 1 = m + i /\ (m + (i + 1)) - m = i + 1 /\ ~(m + (i + 1) <= m)
          /\ whole[m + i] = then[i]
      BY <1>1, <2>1
    <3>2. u[m + (i + 1)] = t[i + 1]
      BY <1>3, <3>1
    <3> QED BY <1>7, <3>1, <3>2
  <2>2. 0 \in T
    <3>1. m + 0 = m /\ m \in 0..m
      BY <1>1
    <3> QED BY <1>7, <1>8, <3>1
  <2> HIDE DEF T
  <2>3. Nat \subseteq T
    BY <2>1, <2>2, SetInduction
  <2> QED BY <1>1, <2>3 DEF T
<1>10. whole[m + n] = then[n]
  BY <1>1, <1>9
<1> QED BY <1>2, <1>10 DEF ReadAll, u, m, n, whole, first, then

\* Reading no line, and reading one.
LEMMA ReadsFew ==
  ASSUME NEW r \in Readings
  PROVE  /\ ReadAll(r, <<>>) = r
         /\ \A line \in DiffLines : ReadAll(r, <<line>>) = Diff!ReadLine(r, line)
         /\ \A lines \in Seq(DiffLines) : ReadAll(r, lines) \in Readings
<1>1. ReadAll(r, <<>>) = r
  <2>1. <<>> \in Seq(DiffLines) /\ Len(<<>>) = 0
    BY EmptySeq
  <2> QED BY <2>1, ReadDef DEF IsRead, ReadAll
<1>2. ASSUME NEW line \in DiffLines PROVE ReadAll(r, <<line>>) = Diff!ReadLine(r, line)
  <2> DEFINE one == <<line>>
  <2>1. one \in Seq(DiffLines) /\ Len(one) = 1 /\ one[1] = line
    OBVIOUS
  <2> HIDE DEF one
  <2>2. IsRead(Diff!ReadFrom(r, one), r, one)
    BY <2>1, ReadDef
  <2>3. ReadAll(r, one) = Diff!ReadLine(r, line)
    BY <2>1, <2>2 DEF IsRead, ReadAll
  <2> QED BY <2>3 DEF one
<1>3. ASSUME NEW lines \in Seq(DiffLines) PROVE ReadAll(r, lines) \in Readings
  <2>1. Len(lines) \in 0..Len(lines)
    OBVIOUS
  <2> QED BY <2>1, ReadDef DEF IsRead, ReadAll
<1> QED BY <1>1, <1>2, <1>3

\* hunks goes through the lines of an edit: it has the hunks that start in the first i of them.
IsHunks(hunks, path, edit) ==
  /\ hunks \in [0..Len(edit) -> Seq(DiffLines)]
  /\ hunks[0] = <<>>
  /\ \A i \in 1..Len(edit) :
        hunks[i] = IF i \in Diff!HunkStarts(edit) THEN Append(hunks[i - 1], Diff!Hunk(path, edit, i))
                   ELSE hunks[i - 1]

\* A hunk is a line of the diff.
LEMMA HunkIsLine ==
  ASSUME NEW path \in Paths, NEW edit \in Seq(Edits), NEW i \in Diff!HunkStarts(edit)
  PROVE  Diff!Hunk(path, edit, i) \in DiffLines /\ Diff!Hunk(path, edit, i).kind = "@@"
<1> DEFINE last == Diff!HunkEnd(edit, i)
           before == Diff!NewLines(edit, i - 1)
           len == Diff!NewLines(edit, last) - before
           start == IF len = 0 THEN before ELSE before + 1
<1>1. i \in 1..Len(edit) /\ last \in i..Len(edit)
  BY HunkEnds
<1>2. before \in Nat /\ len \in Int
  <2> HIDE DEF last
  <2>1. i - 1 \in Nat /\ last \in Nat
    BY <1>1
  <2> QED BY <2>1, NewLinesCount
<1>3. Diff!Hunk(path, edit, i) = [kind |-> "@@", path |-> path, start |-> start, len |-> len]
  BY DEF Diff!Hunk, Diff!DiffLine
<1> HIDE DEF before, len
<1>4. start \in Int /\ "@@" \in LineKinds
  BY <1>2 DEF LineKinds
<1> HIDE DEF start
<1> QED BY <1>2, <1>3, <1>4 DEF DiffLines

\* git's hunks are made so.
LEMMA HunksDef ==
  ASSUME NEW path \in Paths, NEW edit \in Seq(Edits)
  PROVE  IsHunks(Diff!Hunks(path, edit), path, edit)
<1> DEFINE n == Len(edit)
           V == Seq(DiffLines)
           Next1(i, v) == IF i \in Diff!HunkStarts(edit) THEN Append(v, Diff!Hunk(path, edit, i)) ELSE v
           step == [i \in 1..n |-> [v \in V |-> Next1(i, v)]]
           Is(f) == f = [i \in 0..n |-> IF i = 0 THEN <<>> ELSE Next1(i, f[i - 1])]
           Good(f) == /\ f \in [0..n -> V] /\ f[0] = <<>>
                      /\ \A i \in 1..n : f[i] = Next1(i, f[i - 1])
           hunks == Diff!Hunks(path, edit)
<1>1. n \in Nat
  OBVIOUS
<1>2. \A i \in 1..n, v \in V : Next1(i, v) \in V
  BY HunkIsLine
<1>3. <<>> \in V
  OBVIOUS
<1>4. hunks = CHOOSE f : Is(f)
  BY DEF Diff!Hunks
<1> HIDE DEF n, V, Next1, hunks
<1>5. step \in [1..n -> [V -> V]]
  BY <1>2
<1>6. PICK f : Steps(f, n, V, <<>>, step)
  <2> HIDE DEF step
  <2> QED BY <1>1, <1>3, <1>5, Recursion
<1>7. Good(f)
  <2>1. ASSUME NEW i \in 1..n PROVE f[i] = Next1(i, f[i - 1])
    <3>1. f[i - 1] \in V /\ f[i] = step[i][f[i - 1]]
      <4>1. i - 1 \in 0..n
        BY <1>1
      <4> QED BY <1>6, <4>1 DEF Steps
    <3> QED BY <3>1
  <2> QED BY <1>6, <2>1 DEF Steps
<1>8. Is(f)
  <2>1. f = [i \in 0..n |-> f[i]]
    BY <1>7
  <2>2. \A i \in 0..n : f[i] = IF i = 0 THEN <<>> ELSE Next1(i, f[i - 1])
    <3> SUFFICES ASSUME NEW i \in 0..n, i # 0 PROVE f[i] = Next1(i, f[i - 1])
      BY <1>7
    <3>1. i \in 1..n
      BY <1>1
    <3> QED BY <1>7, <3>1
  <2> QED BY <2>1, <2>2
<1>9. \A g : Is(g) => g = f
  <2> SUFFICES ASSUME NEW g, Is(g) PROVE g = f
    OBVIOUS
  <2>1. g[0] = f[0] /\ \A i \in 1..n : g[i] = Next1(i, g[i - 1])
    BY <1>1, <1>7
  <2>2. \A i \in 1..n : g[i - 1] = f[i - 1] => g[i] = f[i]
    BY <1>7, <2>1
  <2>3. IsOver(g, n) /\ IsOver(f, n)
    BY <1>7 DEF IsOver
  <2>4. n \in Nat
    BY <1>1
  <2> QED BY ONLY <2>1, <2>2, <2>3, <2>4, SameSteps
<1>10. hunks = f
  <2> HIDE DEF Is
  <2> QED BY <1>4, <1>8, <1>9
<1>11. Good(hunks)
  BY <1>7, <1>10
<1> QED BY <1>11 DEF Good, n, V, Next1, hunks, IsHunks

\* s is r but for its lines, which have those of the hunks that start in the first i lines too,
\* unless the file is new.
HasRead(s, r, edit, i) ==
  /\ s.files = r.files /\ s.path = r.path /\ (s.new <=> r.new)
  /\ ~r.new => \A l : l \in s.lines <=>
                  \/ l \in r.lines
                  \/ \E j \in Diff!HunkStarts(edit) : j <= i /\ l \in LinesOf(edit, j)

\* That is what the parser makes of them.
LEMMA HunksAreRead ==
  ASSUME NEW r \in Readings, NEW path \in Paths, NEW edit \in Seq(Edits)
  PROVE  \A i \in 0..Len(edit) : HasRead(ReadAll(r, Diff!Hunks(path, edit)[i]), r, edit, i)
<1> DEFINE n == Len(edit)
           hunks == Diff!Hunks(path, edit)
           Starts == Diff!HunkStarts(edit)
           T == {i \in Nat : i <= n => HasRead(ReadAll(r, hunks[i]), r, edit, i)}
<1>1. /\ n \in Nat
      /\ hunks \in [0..n -> Seq(DiffLines)] /\ hunks[0] = <<>>
      /\ \A i \in 1..n : hunks[i] = IF i \in Starts THEN Append(hunks[i - 1], Diff!Hunk(path, edit, i))
                                    ELSE hunks[i - 1]
  BY HunksDef DEF IsHunks
<1>2. \A j \in Starts : j \in 1..n
  BY HunkEnds
<1> HIDE DEF n, hunks, Starts
<1>3. HasRead(ReadAll(r, hunks[0]), r, edit, 0)
  <2>1. ReadAll(r, hunks[0]) = r
    BY <1>1, ReadsFew
  <2>2. \A j \in Starts : ~(j <= 0)
    BY <1>1, <1>2
  <2> QED BY <2>1, <2>2 DEF HasRead, Starts
<1>4. ASSUME NEW i \in 1..n, HasRead(ReadAll(r, hunks[i - 1]), r, edit, i - 1)
      PROVE  HasRead(ReadAll(r, hunks[i]), r, edit, i)
  <2> DEFINE s == ReadAll(r, hunks[i - 1])
             hunk == Diff!Hunk(path, edit, i)
             t == Diff!ReadLine(s, hunk)
  <2>1. hunks[i - 1] \in Seq(DiffLines)
    BY <1>1
  <2>2. s \in Readings
    BY <2>1, ReadsFew
  <2>3. \A j \in Starts : j <= i <=> j <= i - 1 \/ j = i
    BY <1>1, <1>2
  <2>4. CASE i \notin Starts
    <3>1. ReadAll(r, hunks[i]) = s
      BY <1>1, <2>4
    <3>2. \A j \in Starts : j <= i <=> j <= i - 1
      BY <2>3, <2>4
    <3> HIDE DEF s
    <3> QED BY <1>4, <3>1, <3>2 DEF HasRead, Starts, s
  <2>5. CASE i \in Starts
    <3>1. hunk \in DiffLines /\ hunk.kind = "@@" /\ Diff!ParseHunkHeader(hunk) = LinesOf(edit, i)
      BY <2>5, HunkIsLine, HunkIsRead DEF Starts
    <3> HIDE DEF hunk, s
    <3>2. /\ t.files = s.files /\ t.path = s.path /\ (t.new <=> s.new)
          /\ t.lines = IF s.new THEN s.lines ELSE s.lines \cup LinesOf(edit, i)
      <4>1. /\ hunk.kind # "diff --git" => t.files = s.files
            /\ hunk.kind \in {"new file mode", "@@"} => t.path = s.path
            /\ hunk.kind \in {"+++ b/", "+++ /dev/null", "@@"} => (t.new <=> s.new)
            /\ hunk.kind = "@@" =>
                  t.lines = IF s.new THEN s.lines ELSE s.lines \cup Diff!ParseHunkHeader(hunk)
        BY ONLY <2>2, <3>1, LineIsRead DEF t
      <4> HIDE DEF t
      <4> QED BY <3>1, <4>1
    <3>3. ReadAll(r, hunks[i]) = t
      <4>1. hunks[i] = hunks[i - 1] \o <<hunk>>
        <5>1. hunks[i] = Append(hunks[i - 1], hunk)
          BY <1>1, <2>5 DEF hunk
        <5> QED BY <2>1, <3>1, <5>1, AppendIsConcat
      <4>2. <<hunk>> \in Seq(DiffLines)
        BY <3>1
      <4>3. ReadAll(r, hunks[i - 1] \o <<hunk>>) = ReadAll(s, <<hunk>>)
        BY <2>1, <4>2, ReadsInOrder DEF s
      <4> QED BY <2>2, <3>1, <4>1, <4>3, ReadsFew
    <3> HIDE DEF t
    <3>4. HasRead(t, r, edit, i)
      <4>1. HasRead(s, r, edit, i - 1)
        BY <1>4 DEF s
      <4>2. t.files = r.files /\ t.path = r.path /\ (t.new <=> r.new)
        BY <3>2, <4>1 DEF HasRead
      <4>3. ASSUME ~r.new, NEW l
            PROVE  l \in t.lines <=>
                     \/ l \in r.lines
                     \/ \E j \in Starts : j <= i /\ l \in LinesOf(edit, j)
        <5>1. ~s.new /\ (l \in s.lines <=>
                     \/ l \in r.lines
                     \/ \E j \in Starts : j <= i - 1 /\ l \in LinesOf(edit, j))
          BY <4>1, <4>3 DEF HasRead, Starts
        <5>2. l \in t.lines <=> l \in s.lines \/ l \in LinesOf(edit, i)
          BY <3>2, <5>1
        <5> QED BY <2>3, <2>5, <5>1, <5>2
      <4> QED BY <4>2, <4>3 DEF HasRead, Starts
    <3> QED BY <3>3, <3>4
  <2> QED BY <2>4, <2>5
<1>5. ASSUME NEW i \in Nat, i \in T PROVE i + 1 \in T
  <2> SUFFICES ASSUME i + 1 <= n PROVE HasRead(ReadAll(r, hunks[i + 1]), r, edit, i + 1)
    OBVIOUS
  <2>1. i + 1 \in 1..n /\ (i + 1) - 1 = i /\ i <= n
    BY <1>1
  <2>2. i <= n => HasRead(ReadAll(r, hunks[i]), r, edit, i)
    <3> HIDE DEF n, hunks
    <3> QED BY <1>5
  <2> HIDE DEF n, hunks
  <2> QED BY <1>4, <2>1, <2>2
<1>6. 0 \in T
  BY <1>3
<1> HIDE DEF T
<1>7. Nat \subseteq T
  BY <1>5, <1>6, SetInduction
<1> QED BY <1>1, <1>7 DEF T, n, hunks

\* The files of a change, and the lines added to one of them.
FileDiffs == [path : STRING \ {""}, status : {"new", "changed", "deleted", "binary"}, edit : Seq(Edits)]
Added(f) == {l \in Int : \E k \in DOMAIN f.edit : f.edit[k] = "add" /\ Diff!NewLines(f.edit, k) = l}

\* A line that is no hunk is one of the parser's.
LEMMA PlainLine ==
  ASSUME NEW kind \in LineKinds, NEW path \in Paths
  PROVE  LET line == Diff!DiffLine(kind, path, 0, 0)
         IN line \in DiffLines /\ line.kind = kind /\ line.path = path
<1> HIDE DEF LineKinds, Paths
<1> QED BY DEF Diff!DiffLine, DiffLines

\* The part of the diff for a file puts what was being read with the others, and leaves the
\* parser with the file's name, unless there is none to see, and its added lines.
LEMMA FileIsRead ==
  ASSUME NEW r \in Readings, NEW f \in FileDiffs
  PROVE  LET s == ReadAll(r, Diff!FileDiff(f))
         IN /\ Diff!FileDiff(f) \in Seq(DiffLines)
            /\ s.files = Diff!Finalized(r).files
            /\ s.path = IF f.status \in {"new", "changed"} THEN f.path ELSE ""
            /\ s.new <=> f.status = "new"
            /\ f.status = "changed" => s.lines = Added(f)
<1> DEFINE path == f.path
           edit == f.edit
           n == Len(edit)
           l1 == Diff!DiffLine("diff --git", path, 0, 0)
           l2 == Diff!DiffLine("new file mode", path, 0, 0)
           mark == IF f.status = "deleted" THEN "+++ /dev/null" ELSE "+++ b/"
           l3 == Diff!DiffLine(mark, path, 0, 0)
           H == Diff!Hunks(path, edit)[n]
           A == <<l1>>
           B == IF f.status = "new" THEN <<l2>> ELSE <<>>
           C == IF f.status = "binary" THEN <<>> ELSE <<l3>> \o H
           r1 == Diff!ReadLine(r, l1)
           r2 == ReadAll(r1, B)
           r3 == ReadAll(r2, C)
           name == Diff!ReadLine(r2, l3)
<1>1. /\ path \in Paths /\ path # "" /\ edit \in Seq(Edits)
      /\ f.status \in {"new", "changed", "deleted", "binary"}
  BY DEF FileDiffs, Paths
<1>2. n \in 0..n /\ n \in Nat /\ DOMAIN edit = 1..n /\ DOMAIN edit \subseteq Nat
  <2>1. edit \in Seq(Edits)
    BY <1>1
  <2> HIDE DEF edit
  <2>2. n \in Nat /\ DOMAIN edit = 1..n
    BY <2>1, LenProperties
  <2> HIDE DEF n
  <2> QED BY ONLY <2>2
<1>3. l1 \in DiffLines /\ l1.kind = "diff --git"
  BY <1>1, PlainLine DEF LineKinds
<1>4. l2 \in DiffLines /\ l2.kind = "new file mode"
  BY <1>1, PlainLine DEF LineKinds
<1>5. l3 \in DiffLines /\ l3.kind = mark /\ l3.path = path
  <2>1. mark \in LineKinds
    BY DEF LineKinds
  <2> HIDE DEF mark
  <2> QED BY <1>1, <2>1, PlainLine
<1>6. H \in Seq(DiffLines)
  <2> HIDE DEF path, edit
  <2> QED BY <1>2, <1>1, HunksDef DEF IsHunks
<1>7. Diff!FileDiff(f) = (A \o B) \o C
  BY DEF Diff!FileDiff
<1> HIDE DEF l1, l2, l3, H
<1>8. A \in Seq(DiffLines) /\ B \in Seq(DiffLines) /\ <<l3>> \in Seq(DiffLines)
  <2>1. \A x \in DiffLines : <<x>> \in Seq(DiffLines)
    OBVIOUS
  <2>2. <<>> \in Seq(DiffLines)
    BY EmptySeq
  <2>3. A \in Seq(DiffLines) /\ <<l3>> \in Seq(DiffLines)
    BY <1>3, <1>5, <2>1
  <2>4. B \in Seq(DiffLines)
    BY <1>4, <2>1, <2>2
  <2> QED BY <2>3, <2>4
<1>9. C \in Seq(DiffLines)
  <2>1. <<l3>> \o H \in Seq(DiffLines)
    <3> DEFINE one == <<l3>>
    <3>1. one \in Seq(DiffLines)
      BY <1>8
    <3> HIDE DEF one
    <3> QED BY <1>6, <3>1, ConcatProperties DEF one
  <2> HIDE DEF H
  <2> QED BY <2>1
<1>10. ReadAll(r, A) = r1
  BY <1>3, ReadsFew
<1> HIDE DEF A, B, C, r1
<1>11. A \o B \in Seq(DiffLines) /\ (A \o B) \o C \in Seq(DiffLines)
  <2>1. A \o B \in Seq(DiffLines)
    BY <1>8, ConcatProperties
  <2> QED BY <1>9, <2>1, ConcatProperties
<1>12. ReadAll(r, Diff!FileDiff(f)) = r3
  <2> DEFINE AB == A \o B
  <2>1. ReadAll(r, AB \o C) = ReadAll(ReadAll(r, AB), C)
    <3>1. AB \in Seq(DiffLines)
      BY <1>11
    <3> HIDE DEF AB
    <3> QED BY <1>9, <3>1, ReadsInOrder
  <2>2. ReadAll(r, AB) = ReadAll(ReadAll(r, A), B)
    BY <1>8, ReadsInOrder
  <2> QED BY <1>7, <1>10, <2>1, <2>2
<1>13. /\ r1 \in Readings /\ r1.files = Diff!Finalized(r).files
       /\ r1.path = "" /\ ~r1.new /\ r1.lines = {}
  BY <1>3, LineIsRead DEF r1
<1>14. /\ r2 \in Readings /\ r2.files = Diff!Finalized(r).files
       /\ r2.path = "" /\ (r2.new <=> f.status = "new") /\ r2.lines = {}
  <2>1. CASE f.status = "new"
    <3>1. r2 = Diff!ReadLine(r1, l2)
      BY <1>4, <1>13, <2>1, ReadsFew DEF B
    <3>2. /\ r2 \in Readings /\ r2.files = r1.files /\ r2.path = r1.path
          /\ r2.new /\ r2.lines = r1.lines
      <4> HIDE DEF r2
      <4> QED BY <1>4, <1>13, <3>1, LineIsRead, ZenonT(30)
    <3> HIDE DEF r2
    <3> QED BY <1>13, <2>1, <3>2
  <2>2. CASE f.status # "new"
    <3>1. r2 = r1
      BY <1>13, <2>2, ReadsFew DEF B
    <3> HIDE DEF r2
    <3> QED BY <1>13, <2>2, <3>1
  <2> QED BY <2>1, <2>2
<1> HIDE DEF r2
<1>15. CASE f.status = "binary"
  <2>1. r3 = r2
    BY <1>14, <1>15, ReadsFew DEF C
  <2> QED BY <1>7, <1>11, <1>12, <1>14, <1>15, <2>1
<1>16. CASE f.status # "binary"
  <2>1. /\ name \in Readings /\ name.files = Diff!Finalized(r).files
        /\ name.path = (IF f.status = "deleted" THEN "" ELSE path)
        /\ (name.new <=> f.status = "new") /\ name.lines = {}
    <3>1. CASE f.status = "deleted"
      <4>1. l3.kind = "+++ /dev/null"
        BY <1>5, <3>1
      <4>2. /\ name \in Readings /\ name.files = r2.files /\ name.path = ""
            /\ (name.new <=> r2.new) /\ name.lines = r2.lines
        BY <1>5, <1>14, <4>1, LineIsRead
      <4> HIDE DEF name
      <4> QED BY <1>14, <3>1, <4>2
    <3>2. CASE f.status # "deleted"
      <4>1. l3.kind = "+++ b/" /\ l3.path = path
        BY <1>5, <3>2
      <4>2. /\ name \in Readings /\ name.files = r2.files /\ name.path = path
            /\ (name.new <=> r2.new) /\ name.lines = r2.lines
        BY <1>5, <1>14, <4>1, LineIsRead, ZenonT(30)
      <4> HIDE DEF name
      <4> QED BY <1>14, <3>2, <4>2
    <3> QED BY <3>1, <3>2
  <2>2. r3 = ReadAll(name, H)
    <3>1. C = <<l3>> \o H
      BY <1>16 DEF C
    <3>2. ReadAll(r2, <<l3>> \o H) = ReadAll(ReadAll(r2, <<l3>>), H)
      BY <1>6, <1>8, <1>14, ReadsInOrder
    <3>3. ReadAll(r2, <<l3>>) = name
      BY <1>5, <1>14, ReadsFew
    <3> HIDE DEF name
    <3> QED BY <3>1, <3>2, <3>3
  <2> HIDE DEF name, r3
  <2>3. HasRead(r3, name, edit, n)
    <3> HIDE DEF path, edit
    <3> QED BY <1>2, <1>1, <2>1, <2>2, HunksAreRead DEF H
  <2>4. f.status = "changed" => r3.lines = Added(f)
    <3> SUFFICES ASSUME f.status = "changed" PROVE r3.lines = Added(f)
      OBVIOUS
    <3>1. \A l : l \in r3.lines <=> \E j \in Diff!HunkStarts(edit) : j <= n /\ l \in LinesOf(edit, j)
      BY <2>1, <2>3 DEF HasRead
    <3>2. \A j \in Diff!HunkStarts(edit) : j <= n
      <4> HIDE DEF edit
      <4>1. \A j \in Diff!HunkStarts(edit) : j \in 1..n
        BY <1>1, HunkEnds
      <4> HIDE DEF n
      <4> QED BY ONLY <1>2, <4>1
    <3>3. \A l : (\E j \in Diff!HunkStarts(edit) : l \in LinesOf(edit, j))
                   <=> \E k \in DOMAIN edit : edit[k] = "add" /\ Diff!NewLines(edit, k) = l
      <4> HIDE DEF edit
      <4> QED BY <1>1, HunksHoldTheAdded
    <3>4. \A k \in DOMAIN edit : Diff!NewLines(edit, k) \in Int
      <4> HIDE DEF edit
      <4> QED BY <1>2, NewLinesCount
    <3>5. \A l : l \in r3.lines <=> l \in Added(f)
      BY <3>1, <3>2, <3>3, <3>4 DEF Added
    <3> QED BY <3>5, <2>3 DEF HasRead
  <2>5. r3.files = Diff!Finalized(r).files /\ r3.path = name.path /\ (r3.new <=> f.status = "new")
    BY <2>1, <2>3 DEF HasRead
  <2> QED BY <1>1, <1>7, <1>11, <1>12, <1>16, <2>1, <2>4, <2>5
<1> QED BY <1>15, <1>16

\* diff goes through the files.
IsDiff(diff, files) ==
  /\ diff \in [0..Len(files) -> Seq(DiffLines)]
  /\ diff[0] = <<>>
  /\ \A i \in 1..Len(files) : diff[i] = diff[i - 1] \o Diff!FileDiff(files[i])

\* git's diff goes through them so.
LEMMA DiffDef ==
  ASSUME NEW files \in Seq(FileDiffs)
  PROVE  IsDiff(Diff!DiffUpto(files), files)
<1> DEFINE n == Len(files)
           V == Seq(DiffLines)
           Next1(i, v) == v \o Diff!FileDiff(files[i])
           step == [i \in 1..n |-> [v \in V |-> Next1(i, v)]]
           Is(f) == f = [i \in 0..n |-> IF i = 0 THEN <<>> ELSE Next1(i, f[i - 1])]
           Good(f) == /\ f \in [0..n -> V] /\ f[0] = <<>>
                      /\ \A i \in 1..n : f[i] = Next1(i, f[i - 1])
           diff == Diff!DiffUpto(files)
<1>1. n \in Nat
  OBVIOUS
<1>2. \A i \in 1..n, v \in V : Next1(i, v) \in V
  <2> SUFFICES ASSUME NEW i \in 1..n, NEW v \in Seq(DiffLines)
               PROVE  v \o Diff!FileDiff(files[i]) \in Seq(DiffLines)
    OBVIOUS
  <2> DEFINE u == Diff!FileDiff(files[i])
  <2>1. Diff!NothingRead \in Readings
    BY EmptySeq DEF Diff!NothingRead, Readings, Paths
  <2>2. files[i] \in FileDiffs
    OBVIOUS
  <2>3. u \in Seq(DiffLines)
    BY <2>1, <2>2, FileIsRead
  <2> HIDE DEF u
  <2> QED BY <2>3, ConcatProperties DEF u
<1>3. <<>> \in V
  OBVIOUS
<1>4. diff = CHOOSE f : Is(f)
  BY DEF Diff!DiffUpto
<1> HIDE DEF n, V, Next1, diff
<1>5. step \in [1..n -> [V -> V]]
  BY <1>2
<1>6. PICK f : Steps(f, n, V, <<>>, step)
  <2> HIDE DEF step
  <2> QED BY <1>1, <1>3, <1>5, Recursion
<1>7. Good(f)
  <2>1. ASSUME NEW i \in 1..n PROVE f[i] = Next1(i, f[i - 1])
    <3>1. f[i - 1] \in V /\ f[i] = step[i][f[i - 1]]
      <4>1. i - 1 \in 0..n
        BY <1>1
      <4> QED BY <1>6, <4>1 DEF Steps
    <3> QED BY <3>1
  <2> QED BY <1>6, <2>1 DEF Steps
<1>8. Is(f)
  <2>1. f = [i \in 0..n |-> f[i]]
    BY <1>7
  <2>2. \A i \in 0..n : f[i] = IF i = 0 THEN <<>> ELSE Next1(i, f[i - 1])
    <3> SUFFICES ASSUME NEW i \in 0..n, i # 0 PROVE f[i] = Next1(i, f[i - 1])
      BY <1>7
    <3>1. i \in 1..n
      BY <1>1
    <3> QED BY <1>7, <3>1
  <2> QED BY <2>1, <2>2
<1>9. \A g : Is(g) => g = f
  <2> SUFFICES ASSUME NEW g, Is(g) PROVE g = f
    OBVIOUS
  <2>1. g[0] = f[0] /\ \A i \in 1..n : g[i] = Next1(i, g[i - 1])
    BY <1>1, <1>7
  <2>2. \A i \in 1..n : g[i - 1] = f[i - 1] => g[i] = f[i]
    BY <1>7, <2>1
  <2>3. IsOver(g, n) /\ IsOver(f, n)
    BY <1>7 DEF IsOver
  <2>4. n \in Nat
    BY <1>1
  <2> QED BY ONLY <2>1, <2>2, <2>3, <2>4, SameSteps
<1>10. diff = f
  <2> HIDE DEF Is
  <2> QED BY <1>4, <1>8, <1>9
<1>11. Good(diff)
  BY <1>7, <1>10
<1> QED BY <1>11 DEF Good, n, V, Next1, diff, IsDiff

\* The entry of a file whose name the diff shows.
IsEntryOf(entry, f) ==
  /\ f.status \in {"new", "changed"}
  /\ entry.path = f.path
  /\ entry.all <=> f.status = "new"
  /\ f.status = "changed" => entry.lines = Added(f)

\* The entries are those of the first i files.
Covers(entries, files, i) ==
  /\ \A e \in DOMAIN entries : \E j \in 1..i : IsEntryOf(entries[e], files[j])
  /\ \A j \in 1..i : files[j].status \in {"new", "changed"} =>
        \E e \in DOMAIN entries : IsEntryOf(entries[e], files[j])

\* Reading one more file adds its entry, if it has one.
LEMMA CoversOneMore ==
  ASSUME NEW files \in Seq(FileDiffs), NEW i \in 1..Len(files),
         NEW r \in Readings, Covers(Diff!Finalized(r).files, files, i - 1)
  PROVE  Covers(Diff!Finalized(ReadAll(r, Diff!FileDiff(files[i]))).files, files, i)
<1> DEFINE f == files[i]
           s == ReadAll(r, Diff!FileDiff(f))
           old == Diff!Finalized(r).files
           now == Diff!Finalized(s).files
           entry == [path |-> s.path, all |-> s.new, lines |-> s.lines]
<1>1. f \in FileDiffs /\ i \in Nat \ {0}
  OBVIOUS
<1>2. /\ Diff!FileDiff(f) \in Seq(DiffLines)
      /\ s.files = old
      /\ s.path = IF f.status \in {"new", "changed"} THEN f.path ELSE ""
      /\ s.new <=> f.status = "new"
      /\ f.status = "changed" => s.lines = Added(f)
  <2> HIDE DEF f
  <2> QED BY <1>1, FileIsRead
<1>3. s \in Readings
  BY <1>2, ReadsFew
<1>4. now = IF s.path = "" THEN old ELSE Append(old, entry)
  <2> HIDE DEF s
  <2> QED BY <1>2, <1>3, FinalizedIsReading
<1>5. f.path # ""
  BY <1>1 DEF FileDiffs
<1>6. old \in Seq(DiffEntries)
  BY FinalizedIsReading DEF Readings
<1>7. Covers(old, files, i - 1)
  OBVIOUS
<1>8. entry \in DiffEntries
  <2> HIDE DEF s
  <2> QED BY <1>3 DEF Readings, DiffEntries
<1>9. \A j : j \in 1..i <=> j \in 1..i - 1 \/ j = i
  BY <1>1
<1>10. CASE f.status \notin {"new", "changed"}
  <2>1. now = old
    BY <1>2, <1>4, <1>10
  <2> HIDE DEF now, old
  <2> QED BY <1>7, <1>9, <1>10, <2>1 DEF Covers, now
<1>11. CASE f.status \in {"new", "changed"}
  <2>1. IsEntryOf(entry, f)
    <3>1. entry.path = s.path /\ (entry.all <=> s.new) /\ entry.lines = s.lines
      OBVIOUS
    <3> HIDE DEF entry
    <3> QED BY <1>2, <1>11, <3>1 DEF IsEntryOf
  <2>2. now = Append(old, entry)
    BY <1>2, <1>4, <1>5, <1>11
  <2> HIDE DEF now, old, entry, f
  <2> DEFINE n == Len(old)
  <2>3. /\ n \in Nat /\ DOMAIN old = 1..n /\ DOMAIN now = 1..n + 1
        /\ \A e \in 1..n : now[e] = old[e]
        /\ now[n + 1] = entry
    <3>1. Append(old, entry) \in Seq(DiffEntries) /\ Len(Append(old, entry)) = n + 1
      BY <1>6, <1>8, AppendProperties
    <3>2. DOMAIN now = 1..n + 1
      BY <2>2, <3>1, LenProperties
    <3> QED BY <1>6, <1>8, <2>2, <3>2, AppendProperties, LenProperties
  <2> HIDE DEF n
  <2>4. \A e : e \in 1..n + 1 <=> e \in 1..n \/ e = n + 1
    BY <2>3
  <2>5. ASSUME NEW e \in DOMAIN now PROVE \E j \in 1..i : IsEntryOf(now[e], files[j])
    <3>1. CASE e \in 1..n
      <4>1. PICK j \in 1..i - 1 : IsEntryOf(old[e], files[j])
        BY <1>7, <2>3, <3>1 DEF Covers
      <4> QED BY <1>9, <2>3, <3>1, <4>1
    <3>2. CASE e = n + 1
      <4>1. IsEntryOf(now[e], files[i])
        BY <2>1, <2>3, <3>2 DEF f
      <4> QED BY <1>9, <4>1
    <3> QED BY <2>3, <2>4, <3>1, <3>2
  <2>6. ASSUME NEW j \in 1..i, files[j].status \in {"new", "changed"}
        PROVE  \E e \in DOMAIN now : IsEntryOf(now[e], files[j])
    <3>1. CASE j \in 1..i - 1
      <4>1. PICK e \in 1..n : IsEntryOf(old[e], files[j])
        BY <1>7, <2>3, <2>6, <3>1 DEF Covers
      <4> QED BY <2>3, <2>4, <4>1
    <3>2. CASE j = i
      <4>1. IsEntryOf(now[n + 1], files[j])
        BY <2>1, <2>3, <3>2 DEF f
      <4> QED BY <2>3, <2>4, <4>1
    <3> QED BY <1>9, <3>1, <3>2
  <2>7. Covers(now, files, i)
    BY <2>5, <2>6 DEF Covers
  <2> QED BY <2>7 DEF now, f
<1> QED BY <1>10, <1>11

\* The parser has an entry for every file whose name the diff shows, and no other.
LEMMA ParsesEveryFile ==
  ASSUME NEW files \in Seq(FileDiffs)
  PROVE  Covers(Diff!ParseUnifiedDiff(Diff!GitDiff(files)), files, Len(files))
<1> DEFINE n == Len(files)
           diff == Diff!DiffUpto(files)
           nothing == Diff!NothingRead
           read(i) == ReadAll(nothing, diff[i])
           T == {i \in Nat : i <= n => /\ read(i) \in Readings
                                       /\ Covers(Diff!Finalized(read(i)).files, files, i)}
<1>1. /\ n \in Nat
      /\ diff \in [0..n -> Seq(DiffLines)] /\ diff[0] = <<>>
      /\ \A i \in 1..n : diff[i] = diff[i - 1] \o Diff!FileDiff(files[i])
  <2>1. n \in Nat
    BY LenProperties
  <2>2. IsDiff(diff, files)
    BY DiffDef
  <2> HIDE DEF diff
  <2> QED BY <2>1, <2>2 DEF IsDiff
<1>2. nothing \in Readings
  BY EmptySeq DEF Diff!NothingRead, Readings, Paths
<1> HIDE DEF n, diff
<1>3. 0 \in T
  <2>1. read(0) = nothing
    BY <1>1, <1>2, ReadsFew
  <2>2. Diff!Finalized(nothing).files = <<>>
    BY DEF Diff!NothingRead, Diff!Finalized
  <2>3. Covers(<<>>, files, 0)
    BY DEF Covers
  <2> HIDE DEF nothing
  <2> QED BY <1>2, <2>1, <2>2, <2>3
<1>4. ASSUME NEW i \in Nat, i \in T PROVE i + 1 \in T
  <2> SUFFICES ASSUME i + 1 <= n
               PROVE  /\ read(i + 1) \in Readings
                      /\ Covers(Diff!Finalized(read(i + 1)).files, files, i + 1)
    OBVIOUS
  <2>1. /\ i + 1 \in 1..n /\ (i + 1) - 1 = i /\ i \in 0..n
        /\ read(i) \in Readings /\ Covers(Diff!Finalized(read(i)).files, files, i)
    BY <1>1, <1>4
  <2>2. files[i + 1] \in FileDiffs
    BY <2>1 DEF n
  <2>3. Diff!FileDiff(files[i + 1]) \in Seq(DiffLines)
    <3> DEFINE f == files[i + 1]
    <3>1. f \in FileDiffs
      BY <2>2
    <3> HIDE DEF f
    <3>2. Diff!FileDiff(f) \in Seq(DiffLines)
      BY <1>2, <3>1, FileIsRead
    <3> QED BY <3>2 DEF f
  <2>4. diff[i] \in Seq(DiffLines) /\ diff[i + 1] = diff[i] \o Diff!FileDiff(files[i + 1])
    BY <1>1, <2>1
  <2>5. read(i + 1) = ReadAll(read(i), Diff!FileDiff(files[i + 1]))
    <3> HIDE DEF nothing
    <3> QED BY <1>2, <2>3, <2>4, ReadsInOrder
  <2>6. read(i + 1) \in Readings
    <3> DEFINE s == read(i)
    <3>1. s \in Readings
      BY <2>1
    <3> HIDE DEF s
    <3>2. ReadAll(s, Diff!FileDiff(files[i + 1])) \in Readings
      BY <2>3, <3>1, ReadsFew
    <3> QED BY <2>5, <3>2 DEF s
  <2>7. Covers(Diff!Finalized(ReadAll(read(i), Diff!FileDiff(files[i + 1]))).files, files, i + 1)
    <3> DEFINE s == read(i)
    <3>1. s \in Readings /\ Covers(Diff!Finalized(s).files, files, (i + 1) - 1)
      BY <2>1
    <3> HIDE DEF s
    <3> QED BY <2>1, <3>1, CoversOneMore DEF n, s
  <2> QED BY <2>5, <2>6, <2>7
<1> HIDE DEF T
<1>5. n \in T
  BY <1>1, <1>3, <1>4, SetInduction
<1>6. Covers(Diff!Finalized(read(n)).files, files, n)
  BY <1>1, <1>5 DEF T
<1> QED BY <1>6 DEF Diff!ParseUnifiedDiff, Diff!GitDiff, ReadAll, n, diff, nothing

\* A function is kept exactly if its file is new or a line was added within it.
LEMMA KeepsWhatChanged ==
  ASSUME NEW files \in Seq(FileDiffs), \A i, j \in DOMAIN files : files[i].path = files[j].path => i = j,
         NEW i \in DOMAIN files, NEW first \in Nat, NEW last \in Nat
  PROVE  LET f == files[i]
         IN Diff!FunctionIsTouched(Diff!ParseUnifiedDiff(Diff!GitDiff(files)), f.path, first, last) <=>
               \/ f.status = "new"
               \/ /\ f.status = "changed"
                  /\ \E k \in DOMAIN f.edit :
                        f.edit[k] = "add" /\ Diff!NewLines(f.edit, k) \in first..last
<1> DEFINE f == files[i]
           n == Len(files)
           entries == Diff!ParseUnifiedDiff(Diff!GitDiff(files))
<1>1. DOMAIN files = 1..n /\ f \in FileDiffs
  BY LenProperties
<1>2. Covers(entries, files, n)
  BY ParsesEveryFile
<1>3. f.edit \in Seq(Edits) /\ DOMAIN f.edit \subseteq Nat
  <2> DEFINE edit == f.edit
  <2>1. edit \in Seq(Edits)
    BY <1>1 DEF FileDiffs
  <2> HIDE DEF edit
  <2>2. DOMAIN edit \subseteq Nat
    BY <2>1, LenProperties
  <2> QED BY <2>1, <2>2 DEF edit
<1>4. Added(f) \cap first..last # {}
         <=> \E k \in DOMAIN f.edit : f.edit[k] = "add" /\ Diff!NewLines(f.edit, k) \in first..last
  <2> DEFINE edit == f.edit
  <2>1. \A k \in DOMAIN edit : Diff!NewLines(edit, k) \in Int
    <3>1. DOMAIN edit \subseteq Nat
      BY <1>3
    <3> HIDE DEF edit
    <3> QED BY <3>1, NewLinesCount
  <2>2. Added(f) = {l \in Int : \E k \in DOMAIN edit : edit[k] = "add" /\ Diff!NewLines(edit, k) = l}
    BY DEF Added
  <2> HIDE DEF edit, f
  <2>3. Added(f) \cap first..last # {}
          <=> \E k \in DOMAIN edit : edit[k] = "add" /\ Diff!NewLines(edit, k) \in first..last
    BY <2>1, <2>2
  <2> QED BY <2>3 DEF edit
<1> HIDE DEF entries
<1>5. ASSUME NEW e \in DOMAIN entries, entries[e].path = f.path
      PROVE  IsEntryOf(entries[e], f)
  <2>1. PICK j \in 1..n : IsEntryOf(entries[e], files[j])
    BY <1>2 DEF Covers
  <2>2. files[j].path = files[i].path
    BY <1>5, <2>1 DEF IsEntryOf
  <2>3. j = i
    BY <1>1, <2>2
  <2> QED BY <2>1, <2>3
<1>6. f.status \in {"new", "changed"} =>
         \E e \in DOMAIN entries : IsEntryOf(entries[e], f)
  BY <1>1, <1>2 DEF Covers
<1> HIDE DEF f
<1>7. Diff!FunctionIsTouched(entries, f.path, first, last) <=>
         \/ f.status = "new"
         \/ f.status = "changed" /\ Added(f) \cap first..last # {}
  <2>1. ASSUME NEW e \in DOMAIN entries, entries[e].path = f.path,
               entries[e].all \/ entries[e].lines \cap first..last # {}
        PROVE  \/ f.status = "new"
               \/ f.status = "changed" /\ Added(f) \cap first..last # {}
    <3>1. IsEntryOf(entries[e], f)
      BY <1>5, <2>1
    <3> QED BY <2>1, <3>1 DEF IsEntryOf
  <2>2. ASSUME \/ f.status = "new"
               \/ f.status = "changed" /\ Added(f) \cap first..last # {}
        PROVE  \E e \in DOMAIN entries :
                  /\ entries[e].path = f.path
                  /\ entries[e].all \/ entries[e].lines \cap first..last # {}
    <3>1. PICK e \in DOMAIN entries : IsEntryOf(entries[e], f)
      BY <1>6, <2>2
    <3> QED BY <2>2, <3>1 DEF IsEntryOf
  <2> QED BY <2>1, <2>2 DEF Diff!FunctionIsTouched
<1> QED BY <1>4, <1>7 DEF f, entries

\* What was given is of its set, and what is done is what the filter does with it.
DiffGiven ==
  subject = "diff" =>
     input \in Diffs /\ (done => output = Diff!ParseUnifiedDiff(Diff!GitDiff(input)))

\* With --diff a function is kept exactly if its file is new or a line was added within it,
\* whatever was changed: a line that was only taken away, a file that is deleted or whose change
\* git does not show as text keeps none.
THEOREM DiffKeepsWhatChanged == CallsAndFiltersSpec => []TouchedIffChanged
<1>1. GivenCallOrFilter /\ Unstarted => DiffGiven
  BY DEF GivenCallOrFilter, Given, Unstarted, DiffGiven
<1>2. DiffGiven /\ [CallOrFilter]_vars => DiffGiven'
  <2> SUFFICES ASSUME DiffGiven, [CallOrFilter]_vars PROVE DiffGiven'
    OBVIOUS
  <2>1. CASE Call
    BY <2>1 DEF DiffGiven, Call, Gives
  <2>2. CASE Dispatch
    BY <2>2 DEF DiffGiven, Dispatch, Gives
  <2>3. CASE Sample
    BY <2>3 DEF DiffGiven, Sample, Gives
  <2>4. CASE TypeCheck
    BY <2>4 DEF DiffGiven, TypeCheck, Gives
  <2>5. CASE ParseDiff
    BY <2>5 DEF DiffGiven, ParseDiff, Gives
  <2>6. CASE ReportTwice
    BY <2>6 DEF DiffGiven, ReportTwice, Gives
  <2>7. CASE Match
    BY <2>7 DEF DiffGiven, Match, Gives
  <2>8. CASE ImportAll
    BY <2>8 DEF DiffGiven, ImportAll, Gives
  <2>9. CASE NameMutants
    BY <2>9 DEF DiffGiven, NameMutants, Gives
  <2>10. CASE ScanText
    BY <2>10 DEF DiffGiven, ScanText, Gives
  <2>11. CASE UNCHANGED vars
    BY <2>11 DEF DiffGiven, vars
  <2> QED BY <2>1, <2>2, <2>3, <2>4, <2>5, <2>6, <2>7, <2>8, <2>9, <2>10, <2>11 DEF CallOrFilter
<1>3. DiffGiven => TouchedIffChanged
  <2> SUFFICES ASSUME DiffGiven, Finished("diff"),
                      NEW i \in DOMAIN input,
                      NEW first \in 1..Diff!NewLines(input[i].edit, Len(input[i].edit)),
                      NEW last \in 1..Diff!NewLines(input[i].edit, Len(input[i].edit))
               PROVE  LET f == input[i]
                      IN Diff!FunctionIsTouched(output, f.path, first, last) <=>
                            \/ f.status = "new"
                            \/ /\ f.status = "changed"
                               /\ \E k \in DOMAIN f.edit :
                                     f.edit[k] = "add" /\ Diff!NewLines(f.edit, k) \in first..last
    BY DEF TouchedIffChanged
  <2>1. input \in Diffs /\ output = Diff!ParseUnifiedDiff(Diff!GitDiff(input))
    BY DEF DiffGiven, Finished
  <2>2. /\ input \in Seq(FileDiffs)
        /\ \A j, k \in DOMAIN input : input[j].path = input[k].path => j = k
    BY <2>1, InputsAssumption DEF DiffsAssumption, FileDiffs, Edits
  <2>3. first \in Nat /\ last \in Nat
    OBVIOUS
  <2> QED BY ONLY <2>1, <2>2, <2>3, i \in DOMAIN input, KeepsWhatChanged
<1> QED BY <1>1, <1>2, <1>3, PTL DEF CallsAndFiltersSpec
-----------------------------------------------------------------------------
(* The type checker                                                         *)

\* The sequences of a sequence, one after the other.
IsFlattened(flat, seqs, S) ==
  /\ flat \in [0..Len(seqs) -> Seq(S)]
  /\ flat[0] = <<>>
  /\ \A i \in 1..Len(seqs) : flat[i] = flat[i - 1] \o seqs[i]

\* FlattenSeq puts them so.
LEMMA FlattenDef ==
  ASSUME NEW S, NEW seqs \in Seq(Seq(S))
  PROVE  \E flat : IsFlattened(flat, seqs, S) /\ Types!FlattenSeq(seqs) = flat[Len(seqs)]
<1> DEFINE n == Len(seqs)
           V == Seq(S)
           Next1(i, v) == v \o seqs[i]
           step == [i \in 1..n |-> [v \in V |-> Next1(i, v)]]
           Is(f) == f = [i \in 1..n |-> IF i = 1 THEN seqs[i] ELSE f[i - 1] \o seqs[i]]
<1>1. n \in Nat /\ \A i \in 1..n : seqs[i] \in V
  OBVIOUS
<1>2. \A i \in 1..n, v \in V : Next1(i, v) \in V
  <2> SUFFICES ASSUME NEW i \in 1..n, NEW v \in Seq(S) PROVE v \o seqs[i] \in Seq(S)
    OBVIOUS
  <2> DEFINE u == seqs[i]
  <2>1. u \in Seq(S)
    OBVIOUS
  <2> HIDE DEF u
  <2> QED BY <2>1, ConcatProperties DEF u
<1>3. <<>> \in V
  BY EmptySeq
<1>4. Types!FlattenSeq(seqs) = IF n = 0 THEN seqs ELSE (CHOOSE f : Is(f))[n]
  BY DEF Types!FlattenSeq
<1>5. n = 0 => seqs = <<>>
  BY EmptySeq
<1> HIDE DEF n, V, Next1
<1>6. step \in [1..n -> [V -> V]]
  BY <1>2
<1>7. PICK flat : Steps(flat, n, V, <<>>, step)
  <2> HIDE DEF step
  <2> QED BY <1>1, <1>3, <1>6, Recursion
<1>8. /\ flat \in [0..n -> V] /\ flat[0] = <<>>
      /\ \A i \in 1..n : flat[i] = flat[i - 1] \o seqs[i]
  <2>1. ASSUME NEW i \in 1..n PROVE flat[i] = Next1(i, flat[i - 1])
    <3>1. flat[i - 1] \in V /\ flat[i] = step[i][flat[i - 1]]
      <4>1. i - 1 \in 0..n
        BY <1>1
      <4> QED BY <1>7, <4>1 DEF Steps
    <3> QED BY <3>1
  <2> QED BY <1>7, <2>1 DEF Steps, Next1
<1>9. IsFlattened(flat, seqs, S)
  BY <1>8 DEF IsFlattened, n, V
<1>10. CASE n = 0
  BY <1>4, <1>5, <1>8, <1>9, <1>10 DEF n
<1>11. CASE n # 0
  <2> DEFINE g == [i \in 1..n |-> flat[i]]
  <2>1. n \in 1..n /\ 1 \in 1..n
    BY <1>1, <1>11
  <2>2. flat[1] = seqs[1]
    <3>1. flat[1] = <<>> \o seqs[1]
      <4>1. 1 - 1 = 0
        OBVIOUS
      <4> QED BY <1>8, <2>1, <4>1
    <3> DEFINE u == seqs[1]
    <3>2. u \in Seq(S)
      BY <1>1, <2>1 DEF V
    <3> HIDE DEF u
    <3>3. <<>> \o u = u
      BY <3>2, ConcatEmptySeq
    <3> QED BY <3>1, <3>3 DEF u
  <2>3. Is(g)
    <3>1. \A i \in 1..n : i # 1 => i - 1 \in 1..n
      BY <1>1
    <3>2. \A i \in 1..n : g[i] = IF i = 1 THEN seqs[i] ELSE g[i - 1] \o seqs[i]
      BY <1>8, <2>2, <3>1
    <3> QED BY <3>2
  <2>4. ASSUME NEW h, Is(h) PROVE h = g
    <3> DEFINE h0 == [i \in 0..n |-> IF i = 0 THEN <<>> ELSE h[i]]
    <3>1. \A i \in 1..n : h[i] = IF i = 1 THEN seqs[i] ELSE h[i - 1] \o seqs[i]
      BY <2>4
    <3>2. \A i \in 1..n : i \in 0..n /\ i # 0 /\ i - 1 \in 0..n /\ (i # 1 => i - 1 # 0)
      BY <1>1
    <3>3. h0[0] = flat[0] /\ \A i \in 1..n : h0[i] = h[i]
      <4>1. 0 \in 0..n
        BY <1>1
      <4> QED BY <1>8, <3>2, <4>1
    <3>4. ASSUME NEW i \in 1..n, h0[i - 1] = flat[i - 1] PROVE h0[i] = flat[i]
      <4>1. CASE i = 1
        BY <2>2, <3>1, <3>3, <4>1
      <4>2. CASE i # 1
        <5>1. i - 1 \in 1..n
          BY <1>1, <4>2
        <5>2. h[i] = h[i - 1] \o seqs[i] /\ h0[i - 1] = h[i - 1] /\ h0[i] = h[i]
          BY <3>1, <3>3, <4>2, <5>1
        <5> QED BY <1>8, <3>4, <5>2
      <4> QED BY <4>1, <4>2
    <3>5. IsOver(h0, n) /\ IsOver(flat, n)
      BY <1>8 DEF IsOver
    <3> HIDE DEF h0
    <3>6. h0 = flat
      BY ONLY <1>1, <3>3, <3>4, <3>5, SameSteps
    <3>7. \A i \in 1..n : h[i] = flat[i]
      BY <3>3, <3>6
    <3>8. h = [i \in 1..n |-> h[i]]
      BY <2>4
    <3> QED BY <3>7, <3>8
  <2>5. (CHOOSE f : Is(f)) = g
    <3> HIDE DEF Is, g
    <3> QED BY <2>3, <2>4
  <2>6. Types!FlattenSeq(seqs) = flat[n]
    BY <1>4, <1>11, <2>1, <2>5
  <2> QED BY <1>9, <2>6 DEF n
<1> QED BY <1>10, <1>11

\* The functions of a file, and the lines of its text.
Names          == [key : Paths, nr : Nat]
TextLines      == [def : Names, async : BOOLEAN, of : Names]
TypedFunctions == [key : STRING \ {""}, bodies : Seq(Nat), async : BOOLEAN]

\* A line that opens a def is of that def, a function of the file; any other line of a
\* definition follows a line of it.
IsLine(text, functions, l) ==
  /\ text[l].def # Types!NoName =>
        /\ text[l].of = text[l].def
        /\ \E i \in DOMAIN functions : /\ functions[i].key = text[l].def.key
                                      /\ functions[i].async <=> text[l].async
  /\ text[l].of # Types!NoName =>
        /\ \/ text[l].def = text[l].of
           \/ l - 1 \in DOMAIN text /\ text[l].def = Types!NoName /\ text[l - 1].of = text[l].of
        /\ \E i \in DOMAIN functions : /\ functions[i].key = text[l].of.key
                                      /\ text[l].of.nr + 1 \in DOMAIN functions[i].bodies

IsText(text, functions) ==
  /\ text \in Seq(TextLines)
  /\ \A l \in DOMAIN text : IsLine(text, functions, l)

\* Two texts make one.
LEMMA TextsMakeText ==
  ASSUME NEW functions, NEW s, NEW t, IsText(s, functions), IsText(t, functions)
  PROVE  IsText(s \o t, functions)
<1> DEFINE u == s \o t
           m == Len(s)
           n == Len(t)
<1>1. s \in Seq(TextLines) /\ t \in Seq(TextLines)
  BY DEF IsText
<1>2. /\ m \in Nat /\ n \in Nat /\ DOMAIN s = 1..m /\ DOMAIN t = 1..n
  BY <1>1, LenProperties
<1>3. /\ u \in Seq(TextLines) /\ Len(u) = m + n
      /\ \A l \in 1..m + n : u[l] = IF l <= m THEN s[l] ELSE t[l - m]
  BY <1>1, ConcatProperties
<1> HIDE DEF u, m, n
<1>4. DOMAIN u = 1..m + n
  BY <1>3, LenProperties
<1>5. ASSUME NEW l \in 1..m + n PROVE IsLine(u, functions, l)
  <2>1. CASE l <= m
    <3>1. l \in 1..m /\ u[l] = s[l] /\ IsLine(s, functions, l)
      BY <1>2, <1>3, <2>1 DEF IsText
    <3>2. l - 1 \in 1..m => l - 1 \in 1..m + n /\ u[l - 1] = s[l - 1]
      BY <1>2, <1>3
    <3> QED BY <1>2, <1>4, <3>1, <3>2 DEF IsLine
  <2>2. CASE ~(l <= m)
    <3>1. l - m \in 1..n /\ u[l] = t[l - m] /\ IsLine(t, functions, l - m)
      <4>1. l - m \in 1..n
        BY <1>2, <2>2
      <4> QED BY <1>2, <1>3, <2>2, <4>1 DEF IsText
    <3>2. (l - m) - 1 \in 1..n => l - 1 \in 1..m + n /\ u[l - 1] = t[(l - m) - 1]
      <4> SUFFICES ASSUME (l - m) - 1 \in 1..n PROVE l - 1 \in 1..m + n /\ u[l - 1] = t[(l - m) - 1]
        OBVIOUS
      <4>1. l - 1 \in 1..m + n /\ ~(l - 1 <= m) /\ (l - 1) - m = (l - m) - 1
        BY <1>2, <2>2
      <4> QED BY <1>3, <4>1
    <3> QED BY <1>2, <1>4, <3>1, <3>2 DEF IsLine
  <2> QED BY <2>1, <2>2
<1> QED BY <1>3, <1>4, <1>5 DEF IsText, u

\* Any number of texts make one.
LEMMA TextsMakeOne ==
  ASSUME NEW functions, NEW texts \in Seq(Seq(TextLines)),
         \A i \in 1..Len(texts) : IsText(texts[i], functions)
  PROVE  IsText(Types!FlattenSeq(texts), functions)
<1> DEFINE n == Len(texts)
<1>1. n \in Nat
  OBVIOUS
<1>2. PICK flat : IsFlattened(flat, texts, TextLines) /\ Types!FlattenSeq(texts) = flat[n]
  BY FlattenDef
<1>3. /\ flat[0] = <<>>
      /\ \A i \in 1..n : flat[i] = flat[i - 1] \o texts[i]
  BY <1>2 DEF IsFlattened
<1>4. \A i \in 1..n : IsText(texts[i], functions)
  OBVIOUS
<1> DEFINE T == {i \in Nat : i <= n => IsText(flat[i], functions)}
<1> HIDE DEF n
<1>5. 0 \in T
  <2>1. <<>> \in Seq(TextLines) /\ DOMAIN <<>> = {}
    BY EmptySeq
  <2>2. IsText(<<>>, functions)
    BY <2>1 DEF IsText
  <2> QED BY <1>3, <2>2
<1>6. ASSUME NEW i \in Nat, i \in T PROVE i + 1 \in T
  <2> SUFFICES ASSUME i + 1 <= n PROVE IsText(flat[i + 1], functions)
    OBVIOUS
  <2>1. i + 1 \in 1..n /\ (i + 1) - 1 = i /\ IsText(flat[i], functions)
    BY <1>1, <1>6
  <2>2. flat[i + 1] = flat[i] \o texts[i + 1] /\ IsText(texts[i + 1], functions)
    BY <1>3, <1>4, <2>1
  <2> QED BY <2>1, <2>2, TextsMakeText
<1> HIDE DEF T
<1>7. Nat \subseteq T
  BY <1>5, <1>6, SetInduction
<1> QED BY <1>1, <1>2, <1>7 DEF T

\* The text of a definition is one.
LEMMA DefinitionIsText ==
  ASSUME NEW functions \in Seq(TypedFunctions), NEW i \in DOMAIN functions,
         NEW k \in DOMAIN functions[i].bodies
  PROVE  IsText(Types!DefinitionText(functions[i], k), functions)
<1> DEFINE f == functions[i]
           name == [key |-> f.key, nr |-> k - 1]
           first == [def |-> name, async |-> f.async, of |-> name]
           other == [def |-> Types!NoName, async |-> FALSE, of |-> name]
           body == [l \in 1..f.bodies[k] |-> other]
           one == <<first>>
           text == one \o body
<1>1. f \in TypedFunctions
  BY LenProperties
<1>2. f.key \in Paths /\ f.key # "" /\ f.bodies \in Seq(Nat) /\ f.async \in BOOLEAN
  BY <1>1 DEF TypedFunctions, Paths
<1>3. k \in Nat \ {0} /\ f.bodies[k] \in Nat
  <2> DEFINE b == f.bodies
  <2>1. b \in Seq(Nat) /\ k \in DOMAIN b
    BY <1>2
  <2> HIDE DEF b
  <2>2. k \in 1..Len(b) /\ Len(b) \in Nat
    BY <2>1, LenProperties
  <2>3. b[k] \in Nat
    BY <2>1, <2>2, ElementOfSeq
  <2> QED BY <2>2, <2>3 DEF b
<1>4. Types!DefinitionText(f, k) = text
  BY DEF Types!DefinitionText, Types!TextLine
<1>5. Types!NoName \in Names /\ Types!NoName.key = ""
  BY DEF Types!NoName, Names, Paths
<1>6. name \in Names /\ name # Types!NoName
  <2>1. name.key = f.key /\ k - 1 \in Nat
    BY <1>3
  <2> HIDE DEF f
  <2> QED BY <1>2, <1>5, <2>1 DEF Names
<1>7. name.key = f.key /\ name.nr + 1 \in DOMAIN f.bodies
  <2>1. name.nr + 1 = k
    BY <1>3
  <2> QED BY <2>1
<1> HIDE DEF f, name
<1>8. first \in TextLines /\ other \in TextLines
  BY <1>2, <1>5, <1>6 DEF TextLines
<1>9. /\ first.def = name /\ first.of = name /\ first.async = f.async
      /\ other.def = Types!NoName /\ other.of = name
  OBVIOUS
<1> DEFINE n == f.bodies[k]
<1>10. one \in Seq(TextLines) /\ Len(one) = 1 /\ one[1] = first
  BY <1>8
<1>11. body \in Seq(TextLines) /\ Len(body) = n /\ \A l \in 1..n : body[l] = other
  <2> HIDE DEF other, n
  <2>1. n \in Nat /\ other \in TextLines /\ body = [l \in 1..n |-> other]
    BY <1>3, <1>8 DEF n
  <2> HIDE DEF body
  <2> QED BY <2>1
<1> HIDE DEF first, other, one, body, n
<1>12. /\ text \in Seq(TextLines) /\ Len(text) = 1 + n
       /\ \A l \in 1..1 + n : text[l] = IF l <= 1 THEN one[l] ELSE body[l - 1]
  <2>1. /\ text \in Seq(TextLines) /\ Len(text) = Len(one) + Len(body)
        /\ \A l \in 1..Len(one) + Len(body) : text[l] = IF l <= Len(one) THEN one[l] ELSE body[l - Len(one)]
    BY ONLY <1>10, <1>11, ConcatProperties
  <2> HIDE DEF text
  <2> QED BY ONLY <1>10, <1>11, <2>1
<1> HIDE DEF text
<1>13. n \in Nat /\ DOMAIN text = 1..1 + n
  BY <1>3, <1>12, LenProperties DEF n
<1>14. text[1] = first
  BY <1>10, <1>12, <1>13
<1>15. \A l \in 1..1 + n : l # 1 => text[l] = other
  <2> SUFFICES ASSUME NEW l \in 1..1 + n, l # 1 PROVE text[l] = other
    OBVIOUS
  <2>1. l - 1 \in 1..n /\ ~(l <= 1)
    BY <1>13
  <2> QED BY <1>11, <1>12, <2>1
<1>16. ASSUME NEW l \in 1..1 + n PROVE text[l].of = name /\ IsLine(text, functions, l)
  <2>1. CASE l = 1
    <3>1. /\ text[l].def = name /\ text[l].of = name /\ text[l].async = f.async
      BY <1>9, <1>14, <2>1
    <3>2. i \in DOMAIN functions /\ functions[i] = f
      BY DEF f
    <3> QED BY <1>7, <3>1, <3>2 DEF IsLine
  <2>2. CASE l # 1
    <3>1. text[l].def = Types!NoName /\ text[l].of = name
      BY <1>9, <1>15, <2>2
    <3>2. l - 1 \in 1..1 + n
      BY <1>13, <2>2
    <3>3. text[l - 1].of = name
      BY <1>9, <1>14, <1>15, <3>2
    <3>4. i \in DOMAIN functions /\ functions[i] = f
      BY DEF f
    <3> QED BY <1>7, <1>13, <3>1, <3>2, <3>3, <3>4 DEF IsLine
  <2> QED BY <2>1, <2>2
<1>17. IsText(text, functions)
  BY <1>12, <1>13, <1>16 DEF IsText
<1> QED BY <1>4, <1>17 DEF f

\* The text of a function is one.
LEMMA FunctionIsText ==
  ASSUME NEW functions \in Seq(TypedFunctions), NEW i \in DOMAIN functions
  PROVE  IsText(Types!FunctionText(functions[i]), functions)
<1> DEFINE f == functions[i]
           n == Len(f.bodies)
           texts == [k \in DOMAIN f.bodies |-> Types!DefinitionText(f, k)]
           none == [def |-> Types!NoName, async |-> FALSE, of |-> Types!NoName]
           rest == <<none>>
<1>1. DOMAIN f.bodies = 1..n /\ n \in Nat
  <2>1. f \in TypedFunctions
    BY LenProperties
  <2> DEFINE b == f.bodies
  <2>2. b \in Seq(Nat)
    BY <2>1 DEF TypedFunctions
  <2> HIDE DEF b
  <2>3. DOMAIN b = 1..Len(b) /\ Len(b) \in Nat
    BY <2>2, LenProperties
  <2> QED BY <2>3 DEF b
<1>2. \A k \in 1..n : IsText(Types!DefinitionText(f, k), functions)
  BY <1>1, DefinitionIsText
<1>3. Types!FunctionText(f) = Types!FlattenSeq(texts) \o rest
  BY DEF Types!FunctionText, Types!TextLine
<1>4. IsText(rest, functions)
  <2>1. none \in TextLines /\ none.def = Types!NoName /\ none.of = Types!NoName
    BY DEF TextLines, Names, Paths, Types!NoName
  <2> HIDE DEF none
  <2>2. rest \in Seq(TextLines) /\ DOMAIN rest = {1} /\ rest[1] = none
    BY <2>1
  <2> HIDE DEF rest
  <2> QED BY <2>1, <2>2 DEF IsText, IsLine
<1> HIDE DEF f, n, rest
<1>5. texts = [k \in 1..n |-> Types!DefinitionText(f, k)]
  BY <1>1
<1>6. \A k \in 1..n : Types!DefinitionText(f, k) \in Seq(TextLines)
  BY <1>2 DEF IsText
<1>7. texts \in Seq(Seq(TextLines)) /\ Len(texts) = n
  BY <1>1, <1>5, <1>6
<1>8. \A k \in 1..n : IsText(texts[k], functions)
  BY <1>2, <1>5
<1> HIDE DEF texts
<1>9. IsText(Types!FlattenSeq(texts), functions)
  BY <1>7, <1>8, TextsMakeOne
<1> QED BY <1>3, <1>4, <1>9, TextsMakeText DEF f

\* The text of a file is one.
LEMMA FileIsText ==
  ASSUME NEW functions \in Seq(TypedFunctions)
  PROVE  IsText(Types!FileText(functions), functions)
<1> DEFINE n == Len(functions)
           texts == [i \in DOMAIN functions |-> Types!FunctionText(functions[i])]
<1>1. DOMAIN functions = 1..n /\ n \in Nat
  BY LenProperties
<1>2. \A i \in 1..n : IsText(Types!FunctionText(functions[i]), functions)
  BY <1>1, FunctionIsText
<1>3. Types!FileText(functions) = Types!FlattenSeq(texts)
  BY DEF Types!FileText
<1> HIDE DEF n
<1>4. texts = [i \in 1..n |-> Types!FunctionText(functions[i])]
  BY <1>1
<1>5. \A i \in 1..n : Types!FunctionText(functions[i]) \in Seq(TextLines)
  BY <1>2 DEF IsText
<1>6. texts \in Seq(Seq(TextLines)) /\ Len(texts) = n
  BY <1>1, <1>4, <1>5
<1>7. \A i \in 1..n : IsText(texts[i], functions)
  BY <1>2, <1>4
<1> HIDE DEF texts
<1> QED BY <1>3, <1>6, <1>7, TextsMakeOne

\* A line of a definition is at or below its def, with no other def in between.
LEMMA LineHasDef ==
  ASSUME NEW functions, NEW text, IsText(text, functions),
         NEW l \in 1..Len(text), text[l].of # Types!NoName
  PROVE  \E d \in 1..l : /\ text[d].def = text[l].of
                         /\ \A j \in d + 1..l : text[j].def = Types!NoName
<1> DEFINE n == Len(text)
           Has(k) == \E d \in 1..k : /\ text[d].def = text[k].of
                                     /\ \A j \in d + 1..k : text[j].def = Types!NoName
           T == {k \in Nat : k \in 1..n /\ text[k].of # Types!NoName => Has(k)}
<1>1. n \in Nat /\ DOMAIN text = 1..n /\ \A k \in 1..n : IsLine(text, functions, k)
  <2>1. text \in Seq(TextLines) /\ \A k \in DOMAIN text : IsLine(text, functions, k)
    BY DEF IsText
  <2> QED BY <2>1, LenProperties
<1> HIDE DEF n
<1>2. 0 \in T
  BY <1>1
<1>3. ASSUME NEW i \in Nat, i \in T PROVE i + 1 \in T
  <2> SUFFICES ASSUME i + 1 \in 1..n, text[i + 1].of # Types!NoName PROVE Has(i + 1)
    OBVIOUS
  <2>1. (i + 1) - 1 = i /\ IsLine(text, functions, i + 1)
    BY <1>1
  <2>2. CASE text[i + 1].def = text[i + 1].of
    <3>1. i + 1 \in 1..i + 1 /\ \A j \in (i + 1) + 1..i + 1 : FALSE
      OBVIOUS
    <3> QED BY <2>2, <3>1
  <2>3. CASE text[i + 1].def # text[i + 1].of
    <3>1. i \in 1..n /\ text[i + 1].def = Types!NoName /\ text[i].of = text[i + 1].of
      BY <1>1, <2>1, <2>3 DEF IsLine
    <3>2. PICK d \in 1..i : /\ text[d].def = text[i].of
                            /\ \A j \in d + 1..i : text[j].def = Types!NoName
      BY <1>3, <3>1
    <3>3. d \in 1..i + 1 /\ \A j \in d + 1..i + 1 : j \in d + 1..i \/ j = i + 1
      OBVIOUS
    <3> QED BY <3>1, <3>2, <3>3
  <2> QED BY <2>2, <2>3
<1> HIDE DEF T
<1>4. Nat \subseteq T
  BY <1>2, <1>3, SetInduction
<1>5. l \in Nat /\ l \in 1..n
  BY DEF n
<1>6. Has(l)
  BY <1>4, <1>5 DEF T
<1> QED BY <1>6

\* The line is of a definition, whose function is not async.
IsPlaced(text, functions, l) ==
  /\ l \in 1..Len(text)
  /\ text[l].of # Types!NoName
  /\ \A i \in DOMAIN functions : functions[i].key = text[l].of.key => ~functions[i].async

\* Of the functions that the parser finds, exactly the one whose text it is has the line.
LEMMA LineFallsToItsOwn ==
  ASSUME NEW functions, NEW text, IsText(text, functions), NEW l, IsPlaced(text, functions, l), NEW name
  PROVE  (\E f \in Types!TrampolineFunctions(text) : f.name = name /\ l \in f.lines)
            <=> name = text[l].of
<1> DEFINE n == Len(text)
           Defs == Types!Defs(text)
<1>1. n \in Nat /\ DOMAIN text = 1..n /\ \A k \in 1..n : IsLine(text, functions, k)
  <2>1. text \in Seq(TextLines) /\ \A k \in DOMAIN text : IsLine(text, functions, k)
    BY DEF IsText
  <2> QED BY <2>1, LenProperties
<1>2. l \in 1..n /\ text[l].of # Types!NoName
  BY DEF IsPlaced
<1>3. PICK d \in 1..l : /\ text[d].def = text[l].of
                        /\ \A j \in d + 1..l : text[j].def = Types!NoName
  BY <1>2, LineHasDef
<1>4. \A i : i \in Defs <=> i \in 1..n /\ text[i].def # Types!NoName /\ ~text[i].async
  BY <1>1 DEF Types!Defs
<1>5. (\E f \in Types!TrampolineFunctions(text) : f.name = name /\ l \in f.lines)
         <=> \E i \in Defs : text[i].def = name /\ l \in i..n /\ Defs \cap (i + 1..l) = {}
  <2> DEFINE Lines(i) == {k \in i..n : Defs \cap (i + 1..k) = {}}
             F(i) == [name |-> text[i].def, lines |-> Lines(i)]
  <2>1. Types!TrampolineFunctions(text) = {F(i) : i \in Defs}
    BY DEF Types!TrampolineFunctions
  <2>2. \A i : l \in Lines(i) <=> l \in i..n /\ Defs \cap (i + 1..l) = {}
    OBVIOUS
  <2>3. \A i : F(i).name = text[i].def /\ F(i).lines = Lines(i)
    OBVIOUS
  <2> HIDE DEF Defs, n, Lines, F
  <2>4. (\E f \in Types!TrampolineFunctions(text) : f.name = name /\ l \in f.lines)
           <=> \E i \in Defs : text[i].def = name /\ l \in Lines(i)
    BY <2>1, <2>3
  <2> QED BY <2>2, <2>4
<1> HIDE DEF n, Defs
<1>6. d \in 1..n /\ d \in Defs
  <2>1. d \in 1..n
    BY <1>1, <1>2
  <2>2. PICK i \in DOMAIN functions : /\ functions[i].key = text[d].def.key
                                     /\ functions[i].async <=> text[d].async
    BY <1>1, <1>2, <1>3, <2>1 DEF IsLine
  <2>3. ~text[d].async
    BY <1>3, <2>2 DEF IsPlaced
  <2> QED BY <1>2, <1>3, <1>4, <2>1, <2>3
<1>7. l \in d..n /\ Defs \cap (d + 1..l) = {}
  BY <1>1, <1>2, <1>3, <1>4
<1>8. ASSUME NEW i \in Defs, l \in i..n, Defs \cap (i + 1..l) = {} PROVE i = d
  <2>1. i \in 1..n /\ text[i].def # Types!NoName
    BY <1>4
  <2>2. d \notin i + 1..l /\ i \notin d + 1..l
    BY <1>3, <1>6, <1>8, <2>1
  <2> QED BY <1>1, <1>2, <1>8, <2>1, <2>2
<1> QED BY <1>3, <1>5, <1>6, <1>7, <1>8

\* The messages of a definition are those of the errors in its text.
LEMMA MessagesAreItsOwn ==
  ASSUME NEW functions, NEW text, IsText(text, functions), NEW errors,
         \A e \in errors : IsPlaced(text, functions, e.line), NEW name
  PROVE  Types!MessagesOf(text, errors, name) =
            {e.message : e \in {x \in errors : text[x.line].of = name}}
<1>1. \A x \in errors : (\E f \in Types!TrampolineFunctions(text) : f.name = name /\ x.line \in f.lines)
                           <=> text[x.line].of = name
  BY LineFallsToItsOwn
<1> QED BY <1>1 DEF Types!MessagesOf

\* The names of the definitions with an error that the original has not.
NewlyWrong(text, errors) ==
  {text[e.line].of : e \in {x \in errors :
      /\ text[x.line].of.nr > 0
      /\ \A y \in errors : y.message = x.message =>
            text[y.line].of # Types!Orig(text[x.line].of)}}

\* The names of the variants that are left with errors (map_errors_to_mutants).
WrongVariants(text, errors) ==
  {v \in {n \in {text[i].def : i \in DOMAIN text} : n.nr > 0} : Types!NewErrors(text, errors, v) # {}}

\* The variants that have errors of their own are those with an error that the original has not.
LEMMA NewErrorsAreItsOwn ==
  ASSUME NEW functions, NEW text, IsText(text, functions), NEW errors,
         \A e \in errors : IsPlaced(text, functions, e.line)
  PROVE  WrongVariants(text, errors) = NewlyWrong(text, errors)
<1> DEFINE variants == {n \in {text[i].def : i \in DOMAIN text} : n.nr > 0}
           Of(e) == text[e.line].of
           New(e) == /\ Of(e).nr > 0
                     /\ \A y \in errors : y.message = e.message => Of(y) # Types!Orig(Of(e))
<1>1. \A v : Types!NewErrors(text, errors, v) # {} <=>
         \E e \in errors : Of(e) = v /\ \A y \in errors : y.message = e.message => Of(y) # Types!Orig(v)
  <2> SUFFICES ASSUME NEW v
               PROVE  Types!NewErrors(text, errors, v) # {} <=>
                         \E e \in errors : Of(e) = v /\ \A y \in errors : y.message = e.message => Of(y) # Types!Orig(v)
    OBVIOUS
  <2>1. /\ Types!MessagesOf(text, errors, v) = {e.message : e \in {x \in errors : Of(x) = v}}
        /\ Types!MessagesOf(text, errors, Types!Orig(v)) =
              {e.message : e \in {x \in errors : Of(x) = Types!Orig(v)}}
    BY MessagesAreItsOwn
  <2>2. Types!NewErrors(text, errors, v) =
           Types!MessagesOf(text, errors, v) \ Types!MessagesOf(text, errors, Types!Orig(v))
    BY DEF Types!NewErrors
  <2> HIDE DEF Of
  <2> QED BY <2>1, <2>2
<1>2. ASSUME NEW e \in errors, Of(e).nr > 0 PROVE Of(e) \in variants
  <2>1. e.line \in 1..Len(text) /\ text[e.line].of # Types!NoName
    BY DEF IsPlaced
  <2>2. PICK d \in 1..e.line : text[d].def = text[e.line].of
    BY <2>1, LineHasDef
  <2>3. d \in DOMAIN text
    <3>1. DOMAIN text = 1..Len(text) /\ Len(text) \in Nat
      BY LenProperties DEF IsText
    <3> QED BY <2>1, <2>2, <3>1
  <2> QED BY <1>2, <2>2, <2>3
<1>3. \A v \in variants : v.nr > 0
  OBVIOUS
<1> HIDE DEF variants, Of
<1>4. ASSUME NEW v PROVE v \in variants /\ Types!NewErrors(text, errors, v) # {} <=>
                          \E e \in errors : New(e) /\ v = Of(e)
  BY <1>1, <1>2, <1>3
<1>5. {v \in variants : Types!NewErrors(text, errors, v) # {}} = {Of(e) : e \in {x \in errors : New(x)}}
  BY <1>4
<1> QED BY <1>5 DEF variants, Of, WrongVariants, NewlyWrong

\* No two of the modules have a function of one key.
KeysApart(modules, files) ==
  \A i, j \in DOMAIN modules :
     modules[i] # modules[j] =>
        \A k \in DOMAIN files[modules[i]], h \in DOMAIN files[modules[j]] :
           files[modules[i]][k].key # files[modules[j]][h].key

\* The name of a variant leads to its module.
LEMMA VariantIsFound ==
  ASSUME NEW modules \in Seq(STRING), NEW files, KeysApart(modules, files),
         NEW i \in DOMAIN modules, NEW k \in DOMAIN files[modules[i]],
         NEW name, files[modules[i]][k].key = name.key,
         name.nr + 1 \in DOMAIN files[modules[i]][k].bodies
  PROVE  Types!MutantNamed(modules, files, name) = [module |-> modules[i], name |-> name]
<1> DEFINE n == Len(modules)
           having == {m \in DOMAIN modules :
                         \E h \in DOMAIN files[modules[m]] :
                             /\ files[modules[m]][h].key = name.key
                             /\ name.nr + 1 \in DOMAIN files[modules[m]][h].bodies}
           B == {b \in Nat : \A h \in having : h <= b}
<1>1. DOMAIN modules = 1..n /\ n \in Nat
  BY LenProperties
<1>2. i \in having
  OBVIOUS
<1>3. \A m \in having : modules[m] = modules[i]
  BY DEF KeysApart
<1>4. having \subseteq 1..n
  BY <1>1
<1>5. Types!MutantNamed(modules, files, name) =
         [module |-> modules[CHOOSE m \in having : \A h \in having : h <= m], name |-> name]
  BY DEF Types!MutantNamed
<1> HIDE DEF having, n
<1>6. \E m \in having : \A h \in having : h <= m
  <2>1. n \in B
    BY <1>1, <1>4
  <2>2. PICK b \in B : \A c \in B : b <= c
    <3>1. B \in SUBSET Nat
      OBVIOUS
    <3> HIDE DEF B
    <3> QED BY <2>1, <3>1, LeastNumber
  <2>3. b \in having
    <3> SUFFICES ASSUME b \notin having PROVE FALSE
      OBVIOUS
    <3>1. i \in 1..n /\ i <= b /\ i # b /\ b \in Nat
      BY <1>2, <1>4, <2>2
    <3>2. b - 1 \in Nat /\ ~(b <= b - 1)
      BY <1>1, <3>1
    <3>3. \A h \in having : h \in Nat /\ h <= b /\ h # b
      BY <1>1, <1>4, <2>2
    <3>4. \A h \in having : h <= b - 1
      BY <3>1, <3>3
    <3> QED BY <2>2, <3>2, <3>4
  <2> QED BY <2>2, <2>3
<1>7. (CHOOSE m \in having : \A h \in having : h <= m) \in having
  BY <1>6
<1> QED BY <1>3, <1>5, <1>7

\* In every module the mutants found are those.
LEMMA BlamesTheMutants ==
  ASSUME NEW modules \in Seq(STRING), NEW files, NEW errors, KeysApart(modules, files),
         \A m \in ToSet(modules) : files[m] \in Seq(TypedFunctions),
         \A m \in ToSet(modules) : \A e \in errors[m] :
            IsPlaced(Types!FileText(files[m]), files[m], e.line)
  PROVE  Types!MapErrorsToMutants(modules, files, errors) =
            UNION {{[module |-> m, name |-> v] : v \in NewlyWrong(Types!FileText(files[m]), errors[m])} :
                   m \in ToSet(modules)}
<1> DEFINE Text(m) == Types!FileText(files[m])
           variants(m) == {n \in {Text(m)[i].def : i \in DOMAIN Text(m)} : n.nr > 0}
           caught(m) == {v \in variants(m) : Types!NewErrors(Text(m), errors[m], v) # {}}
           wrong(m) == NewlyWrong(Text(m), errors[m])
           Found(m) == {Types!MutantNamed(modules, files, n) : n \in caught(m)}
           Named(m) == {[module |-> m, name |-> v] : v \in wrong(m)}
<1>1. Types!MapErrorsToMutants(modules, files, errors) = UNION {Found(m) : m \in ToSet(modules)}
  BY DEF Types!MapErrorsToMutants, Types!ToSet, ToSet
<1>2. ASSUME NEW m \in ToSet(modules) PROVE Found(m) = Named(m)
  <2>1. PICK i \in DOMAIN modules : modules[i] = m
    BY DEF ToSet
  <2> DEFINE text == Text(m)
             functions == files[m]
  <2>2. IsText(text, functions)
    <3> HIDE DEF functions
    <3>1. functions \in Seq(TypedFunctions)
      BY DEF functions
    <3>2. IsText(Types!FileText(functions), functions)
      BY <3>1, FileIsText
    <3> QED BY <3>2 DEF functions
  <2>3. \A e \in errors[m] : IsPlaced(text, functions, e.line)
    OBVIOUS
  <2>4. caught(m) = wrong(m)
    <3>1. WrongVariants(text, errors[m]) = NewlyWrong(text, errors[m])
      <4> HIDE DEF text, functions
      <4> QED BY <2>2, <2>3, NewErrorsAreItsOwn
    <3> QED BY <3>1 DEF WrongVariants
  <2>5. ASSUME NEW v \in wrong(m) PROVE Types!MutantNamed(modules, files, v) = [module |-> m, name |-> v]
    <3>1. PICK e \in errors[m] : v = text[e.line].of
      BY DEF NewlyWrong
    <3>2. /\ e.line \in 1..Len(text) /\ v # Types!NoName
          /\ IsPlaced(text, functions, e.line)
      BY <2>3, <3>1 DEF IsPlaced
    <3>3. e.line \in DOMAIN text
      <4> HIDE DEF text
      <4>1. DOMAIN text = 1..Len(text)
        BY <2>2, LenProperties DEF IsText
      <4> QED BY <3>2, <4>1
    <3>4. IsLine(text, functions, e.line)
      <4> HIDE DEF text, functions
      <4> QED BY <2>2, <3>3 DEF IsText
    <3>5. PICK k \in DOMAIN functions : functions[k].key = v.key /\ v.nr + 1 \in DOMAIN functions[k].bodies
      BY <3>1, <3>2, <3>4 DEF IsLine
    <3>6. k \in DOMAIN files[modules[i]] /\ files[modules[i]][k].key = v.key
          /\ v.nr + 1 \in DOMAIN files[modules[i]][k].bodies
      BY <2>1, <3>5
    <3>7. Types!MutantNamed(modules, files, v) = [module |-> modules[i], name |-> v]
      BY ONLY modules \in Seq(STRING), KeysApart(modules, files), <3>6, VariantIsFound
    <3> QED BY <2>1, <3>7
  <2> HIDE DEF caught, wrong
  <2> QED BY <2>4, <2>5
<1> HIDE DEF Found
<1>3. {Found(m) : m \in ToSet(modules)} = {Named(m) : m \in ToSet(modules)}
  BY <1>2
<1> QED BY <1>1, <1>3

\* What was given is of its set, and what is done is what the filter does with it.
CheckGiven ==
  subject = "check" =>
     /\ input \in Checks
     /\ done => output = Types!MapErrorsToMutants(input.modules, input.files, input.errors)

\* A mutant is taken to be caught by the type checker exactly if its text has an error that the
\* original's has not, whatever the files and the errors; unless an error is in no function that is
\* not async, or modules share a name.
THEOREM TypeErrorsFallToTheirMutant == CallsAndFiltersSpec => []TypeErrorsBlameTheirMutant
<1>1. GivenCallOrFilter /\ Unstarted => CheckGiven
  BY DEF GivenCallOrFilter, Given, Unstarted, CheckGiven
<1>2. CheckGiven /\ [CallOrFilter]_vars => CheckGiven'
  <2> SUFFICES ASSUME CheckGiven, [CallOrFilter]_vars PROVE CheckGiven'
    OBVIOUS
  <2>1. CASE Call
    BY <2>1 DEF CheckGiven, Call, Gives
  <2>2. CASE Dispatch
    BY <2>2 DEF CheckGiven, Dispatch, Gives
  <2>3. CASE Sample
    BY <2>3 DEF CheckGiven, Sample, Gives
  <2>4. CASE TypeCheck
    BY <2>4 DEF CheckGiven, TypeCheck, Gives
  <2>5. CASE ParseDiff
    BY <2>5 DEF CheckGiven, ParseDiff, Gives
  <2>6. CASE ReportTwice
    BY <2>6 DEF CheckGiven, ReportTwice, Gives
  <2>7. CASE Match
    BY <2>7 DEF CheckGiven, Match, Gives
  <2>8. CASE ImportAll
    BY <2>8 DEF CheckGiven, ImportAll, Gives
  <2>9. CASE NameMutants
    BY <2>9 DEF CheckGiven, NameMutants, Gives
  <2>10. CASE ScanText
    BY <2>10 DEF CheckGiven, ScanText, Gives
  <2>11. CASE UNCHANGED vars
    BY <2>11 DEF CheckGiven, vars
  <2> QED BY <2>1, <2>2, <2>3, <2>4, <2>5, <2>6, <2>7, <2>8, <2>9, <2>10, <2>11 DEF CallOrFilter
<1>3. CheckGiven => TypeErrorsBlameTheirMutant
  <2> DEFINE modules == input.modules
             files == input.files
             errors == input.errors
             Text(m) == Types!FileText(files[m])
  <2> SUFFICES ASSUME CheckGiven, Finished("check"), ~SharedKey,
                      \A m \in ToSet(modules) : \A e \in errors[m] : Placed(m, e)
               PROVE  output =
                      UNION {{[module |-> m, name |-> Text(m)[e.line].of] :
                                 e \in {x \in errors[m] :
                                     /\ Text(m)[x.line].of.nr > 0
                                     /\ \A y \in errors[m] :
                                           y.message = x.message =>
                                              Text(m)[y.line].of # Types!Orig(Text(m)[x.line].of)}} :
                             m \in ToSet(modules)}
    BY DEF TypeErrorsBlameTheirMutant
  <2>1. input \in Checks /\ output = Types!MapErrorsToMutants(modules, files, errors)
    BY DEF CheckGiven, Finished
  <2>2. ASSUME NEW m \in ToSet(modules)
        PROVE  /\ modules \in Seq(STRING)
               /\ files[m] \in Seq(TypedFunctions)
               /\ \A e \in errors[m] : e.line \in 1..Len(Text(m))
    BY <2>1, <2>2, InputsAssumption DEF ChecksAssumption, TypedFunctions
  <2>3. KeysApart(modules, files)
    BY DEF KeysApart, SharedKey, ToSet
  <2>4. \A m \in ToSet(modules) : \A e \in errors[m] : IsPlaced(Text(m), files[m], e.line)
    BY <2>2 DEF Placed, IsPlaced
  <2> DEFINE Wrong(m) == {Text(m)[e.line].of : e \in {x \in errors[m] :
                             /\ Text(m)[x.line].of.nr > 0
                             /\ \A y \in errors[m] :
                                   y.message = x.message =>
                                      Text(m)[y.line].of # Types!Orig(Text(m)[x.line].of)}}
  <2>5. output = UNION {{[module |-> m, name |-> v] : v \in Wrong(m)} : m \in ToSet(modules)}
    <3>1. CASE ToSet(modules) = {}
      <4>1. Types!MapErrorsToMutants(modules, files, errors) = {}
        BY <3>1 DEF Types!MapErrorsToMutants, Types!ToSet, ToSet
      <4> QED BY <2>1, <3>1, <4>1
    <3>2. CASE ToSet(modules) # {}
      <4>1. modules \in Seq(STRING)
        BY <2>2, <3>2
      <4>2. \A m \in ToSet(modules) : files[m] \in Seq(TypedFunctions)
        BY <2>2
      <4> HIDE DEF modules, files, errors
      <4> QED BY <2>1, <2>3, <2>4, <4>1, <4>2, BlamesTheMutants DEF NewlyWrong
    <3> QED BY <3>1, <3>2
  <2>6. \A m : {[module |-> m, name |-> v] : v \in Wrong(m)} =
               {[module |-> m, name |-> Text(m)[e.line].of] :
                                 e \in {x \in errors[m] :
                                     /\ Text(m)[x.line].of.nr > 0
                                     /\ \A y \in errors[m] :
                                           y.message = x.message =>
                                              Text(m)[y.line].of # Types!Orig(Text(m)[x.line].of)}}
    OBVIOUS
  <2> HIDE DEF modules, files, errors, Wrong, Text
  <2> QED BY <2>5, <2>6
<1> QED BY <1>1, <1>2, <1>3, PTL DEF CallsAndFiltersSpec
-----------------------------------------------------------------------------
(* The reports                                                              *)

\* SetToSeq lists every member of a finite set once.
LEMMA SetIsListed ==
  ASSUME NEW S, IsFiniteSet(S)
  PROVE  \E n \in Nat : /\ DOMAIN Rep!SetToSeq(S) = 1..n
                        /\ \A i \in 1..n : Rep!SetToSeq(S)[i] \in S
                        /\ \A i, j \in 1..n : Rep!SetToSeq(S)[i] = Rep!SetToSeq(S)[j] => i = j
                        /\ \A x \in S : \E i \in 1..n : Rep!SetToSeq(S)[i] = x
<1> DEFINE n == Cardinality(S)
           Lists(f) == f \in [1..n -> S] /\ IsInjective(f)
           s == CHOOSE f \in [1..n -> S] : IsInjective(f)
<1>1. n \in Nat /\ ExistsBijection(1..n, S)
  BY FS_CardinalityType
<1>2. PICK f : f \in Bijection(1..n, S)
  BY <1>1 DEF ExistsBijection
<1>3. f \in [1..n -> S] /\ IsInjective(f)
  BY <1>2 DEF Bijection, Injection
<1>4. s \in [1..n -> S] /\ IsInjective(s)
  <2> HIDE DEF n
  <2> QED BY <1>3
<1>5. Rep!SetToSeq(S) = s
  BY DEF Rep!SetToSeq, Rep!Cardinality, Rep!IsInjective, Rep!IsFiniteSet,
         Cardinality, IsInjective, IsFiniteSet
<1> HIDE DEF n, s
<1>6. s \in Injection(1..n, S)
  BY <1>4 DEF Injection
<1>7. Cardinality(1..n) = n /\ IsFiniteSet(1..n)
  BY <1>1, FS_Interval
<1>8. s \in Surjection(1..n, S)
  BY <1>6, <1>7, FS_Injection DEF n
<1>9. \A x \in S : \E i \in 1..n : s[i] = x
  BY <1>8 DEF Surjection
<1>10. DOMAIN s = 1..n /\ \A i \in 1..n : s[i] \in S
  BY <1>4
<1>11. \A i, j \in 1..n : s[i] = s[j] => i = j
  BY <1>4, <1>10 DEF IsInjective
<1> QED BY <1>1, <1>5, <1>9, <1>10, <1>11

\* A set as large as another, member by member, counts the same.
LEMMA SameCount ==
  ASSUME NEW S, NEW T, IsFiniteSet(S), NEW f \in [S -> T],
         \A x, y \in S : f[x] = f[y] => x = y,
         \A z \in T : \E x \in S : f[x] = z
  PROVE  Rep!Cardinality(S) = Rep!Cardinality(T)
<1>1. f \in Bijection(S, T)
  BY DEF Bijection, Injection, Surjection, IsInjective
<1>2. Cardinality(S) = Cardinality(T)
  BY <1>1, FS_Bijection DEF ExistsBijection
<1> QED
  BY <1>2 DEF Rep!Cardinality, Cardinality, Rep!IsFiniteSet, IsFiniteSet

\* What is taken off the front of a sequence and what is left make it up.
LEMMA FrontAndRest ==
  ASSUME NEW S, NEW f \in Seq(S), NEW k \in Nat, k < Len(f)
  PROVE  /\ SubSeq(f, 1, k) \in Seq(S) /\ Len(SubSeq(f, 1, k)) = k
         /\ SubSeq(f, k + 1, Len(f)) \in Seq(S)
         /\ Len(SubSeq(f, k + 1, Len(f))) = Len(f) - k
         /\ f = SubSeq(f, 1, k) \o SubSeq(f, k + 1, Len(f))
<1> DEFINE n == Len(f)
<1>1. n \in Nat /\ \A i \in 1..n : f[i] \in S
  BY LenProperties
<1>2. \A i \in 1..k : f[i] \in S
  BY <1>1
<1>3. \A i \in k + 1..n : f[i] \in S
  BY <1>1
<1>4. SubSeq(f, 1, k) \in Seq(S) /\ Len(SubSeq(f, 1, k)) = k
  <2> HIDE DEF n
  <2> QED BY <1>2, SubSeqProperties
<1>5. SubSeq(f, k + 1, n) \in Seq(S) /\ Len(SubSeq(f, k + 1, n)) = n - k
  <2>1. k + 1 \in Int /\ n \in Int /\ k + 1 <= n
    BY <1>1
  <2> HIDE DEF n
  <2> QED BY <1>1, <1>3, <2>1, SubSeqProperties
<1>6. SubSeq(f, 1, n) = SubSeq(f, 1, k) \o SubSeq(f, k + 1, n)
  <2>1. 1 \in 1..n + 1 /\ k \in 1 - 1..n /\ n \in k..n
    BY <1>1
  <2> QED BY <2>1, ConcatAdjacentSubSeq
<1> QED BY <1>4, <1>5, <1>6, SubSeqFull

\* A layout as it is assumed: no file without a name, and the root is no package.
IsLayout(layout) ==
  /\ layout.files \subseteq Seq(STRING) \ {<<>>, Rep!PackageFile}
  /\ layout.paths \in Seq(Seq(STRING))

\* What is stripped is a proper beginning of every file below the path.
LEMMA BaseIsAFront ==
  ASSUME NEW layout, IsLayout(layout), NEW path \in Seq(STRING),
         NEW f \in layout.files, Rep!IsPrefix(path, f)
  PROVE  \E k \in Nat : k < Len(f) /\ Rep!StripBase(layout.files, path) = SubSeq(f, 1, k)
<1> DEFINE n == Len(path)
           m == Len(f)
           base == Rep!StripBase(layout.files, path)
<1>1. f \in Seq(STRING) /\ f # <<>>
  BY DEF IsLayout
<1>2. n \in Nat /\ m \in Nat /\ n <= m /\ path = SubSeq(f, 1, n) /\ f = SubSeq(f, 1, m)
  <2>1. n <= m /\ SubSeq(path, 1, n) = SubSeq(f, 1, n)
    BY DEF Rep!IsPrefix
  <2> QED BY <1>1, <2>1, LenProperties, SubSeqFull
<1>3. \A k \in 0..n : SubSeq(path, 1, k) = SubSeq(f, 1, k)
  <2> SUFFICES ASSUME NEW k \in 0..n PROVE SubSeq(path, 1, k) = SubSeq(f, 1, k)
    OBVIOUS
  <2>1. CASE k = 0
    BY <2>1, SubSeqEmpty
  <2>2. CASE k > 0
    <3>1. SubSeq(SubSeq(f, 1, n), 1, k) = SubSeq(f, 1 + 1 - 1, 1 + k - 1)
      <4>1. k \in 1..n - 1 + 1 /\ 1 \in 1..n - 1 + 1 /\ 1 \in 1..m /\ n \in 1..m
        BY <1>2, <2>2
      <4> HIDE DEF n, m
      <4> QED BY <1>1, <4>1, SubSeqOfSubSeq DEF m
    <3> QED BY <1>2, <3>1
  <2> QED BY <2>1, <2>2
<1>4. CASE path \in layout.files
  <2> DEFINE above == {i \in 0..n - 1 : i = 0 \/ ~Rep!IsPackage(layout.files, SubSeq(path, 1, i))}
             top == CHOOSE i \in above : \A j \in above : j <= i
  <2>1. n > 0
    BY <1>2, <1>4, EmptySeq DEF IsLayout
  <2>2. \E i \in above : \A j \in above : j <= i
    <3>1. 0 \in above /\ above \subseteq 0..n - 1
      BY <1>2, <2>1
    <3> DEFINE T == {n - i : i \in above}
    <3>2. T \in SUBSET Nat /\ T # {}
      BY <1>2, <3>1
    <3>3. PICK x \in T : \A y \in T : x <= y
      BY <3>2, LeastNumber
    <3>4. PICK i \in above : x = n - i
      BY <3>3
    <3>5. \A j \in above : j <= i
      <4> TAKE j \in above
      <4>1. x <= n - j
        BY <3>3
      <4>2. i \in Nat /\ j \in Nat
        BY <3>1, <1>2
      <4> HIDE DEF n, above
      <4> QED BY <1>2, <3>4, <4>1, <4>2
    <3> QED BY <3>5
  <2>3. top \in above
    BY <2>2
  <2>4. base = SubSeq(path, 1, top)
    BY <1>4 DEF Rep!StripBase
  <2>5. top \in 0..n /\ top < m /\ top \in Nat
    BY <1>2, <2>3
  <2> HIDE DEF top
  <2> QED BY <1>3, <2>4, <2>5
<1>5. CASE path \notin layout.files /\ Rep!IsPackage(layout.files, path)
  <2>1. path # <<>>
    <3>1. <<>> \o Rep!PackageFile = Rep!PackageFile
      BY ConcatEmptySeq DEF Rep!PackageFile
    <3> QED BY <1>5, <3>1 DEF Rep!IsPackage, IsLayout
  <2>2. n > 0
    BY <2>1, EmptySeq
  <2>3. base = SubSeq(path, 1, n - 1)
    BY <1>5 DEF Rep!StripBase
  <2>4. n - 1 \in 0..n /\ n - 1 \in Nat /\ n - 1 < m
    BY <1>2, <2>2
  <2> QED BY <1>3, <2>3, <2>4
<1>6. CASE path \notin layout.files /\ ~Rep!IsPackage(layout.files, path)
  <2>1. base = path
    BY <1>6 DEF Rep!StripBase
  <2>2. n # m
    <3>1. ASSUME n = m PROVE path = f
      <4> HIDE DEF n, m
      <4> QED BY <1>2, <3>1, Zenon
    <3> QED BY <1>6, <3>1
  <2>3. n \in Nat /\ n < m
    <3> HIDE DEF n, m
    <3> QED BY <1>2, <2>2
  <2>4. base = SubSeq(f, 1, n)
    BY <1>2, <2>1
  <2> HIDE DEF n, base
  <2> QED BY <2>3, <2>4 DEF base
<1> QED BY <1>4, <1>5, <1>6

\* A mutant's file is what was stripped and what is left, and something is left.
MutantIsWhole(layout, mutant) ==
  /\ mutant.file \in layout.files /\ mutant.file \in Seq(STRING)
  /\ mutant.base \in Seq(STRING)
  /\ Rep!RelPath(mutant) \in Seq(STRING) /\ Len(Rep!RelPath(mutant)) > 0
  /\ Len(mutant.file) = Len(mutant.base) + Len(Rep!RelPath(mutant))
  /\ mutant.file = mutant.base \o Rep!RelPath(mutant)

LEMMA MutantsAreWhole ==
  ASSUME NEW layout, IsLayout(layout), NEW mutant \in Rep!MutantsOf(layout)
  PROVE  MutantIsWhole(layout, mutant)
<1>1. PICK i \in DOMAIN layout.paths, f \in layout.files :
         /\ Rep!IsPrefix(layout.paths[i], f)
         /\ mutant = [file |-> f, base |-> Rep!StripBase(layout.files, layout.paths[i])]
  BY DEF Rep!MutantsOf
<1>2. layout.paths[i] \in Seq(STRING)
  BY LenProperties, ElementOfSeq DEF IsLayout
<1>3. PICK k \in Nat : k < Len(f) /\ mutant.base = SubSeq(f, 1, k)
  BY <1>1, <1>2, BaseIsAFront
<1>4. f \in Seq(STRING) /\ Len(f) \in Nat
  BY LenProperties DEF IsLayout
<1>5. /\ mutant.base \in Seq(STRING) /\ Len(mutant.base) = k
      /\ SubSeq(f, k + 1, Len(f)) \in Seq(STRING)
      /\ Len(SubSeq(f, k + 1, Len(f))) = Len(f) - k
      /\ f = mutant.base \o SubSeq(f, k + 1, Len(f))
  <2>1. /\ SubSeq(f, 1, k) \in Seq(STRING) /\ Len(SubSeq(f, 1, k)) = k
        /\ SubSeq(f, k + 1, Len(f)) \in Seq(STRING)
        /\ Len(SubSeq(f, k + 1, Len(f))) = Len(f) - k
        /\ f = SubSeq(f, 1, k) \o SubSeq(f, k + 1, Len(f))
    BY <1>3, <1>4, FrontAndRest
  <2> QED BY <1>3, <2>1
<1>6. mutant.file = f /\ Rep!RelPath(mutant) = SubSeq(f, k + 1, Len(f))
  BY <1>1, <1>5 DEF Rep!RelPath
<1>7. Len(f) = k + (Len(f) - k) /\ Len(f) - k > 0
  BY <1>3, <1>4
<1> QED BY <1>4, <1>5, <1>6, <1>7 DEF MutantIsWhole

\* The parts of a file's name.  (That a literal is a string is not known to the provers.)
FileParts == STRING \cup {"__init__"}

LEMMA ShortSequences ==
  ASSUME NEW S, NEW r \in Seq(S)
  PROVE  /\ Len(r) = 1 => r = <<r[1]>>
         /\ Len(r) = 2 => r = <<r[1]>> \o <<r[2]>>
<1>1. \A i \in 1..Len(r) : r[i] \in S
  BY LenProperties
<1>2. ASSUME Len(r) = 1 PROVE r = <<r[1]>>
  <2>1. r[1] \in S
    BY <1>1, <1>2
  <2>2. <<r[1]>> \in Seq(S) /\ Len(<<r[1]>>) = 1
    BY <2>1
  <2>3. \A i \in 1..Len(r) : r[i] = <<r[1]>>[i]
    BY <1>2
  <2> QED BY <1>2, <2>2, <2>3, SeqEqual
<1>3. ASSUME Len(r) = 2 PROVE r = <<r[1]>> \o <<r[2]>>
  <2>1. r[1] \in S /\ r[2] \in S
    BY <1>1, <1>3
  <2>2. <<r[1]>> \in Seq(S) /\ Len(<<r[1]>>) = 1 /\ <<r[2]>> \in Seq(S) /\ Len(<<r[2]>>) = 1
    BY <2>1
  <2> DEFINE t == <<r[1]>> \o <<r[2]>>
  <2>3. t \in Seq(S) /\ Len(t) = 2 /\ t[1] = r[1] /\ t[2] = r[2]
    BY <2>2, ConcatProperties
  <2>4. \A i \in 1..Len(r) : r[i] = t[i]
    BY <1>3, <2>3
  <2> HIDE DEF t
  <2>5. r = t
    BY <1>3, <2>3, <2>4, SeqEqual
  <2> QED BY <2>5 DEF t
<1> QED BY <1>2, <1>3

\* A mutant's module name begins with the first part of its path, and is no longer than that
\* for a module or a package at the top.
LEMMA NamesBegin ==
  ASSUME NEW rel \in Seq(STRING), Len(rel) > 0
  PROVE  /\ Head(Rep!PathToModule(rel)) = rel[1]
         /\ Len(Rep!PathToModule(rel)) = 1 <=>
               rel = <<rel[1]>> \/ rel = <<rel[1]>> \o Rep!PackageFile
<1> DEFINE n == Len(rel)
           name == Rep!PathToModule(rel)
           S == FileParts
<1>1. n \in Nat /\ n > 0 /\ rel \in Seq(S) /\ rel # <<>>
  <2>1. rel \in Seq(S)
    BY SeqMonotonic DEF FileParts
  <2> QED BY <2>1, LenProperties, EmptySeq
<1>2. rel[1] \in S /\ "__init__" \in S
  BY <1>1, LenProperties DEF FileParts
<1>3. /\ Len(<<rel[1]>>) = 1 /\ <<rel[1]>> \in Seq(S)
      /\ Rep!PackageFile = <<"__init__">> /\ Len(Rep!PackageFile) = 1 /\ Rep!PackageFile \in Seq(S)
  BY <1>2 DEF Rep!PackageFile
<1>4. LET t == <<rel[1]>> \o Rep!PackageFile
      IN Len(t) = 2 /\ t[2] = "__init__"
  <2>1. \A i \in 1..1 + 1 : (<<rel[1]>> \o Rep!PackageFile)[i] =
            IF i <= 1 THEN <<rel[1]>>[i] ELSE Rep!PackageFile[i - 1]
    BY <1>3, ConcatProperties
  <2>2. (<<rel[1]>> \o Rep!PackageFile)[2] = Rep!PackageFile[1]
    <3> DEFINE one == <<rel[1]>>
               t == one \o Rep!PackageFile
    <3>1. \A i \in 1..1 + 1 : t[i] = IF i <= 1 THEN one[i] ELSE Rep!PackageFile[i - 1]
      BY <2>1
    <3> HIDE DEF one, t
    <3>2. 2 \in 1..1 + 1 /\ ~(2 <= 1) /\ 2 - 1 = 1
      OBVIOUS
    <3>3. t[2] = IF 2 <= 1 THEN one[2] ELSE Rep!PackageFile[2 - 1]
      BY <3>1, <3>2, Zenon
    <3>4. t[2] = Rep!PackageFile[1]
      BY <3>2, <3>3, Zenon
    <3> QED BY <3>4 DEF t, one
  <2>3. Len(<<rel[1]>> \o Rep!PackageFile) = 2
    BY <1>3, ConcatProperties
  <2> QED BY <1>3, <2>2, <2>3
<1>5. CASE n > 1 /\ rel[n] = "__init__"
  <2>1. name = SubSeq(rel, 1, n - 1)
    BY <1>5 DEF Rep!PathToModule, Rep!Last
  <2>2. n - 1 \in Nat /\ n - 1 < n /\ 1 \in 1..n /\ n - 1 \in 1..n
    BY <1>1, <1>5
  <2>3. Len(name) = n - 1
    <3> HIDE DEF name, S
    <3> QED BY <1>1, <2>1, <2>2, FrontAndRest
  <2>4. Head(name) = rel[1]
    BY <1>1, <2>1, <2>2, HeadTailOfSubSeq
  <2>5. n = 2 => rel = <<rel[1]>> \o Rep!PackageFile
    BY <1>1, <1>3, <1>5, ShortSequences
  <2>6. rel = <<rel[1]>> => n = 1
    BY <1>3
  <2>7. rel = <<rel[1]>> \o Rep!PackageFile => n = 2
    BY <1>4
  <2>8. Len(name) = 1 <=> n = 2
    <3> HIDE DEF n, name
    <3> QED BY <1>1, <2>3
  <2>9. n # 1
    BY <1>5
  <2> HIDE DEF n, name
  <2> QED BY <2>4, <2>5, <2>6, <2>7, <2>8, <2>9 DEF name
<1>6. CASE ~(n > 1 /\ rel[n] = "__init__")
  <2>1. name = rel
    BY <1>6 DEF Rep!PathToModule, Rep!Last
  <2>2. Head(name) = rel[1]
    BY <1>1, <2>1
  <2>3. n = 1 => rel = <<rel[1]>>
    BY <1>1, ShortSequences
  <2>4. rel = <<rel[1]>> => n = 1
    BY <1>3
  <2>5. rel # <<rel[1]>> \o Rep!PackageFile
    BY <1>4, <1>6
  <2> HIDE DEF name
  <2> QED BY <2>1, <2>2, <2>3, <2>4, <2>5 DEF name
<1> QED BY <1>5, <1>6

\* No other file right below a path has the mutant's first name.
NoNamesake(layout, mutant) ==
  \A i \in DOMAIN layout.paths :
     \A f \in Rep!AtTopOf(layout.paths[i], Head(Rep!Name(mutant))) \cap layout.files :
        layout.paths[i] = mutant.base /\ f = mutant.file

LEMMA SameFront ==
  ASSUME NEW S, NEW s \in Seq(S), NEW t \in Seq(S), NEW v \in Seq(S)
  PROVE  s \o t = s \o v => t = v
<1>1. \A T : \A a, b, c \in Seq(T) : a \o b = a \o c => b = c
  BY ConcatSimplifications
<1> QED BY <1>1, Zenon

\* A file at the top of its base is one the base's name leads to, and no other is.
LEMMA AtTopOfItsBase ==
  ASSUME NEW layout, NEW mutant, MutantIsWhole(layout, mutant)
  PROVE  mutant.file \in Rep!AtTopOf(mutant.base, Head(Rep!Name(mutant)))
            <=> Len(Rep!Name(mutant)) = 1
<1> DEFINE rel == Rep!RelPath(mutant)
           base == mutant.base
           x == rel[1]
           S == FileParts
<1>1. rel \in Seq(STRING) /\ Len(rel) > 0 /\ base \in Seq(STRING) /\ mutant.file = base \o rel
  BY DEF MutantIsWhole
<1>2. rel \in Seq(S) /\ base \in Seq(S)
  BY <1>1, SeqMonotonic DEF FileParts
<1>3. Len(rel) \in Nat /\ x \in S
  BY <1>1, <1>2, LenProperties
<1>4. Head(Rep!Name(mutant)) = x
  BY <1>1, NamesBegin DEF Rep!Name
<1>5. Len(Rep!Name(mutant)) = 1 <=> rel = <<x>> \/ rel = <<x>> \o Rep!PackageFile
  BY <1>1, NamesBegin DEF Rep!Name
<1> DEFINE one == <<x>>
<1>6. one \in Seq(S) /\ Rep!PackageFile \in Seq(S)
  BY <1>3 DEF Rep!PackageFile, FileParts
<1>7. mutant.file \in Rep!AtTopOf(base, x)
          <=> mutant.file = (base \o one) \o Rep!PackageFile \/ mutant.file = base \o one
  BY DEF Rep!AtTopOf
<1>8. Len(Rep!Name(mutant)) = 1 <=> rel = one \/ rel = one \o Rep!PackageFile
  BY <1>5
<1> HIDE DEF rel, x, one, base, S
<1>9. one \o Rep!PackageFile \in Seq(S)
  BY <1>6, ConcatProperties
<1>10. (base \o one) \o Rep!PackageFile = base \o (one \o Rep!PackageFile)
  BY <1>2, <1>6, ConcatAssociative
<1>11. base \o rel = base \o one <=> rel = one
  <2>1. rel \in Seq(S) /\ base \in Seq(S) /\ one \in Seq(S)
    BY <1>2, <1>6
  <2>2. base \o rel = base \o one => rel = one
    BY ONLY <2>1, SameFront, Zenon
  <2> QED BY <2>2
<1>12. base \o rel = base \o (one \o Rep!PackageFile) <=> rel = one \o Rep!PackageFile
  <2>1. rel \in Seq(S) /\ base \in Seq(S) /\ one \o Rep!PackageFile \in Seq(S)
    BY <1>2, <1>9
  <2>2. base \o rel = base \o (one \o Rep!PackageFile) => rel = one \o Rep!PackageFile
    BY ONLY <2>1, SameFront, Zenon
  <2> QED BY <2>2
<1> QED BY <1>1, <1>4, <1>7, <1>8, <1>10, <1>11, <1>12 DEF base

\* Without a descriptor the report finds the file of a mutant exactly if it is at the top of a
\* source root, as long as there is no namesake.
LEMMA KeyIsTheFile ==
  ASSUME NEW layout, IsLayout(layout), NEW mutant \in Rep!MutantsOf(layout),
         NoNamesake(layout, mutant)
  PROVE  Rep!DeriveFileKey(layout, mutant) = mutant.file
            <=> /\ mutant.base \in Rep!ToSet(layout.paths)
                /\ Len(Rep!Name(mutant)) = 1
<1> DEFINE top == Head(Rep!Name(mutant))
           paths == layout.paths
           Found(i) == Rep!AtTopOf(paths[i], top) \cap layout.files
           having == {i \in DOMAIN paths : Found(i) # {}}
           least == CHOOSE i \in having : \A j \in having : i <= j
           first == paths[least] \o <<top>>
           key == Rep!DeriveFileKey(layout, mutant)
<1>1. MutantIsWhole(layout, mutant)
  BY MutantsAreWhole
<1>2. mutant.file \in layout.files
  BY <1>1 DEF MutantIsWhole
<1>3. key = IF having = {} THEN paths[1] \o <<top>>
            ELSE IF Rep!IsPackage(layout.files, first) THEN first \o Rep!PackageFile ELSE first
  BY DEF Rep!DeriveFileKey
<1>4. \A i \in DOMAIN paths : \A f \in Found(i) : paths[i] = mutant.base /\ f = mutant.file
  BY DEF NoNamesake
<1>5. 1 \in DOMAIN paths /\ DOMAIN paths \subseteq Nat
  <2>1. DOMAIN paths = 1..Len(paths) /\ Len(paths) \in Nat
    BY LenProperties DEF IsLayout
  <2>2. \E i \in DOMAIN paths : TRUE
    BY DEF Rep!MutantsOf
  <2> QED BY <2>1, <2>2
<1>6. \A i : Found(i) = {paths[i] \o <<top>> \o Rep!PackageFile, paths[i] \o <<top>>} \cap layout.files
  BY DEF Rep!AtTopOf
<1>7. mutant.file \in Rep!AtTopOf(mutant.base, top) <=> Len(Rep!Name(mutant)) = 1
  BY <1>1, AtTopOfItsBase
<1>8. CASE having = {}
  <2>1. key = paths[1] \o <<top>>
    BY <1>3, <1>8
  <2>2. Found(1) = {}
    BY <1>5, <1>8
  <2>3. key \notin layout.files
    <3> HIDE DEF key, Found
    <3> QED BY <1>6, <2>1, <2>2
  <2>4. key # mutant.file
    BY <1>2, <2>3
  <2>5. ~(mutant.base \in Rep!ToSet(paths) /\ Len(Rep!Name(mutant)) = 1)
    <3> SUFFICES ASSUME mutant.base \in Rep!ToSet(paths), Len(Rep!Name(mutant)) = 1 PROVE FALSE
      OBVIOUS
    <3>1. PICK j \in DOMAIN paths : paths[j] = mutant.base
      BY DEF Rep!ToSet
    <3>2. mutant.file \in Found(j)
      BY <1>2, <1>7, <3>1
    <3> QED BY <1>8, <3>2
  <2> HIDE DEF key, paths
  <2> QED BY <2>4, <2>5 DEF paths, key
<1>9. CASE having # {}
  <2>1. least \in having
    <3>1. having \in SUBSET Nat
      BY <1>5
    <3>2. \E i \in having : \A j \in having : i <= j
      <4> HIDE DEF having
      <4> QED BY <1>9, <3>1, LeastNumber
    <3> HIDE DEF having
    <3> QED BY <3>2
  <2> HIDE DEF least
  <2>2. least \in DOMAIN paths /\ Found(least) # {}
    BY <2>1
  <2>3. key \in Found(least)
    <3>1. Rep!IsPackage(layout.files, first) <=> first \o Rep!PackageFile \in layout.files
      BY DEF Rep!IsPackage
    <3>2. Found(least) = {first \o Rep!PackageFile, first} \cap layout.files
      BY <1>6
    <3>3. key = IF Rep!IsPackage(layout.files, first) THEN first \o Rep!PackageFile ELSE first
      BY <1>3, <1>9
    <3> HIDE DEF first, key, Found
    <3> QED BY <2>2, <3>1, <3>2, <3>3
  <2>4. paths[least] = mutant.base /\ key = mutant.file
    <3> HIDE DEF key, Found
    <3> QED BY <1>4, <2>2, <2>3
  <2>5. mutant.base \in Rep!ToSet(paths)
    BY <2>2, <2>4 DEF Rep!ToSet
  <2>6. mutant.file \in Rep!AtTopOf(mutant.base, top)
    <3> HIDE DEF key
    <3> QED BY <2>3, <2>4
  <2> HIDE DEF key, paths
  <2> QED BY <1>7, <2>4, <2>5, <2>6 DEF key, paths
<1> QED BY <1>8, <1>9

\* The results as they are assumed.
IsResults(layout, results) ==
  /\ results \in Seq([mutant : Rep!MutantsOf(layout), status : STRING, exit_code : Int])
  /\ \A i \in DOMAIN results :
        \/ results[i].status = Rep!FromExitCode(results[i].exit_code)
        \/ results[i].status = "Timeout" /\ results[i].exit_code = -1
  /\ \A i, j \in DOMAIN results : Rep!Name(results[i].mutant) = Rep!Name(results[j].mutant) => i = j

\* What comes back of a result, and the results it comes back from.
Restored(r) ==
  [mutant |-> r.mutant, status |-> Rep!FromExitCode(r.exit_code), exit_code |-> r.exit_code]

Restores(results, stored, g) ==
  /\ g \in [DOMAIN results -> DOMAIN stored]
  /\ \A i \in DOMAIN results : stored[g[i]] = Restored(results[i])
  /\ \A i, j \in DOMAIN results : g[i] = g[j] => i = j
  /\ \A k \in DOMAIN stored : \E i \in DOMAIN results : g[i] = k

LEMMA EveryResultIsRestored ==
  ASSUME NEW layout, NEW results, IsResults(layout, results)
  PROVE  \E g : Restores(results, Rep!LoadAllMeta(Rep!WriteMetaFiles(results)), g)
<1> DEFINE meta == Rep!WriteMetaFiles(results)
           T == {Restored(results[i]) : i \in DOMAIN results}
           stored == Rep!LoadAllMeta(meta)
<1>1. stored = Rep!SetToSeq(T)
  <2>1. {[mutant |-> x.mutant, status |-> Rep!FromExitCode(x.exit_code), exit_code |-> x.exit_code] :
              x \in meta} = T
    <3> DEFINE Kept(r) == [mutant |-> r.mutant, exit_code |-> r.exit_code]
               Read(x) == [mutant |-> x.mutant, status |-> Rep!FromExitCode(x.exit_code),
                           exit_code |-> x.exit_code]
    <3>1. meta = {Kept(results[i]) : i \in DOMAIN results}
      BY DEF Rep!WriteMetaFiles
    <3>2. \A i \in DOMAIN results : Read(Kept(results[i])) = Restored(results[i])
      BY DEF Restored
    <3> HIDE DEF Kept, Read, meta
    <3>3. {Read(x) : x \in meta} = T
      BY <3>1, <3>2
    <3> QED BY <3>3 DEF Read
  <2> QED BY <2>1 DEF Rep!LoadAllMeta
<1>2. DOMAIN results = 1..Len(results) /\ Len(results) \in Nat
  BY LenProperties DEF IsResults
<1>3. IsFiniteSet(T)
  <2>1. IsFiniteSet(DOMAIN results)
    BY <1>2, FS_Interval
  <2> DEFINE f == [i \in DOMAIN results |-> Restored(results[i])]
  <2>2. f \in Surjection(DOMAIN results, T)
    BY DEF Surjection
  <2> HIDE DEF f, T
  <2> QED BY <2>1, <2>2, FS_Surjection
<1>4. PICK n \in Nat :
         /\ DOMAIN stored = 1..n
         /\ \A i \in 1..n : stored[i] \in T
         /\ \A i, j \in 1..n : stored[i] = stored[j] => i = j
         /\ \A x \in T : \E i \in 1..n : stored[i] = x
  <2> HIDE DEF T, stored
  <2> QED BY <1>1, <1>3, SetIsListed
<1> DEFINE g == [i \in DOMAIN results |-> CHOOSE k \in 1..n : stored[k] = Restored(results[i])]
<1>5. \A i \in DOMAIN results : g[i] \in 1..n /\ stored[g[i]] = Restored(results[i])
  <2> HIDE DEF stored
  <2> TAKE i \in DOMAIN results
  <2>1. \E k \in 1..n : stored[k] = Restored(results[i])
    BY <1>4
  <2> QED BY <2>1
<1>6. g \in [DOMAIN results -> DOMAIN stored]
  <2> HIDE DEF stored
  <2>1. g \in [DOMAIN results -> 1..n]
    BY <1>5
  <2> QED BY <1>4, <2>1
<1> HIDE DEF g, stored
<1>7. \A i, j \in DOMAIN results : Restored(results[i]) = Restored(results[j]) => i = j
  <2>1. \A i, j \in DOMAIN results :
           Restored(results[i]) = Restored(results[j]) => results[i].mutant = results[j].mutant
    BY DEF Restored
  <2> QED BY <2>1 DEF IsResults
<1>8. \A i, j \in DOMAIN results : g[i] = g[j] => i = j
  BY <1>5, <1>7
<1>9. \A k \in DOMAIN stored : \E i \in DOMAIN results : g[i] = k
  <2> TAKE k \in DOMAIN stored
  <2>1. PICK i \in DOMAIN results : stored[k] = Restored(results[i])
    BY <1>4
  <2>2. g[i] = k
    BY <1>4, <1>5, <2>1
  <2> QED BY <2>2
<1>10. Restores(results, stored, g)
  BY <1>5, <1>6, <1>8, <1>9 DEF Restores
<1> QED BY <1>10 DEF stored

\* Of the statuses that are counted none changes on the way.
Counted == {"Killed", "TypeCheck", "Survived"}

LEMMA CountedStatusesReturn ==
  ASSUME NEW layout, NEW results, IsResults(layout, results), NEW i \in DOMAIN results, NEW s \in Counted
  PROVE  results[i].status = s <=> Restored(results[i]).status = s
<1>1. Rep!FromExitCode(-1) = "Error"
  <2>1. -1 # 0 /\ -1 # 1 /\ -1 # 33 /\ -1 # 37
    OBVIOUS
  <2> QED BY <2>1 DEF Rep!FromExitCode
<1>2. Restored(results[i]).status = Rep!FromExitCode(results[i].exit_code)
  BY DEF Restored
<1>3. CASE results[i].status = Rep!FromExitCode(results[i].exit_code)
  BY <1>2, <1>3
<1>4. CASE results[i].status = "Timeout" /\ results[i].exit_code = -1
  <2>1. Restored(results[i]).status = "Error"
    BY <1>1, <1>2, <1>4
  <2> QED BY <1>4, <2>1 DEF Counted
<1> QED BY <1>3, <1>4 DEF IsResults

LEMMA SameCounts ==
  ASSUME NEW layout, NEW results, IsResults(layout, results), NEW stored, NEW g,
         Restores(results, stored, g), NEW s \in Counted
  PROVE  Rep!Count(results, s) = Rep!Count(stored, s)
<1> DEFINE A == {i \in DOMAIN results : results[i].status = s}
           B == {k \in DOMAIN stored : stored[k].status = s}
           f == [i \in A |-> g[i]]
<1>1. \A i \in DOMAIN results : results[i].status = s <=> stored[g[i]].status = s
  BY CountedStatusesReturn DEF Restores
<1>2. f \in [A -> B]
  BY <1>1 DEF Restores
<1>3. \A x, y \in A : f[x] = f[y] => x = y
  BY DEF Restores
<1>4. \A z \in B : \E x \in A : f[x] = z
  <2> TAKE z \in B
  <2>1. PICK x \in DOMAIN results : g[x] = z
    BY DEF Restores
  <2>2. x \in A
    BY <1>1, <2>1
  <2> QED BY <2>1, <2>2
<1>5. IsFiniteSet(A)
  <2>1. IsFiniteSet(DOMAIN results)
    <3>1. DOMAIN results = 1..Len(results) /\ Len(results) \in Nat
      BY LenProperties DEF IsResults
    <3> QED BY <3>1, FS_Interval
  <2>2. A \in SUBSET DOMAIN results
    OBVIOUS
  <2> HIDE DEF A
  <2> QED BY <2>1, <2>2, FS_Subset
<1>6. Rep!Cardinality(A) = Rep!Cardinality(B)
  <2> HIDE DEF A, B, f
  <2> QED BY <1>2, <1>3, <1>4, <1>5, SameCount
<1> QED BY <1>6 DEF Rep!Count

LEMMA SameScore ==
  ASSUME NEW layout, NEW results, IsResults(layout, results), NEW stored, NEW g,
         Restores(results, stored, g)
  PROVE  Rep!Score(results) = Rep!Score(stored)
<1>1. /\ "Killed" \in Counted /\ "TypeCheck" \in Counted /\ "Survived" \in Counted
  BY DEF Counted
<1>2. /\ Rep!Count(results, "Killed") = Rep!Count(stored, "Killed")
      /\ Rep!Count(results, "TypeCheck") = Rep!Count(stored, "TypeCheck")
      /\ Rep!Count(results, "Survived") = Rep!Count(stored, "Survived")
  BY <1>1, SameCounts
<1> QED BY <1>2 DEF Rep!Score, Rep!Killed

\* The entries of a result in the run's report and in the later one.
HasEntries(layout, results, stored, i, k) ==
  /\ Entries(Rep!BuildStrykerReport(layout, results, TRUE), results[i].mutant) = {i}
  /\ Entries(Rep!BuildStrykerReport(layout, stored, FALSE), results[i].mutant) = {k}

LEMMA EntriesAreItsOwn ==
  ASSUME NEW layout, NEW results, IsResults(layout, results), NEW stored, NEW g,
         Restores(results, stored, g), NEW i \in DOMAIN results
  PROVE  HasEntries(layout, results, stored, i, g[i])
<1>1. \A j \in DOMAIN results : results[j].mutant = results[i].mutant => j = i
  BY DEF IsResults
<1>2. Entries(Rep!BuildStrykerReport(layout, results, TRUE), results[i].mutant) = {i}
  BY <1>1 DEF Entries, Rep!BuildStrykerReport
<1>3. \A k \in DOMAIN stored : stored[k].mutant = results[i].mutant <=> k = g[i]
  <2> TAKE k \in DOMAIN stored
  <2>1. PICK j \in DOMAIN results : g[j] = k
    BY DEF Restores
  <2>2. stored[k].mutant = results[j].mutant
    <3>1. stored[g[j]] = Restored(results[j])
      BY DEF Restores
    <3>2. Restored(results[j]).mutant = results[j].mutant
      BY DEF Restored
    <3> QED BY <2>1, <3>1, <3>2
  <2> QED BY <1>1, <2>1, <2>2 DEF Restores
<1>4. g[i] \in DOMAIN stored
  BY DEF Restores
<1>5. Entries(Rep!BuildStrykerReport(layout, stored, FALSE), results[i].mutant) = {g[i]}
  BY <1>3, <1>4 DEF Entries, Rep!BuildStrykerReport
<1> QED BY <1>2, <1>5 DEF HasEntries

\* What the two reports say of a result.
EntriesAgree(layout, r, now, later) ==
  /\ later.status = IF r.status = "Timeout" THEN "RuntimeError" ELSE now.status
  /\ now.file = r.mutant.file <=> r.mutant.base = <<>>
  /\ NoNamesake(layout, r.mutant) =>
        (later.file = r.mutant.file <=>
           r.mutant.base \in Rep!ToSet(layout.paths) /\ Len(Rep!Name(r.mutant)) = 1)

LEMMA ReportsOfAResult ==
  ASSUME NEW layout, IsLayout(layout), NEW results, IsResults(layout, results), NEW stored, NEW g,
         Restores(results, stored, g), NEW i \in DOMAIN results
  PROVE  EntriesAgree(layout, results[i], Rep!BuildStrykerReport(layout, results, TRUE)[i],
                      Rep!BuildStrykerReport(layout, stored, FALSE)[g[i]])
<1> DEFINE r == results[i]
           mutant == r.mutant
           now == Rep!BuildStrykerReport(layout, results, TRUE)[i]
           later == Rep!BuildStrykerReport(layout, stored, FALSE)[g[i]]
<1>1. mutant \in Rep!MutantsOf(layout)
  <2>1. r \in [mutant : Rep!MutantsOf(layout), status : STRING, exit_code : Int]
    <3>1. results \in Seq([mutant : Rep!MutantsOf(layout), status : STRING, exit_code : Int])
      BY DEF IsResults
    <3>2. i \in 1..Len(results)
      BY <3>1, LenProperties
    <3> QED BY <3>1, <3>2, ElementOfSeq
  <2> QED BY <2>1
<1>2. MutantIsWhole(layout, mutant)
  BY <1>1, MutantsAreWhole
<1>3. now.file = Rep!RelPath(mutant) /\ now.status = Rep!StrykerStatus(r.status)
  BY DEF Rep!BuildStrykerReport
<1>4. g[i] \in DOMAIN stored /\ stored[g[i]].mutant = mutant
        /\ stored[g[i]].status = Rep!FromExitCode(r.exit_code)
  <2>1. g[i] \in DOMAIN stored /\ stored[g[i]] = Restored(results[i])
    BY DEF Restores
  <2>2. Restored(r).mutant = mutant /\ Restored(r).status = Rep!FromExitCode(r.exit_code)
    BY DEF Restored
  <2> QED BY <2>1, <2>2
<1>5. /\ later.file = Rep!DeriveFileKey(layout, mutant)
      /\ later.status = Rep!StrykerStatus(Rep!FromExitCode(r.exit_code))
  BY <1>4 DEF Rep!BuildStrykerReport
<1>6. later.status = IF r.status = "Timeout" THEN "RuntimeError" ELSE now.status
  <2> HIDE DEF r, now, later
  <2>1. CASE r.status = Rep!FromExitCode(r.exit_code)
    <3>1. r.status # "Timeout"
      BY <2>1 DEF Rep!FromExitCode
    <3> QED BY <1>3, <1>5, <2>1, <3>1
  <2>2. CASE r.status = "Timeout" /\ r.exit_code = -1
    <3>1. Rep!FromExitCode(r.exit_code) = "Error"
      <4>1. -1 # 0 /\ -1 # 1 /\ -1 # 33 /\ -1 # 37
        OBVIOUS
      <4> QED BY <2>2, <4>1 DEF Rep!FromExitCode
    <3>2. Rep!StrykerStatus("Error") = "RuntimeError"
      BY DEF Rep!StrykerStatus
    <3> QED BY <1>5, <2>2, <3>1, <3>2
  <2> QED BY <2>1, <2>2 DEF IsResults, r
<1>7. now.file = mutant.file <=> mutant.base = <<>>
  <2> DEFINE rel == Rep!RelPath(mutant)
             base == mutant.base
  <2>1. rel \in Seq(STRING) /\ base \in Seq(STRING) /\ mutant.file = base \o rel
    BY <1>2 DEF MutantIsWhole
  <2> HIDE DEF rel, base, now, mutant
  <2>2. base \o rel = rel <=> base = <<>>
    BY <2>1, ConcatEqualIffEmpty
  <2> QED BY <1>3, <2>1, <2>2 DEF rel, base
<1>8. NoNamesake(layout, mutant) =>
        (later.file = mutant.file <=>
           mutant.base \in Rep!ToSet(layout.paths) /\ Len(Rep!Name(mutant)) = 1)
  <2> HIDE DEF mutant, later
  <2> QED BY <1>1, <1>5, KeyIsTheFile
<1> HIDE DEF now, later, mutant
<1> QED BY <1>6, <1>7, <1>8 DEF EntriesAgree, now, later, mutant

\* The pairs that are written are those of the exit codes, but for a timeout.
LEMMA WrittenPairs ==
  ASSUME NEW status, NEW code, <<status, code>> \in Written
  PROVE  status = Rep!FromExitCode(code) \/ (status = "Timeout" /\ code = -1)
<1>1. \/ status = "TypeCheck" /\ code = 37
      \/ status = "NoTests" /\ code = 33
      \/ status = "Timeout" /\ code = -1
  BY DEF Written
<1>2. Rep!FromExitCode(37) = "TypeCheck" /\ Rep!FromExitCode(33) = "NoTests"
  <2>1. 33 # 0 /\ 33 # 1 /\ 37 # 0 /\ 37 # 1 /\ 37 # 33
    OBVIOUS
  <2> QED BY <2>1 DEF Rep!FromExitCode
<1> QED BY <1>1, <1>2

\* A report is asked for the results it was given; once it is there, both are.
ReportGiven ==
  subject = "report" =>
     /\ input \in Reports
     /\ done =>
          LET stored == Rep!LoadAllMeta(Rep!WriteMetaFiles(input.results))
          IN output = [now    |-> Rep!BuildStrykerReport(input.layout, input.results, TRUE),
                       later  |-> Rep!BuildStrykerReport(input.layout, stored, FALSE),
                       scores |-> {Rep!Score(input.results), Rep!Score(stored)}]

\* Whatever the project's layout and the results, the report of a run and the one made later
\* from what was stored agree on every mutant and on the score, but that a timeout comes
\* back as an error, and on the files as far as ReportsAgree says.
THEOREM StoredReportsAgree == CallsAndFiltersSpec => []ReportsAgree
<1>1. GivenCallOrFilter /\ Unstarted => ReportGiven
  BY DEF GivenCallOrFilter, Given, Unstarted, ReportGiven
<1>2. ReportGiven /\ [CallOrFilter]_vars => ReportGiven'
  <2> SUFFICES ASSUME ReportGiven, [CallOrFilter]_vars PROVE ReportGiven'
    OBVIOUS
  <2>1. CASE Call
    BY <2>1 DEF ReportGiven, Call, Gives
  <2>2. CASE Dispatch
    BY <2>2 DEF ReportGiven, Dispatch, Gives
  <2>3. CASE Sample
    BY <2>3 DEF ReportGiven, Sample, Gives
  <2>4. CASE TypeCheck
    BY <2>4 DEF ReportGiven, TypeCheck, Gives
  <2>5. CASE ParseDiff
    BY <2>5 DEF ReportGiven, ParseDiff, Gives
  <2>6. CASE ReportTwice
    BY <2>6 DEF ReportGiven, ReportTwice, Gives
  <2>7. CASE Match
    BY <2>7 DEF ReportGiven, Match, Gives
  <2>8. CASE ImportAll
    BY <2>8 DEF ReportGiven, ImportAll, Gives
  <2>9. CASE NameMutants
    BY <2>9 DEF ReportGiven, NameMutants, Gives
  <2>10. CASE ScanText
    BY <2>10 DEF ReportGiven, ScanText, Gives
  <2>11. CASE UNCHANGED vars
    BY <2>11 DEF ReportGiven, vars
  <2> QED BY <2>1, <2>2, <2>3, <2>4, <2>5, <2>6, <2>7, <2>8, <2>9, <2>10, <2>11 DEF CallOrFilter
<1>3. ReportGiven => ReportsAgree
  <2> DEFINE layout == input.layout
             results == input.results
             stored == Rep!LoadAllMeta(Rep!WriteMetaFiles(results))
             Now == Rep!BuildStrykerReport(layout, results, TRUE)
             Later == Rep!BuildStrykerReport(layout, stored, FALSE)
  <2> SUFFICES ASSUME ReportGiven, Finished("report") PROVE ReportsAgree
    BY DEF ReportsAgree
  <2>1. /\ input \in Reports /\ output.now = Now /\ output.later = Later
        /\ output.scores = {Rep!Score(results), Rep!Score(stored)}
    <3>1. input \in Reports /\ output = [now |-> Now, later |-> Later,
                                        scores |-> {Rep!Score(results), Rep!Score(stored)}]
      BY DEF ReportGiven, Finished
    <3> HIDE DEF Now, Later, results, stored
    <3> QED BY <3>1
  <2>2. IsLayout(layout) /\ IsResults(layout, results)
    <3>1. /\ IsLayout(layout)
          /\ results \in Seq([mutant : Rep!MutantsOf(layout), status : STRING, exit_code : Int])
          /\ \A i \in DOMAIN results : \/ results[i].status = Rep!FromExitCode(results[i].exit_code)
                                       \/ <<results[i].status, results[i].exit_code>> \in Written
          /\ \A i, j \in DOMAIN results :
                Rep!Name(results[i].mutant) = Rep!Name(results[j].mutant) => i = j
      BY <2>1, InputsAssumption DEF ReportsAssumption, IsLayout
    <3> HIDE DEF results, layout
    <3>2. ASSUME NEW i \in DOMAIN results, <<results[i].status, results[i].exit_code>> \in Written
          PROVE  \/ results[i].status = Rep!FromExitCode(results[i].exit_code)
                 \/ results[i].status = "Timeout" /\ results[i].exit_code = -1
      BY <3>2, WrittenPairs
    <3> QED BY <3>1, <3>2 DEF IsResults
  <2>3. PICK g : Restores(results, stored, g)
    BY <2>2, EveryResultIsRestored
  <2>4. Cardinality(output.scores) = 1
    <3>1. Rep!Score(results) = Rep!Score(stored)
      <4> HIDE DEF layout, results, stored
      <4> QED BY <2>2, <2>3, SameScore
    <3>2. output.scores = {Rep!Score(results)}
      BY <2>1, <3>1
    <3> QED BY <3>2, FS_Singleton
  <2>5. ASSUME NEW i \in DOMAIN results
        PROVE  LET r == results[i]
               IN \E n \in DOMAIN output.now, l \in DOMAIN output.later :
                    LET now   == output.now[n]
                        later == output.later[l]
                    IN /\ Entries(output.now, r.mutant) = {n} /\ Entries(output.later, r.mutant) = {l}
                       /\ later.status = IF r.status = "Timeout" THEN "RuntimeError" ELSE now.status
                       /\ Stripped(r.mutant) \/ now.file = r.mutant.file
                       /\ Namesake(r.mutant) \/ ~AtTop(r.mutant) \/ later.file = r.mutant.file
    <3>1. Entries(Now, results[i].mutant) = {i} /\ Entries(Later, results[i].mutant) = {g[i]}
      <4> HIDE DEF layout, results, stored
      <4>1. i \in DOMAIN results
        BY <2>5
      <4>2. HasEntries(layout, results, stored, i, g[i])
        BY <2>2, <2>3, <4>1, EntriesAreItsOwn
      <4> QED BY <4>2 DEF HasEntries
    <3>2. EntriesAgree(layout, results[i], Now[i], Later[g[i]])
      <4> HIDE DEF layout, results, stored
      <4> QED BY <2>2, <2>3, <2>5, ReportsOfAResult
    <3>3. i \in DOMAIN Now /\ g[i] \in DOMAIN Later
      <4>1. g[i] \in DOMAIN stored
        BY <2>3 DEF Restores
      <4> HIDE DEF stored
      <4> QED BY <4>1 DEF Rep!BuildStrykerReport
    <3>4. ~Namesake(results[i].mutant) => NoNamesake(layout, results[i].mutant)
      BY DEF Namesake, NoNamesake, ToSet
    <3>5. AtTop(results[i].mutant) <=>
             /\ results[i].mutant.base \in Rep!ToSet(layout.paths)
             /\ Len(Rep!Name(results[i].mutant)) = 1
      BY DEF AtTop, ToSet, Rep!ToSet
    <3> HIDE DEF layout, results, stored, Now, Later
    <3>6. /\ Later[g[i]].status = IF results[i].status = "Timeout" THEN "RuntimeError" ELSE Now[i].status
          /\ Stripped(results[i].mutant) \/ Now[i].file = results[i].mutant.file
          /\ \/ Namesake(results[i].mutant) \/ ~AtTop(results[i].mutant)
             \/ Later[g[i]].file = results[i].mutant.file
      BY <3>2, <3>4, <3>5 DEF EntriesAgree, Stripped
    <3> QED BY <2>1, <3>1, <3>3, <3>6
  <2>6. \A i \in DOMAIN input.results :
           LET r == input.results[i]
           IN \E n \in DOMAIN output.now, l \in DOMAIN output.later :
                LET now   == output.now[n]
                    later == output.later[l]
                IN /\ Entries(output.now, r.mutant) = {n} /\ Entries(output.later, r.mutant) = {l}
                   /\ later.status = IF r.status = "Timeout" THEN "RuntimeError" ELSE now.status
                   /\ Stripped(r.mutant) \/ now.file = r.mutant.file
                   /\ Namesake(r.mutant) \/ ~AtTop(r.mutant) \/ later.file = r.mutant.file
    BY <2>5
  <2> QED BY <2>4, <2>6 DEF ReportsAgree
<1> QED BY <1>1, <1>2, <1>3, PTL DEF CallsAndFiltersSpec

-----------------------------------------------------------------------------
(* The patterns                                                             *)

\* Where a match may stand: so much of a text and so much of a pattern is used up.  What a place
\* leads to lies ahead of it.
Grid(n, m) == (0..n) \X (0..m)

Ahead(x, y) == x[1] <= y[1] /\ x[2] <= y[2] /\ x # y

LooksAhead(step, n, m, V) ==
  /\ step \in [Grid(n, m) -> [[Grid(n, m) -> V] -> V]]
  /\ \A x \in Grid(n, m) : \A f, g \in [Grid(n, m) -> V] :
        (\A y \in Grid(n, m) : Ahead(x, y) => f[y] = g[y]) => step[x][f] = step[x][g]

\* A place that lies ahead has less left.
LEMMA LessIsLeft ==
  ASSUME NEW n \in Nat, NEW m \in Nat, NEW x \in Grid(n, m), NEW y \in Grid(n, m), Ahead(x, y)
  PROVE  (n - y[1]) + (m - y[2]) < (n - x[1]) + (m - x[2])
<1>1. x = <<x[1], x[2]>> /\ y = <<y[1], y[2]>>
  BY DEF Grid
<1>2. x[1] \in Nat /\ x[2] \in Nat /\ y[1] \in Nat /\ y[2] \in Nat
  BY DEF Grid
<1>3. x[1] # y[1] \/ x[2] # y[2]
  BY <1>1 DEF Ahead
<1>4. x[1] <= y[1] /\ x[2] <= y[2]
  BY DEF Ahead
<1> DEFINE a == x[1]
           b == x[2]
           c == y[1]
           d == y[2]
<1> HIDE DEF a, b, c, d
<1>5. a \in Nat /\ b \in Nat /\ c \in Nat /\ d \in Nat /\ a <= c /\ b <= d /\ (a # c \/ b # d)
  BY <1>2, <1>3, <1>4 DEF a, b, c, d
<1>6. (n - c) + (m - d) < (n - a) + (m - b)
  BY <1>5
<1> QED BY <1>6 DEF a, b, c, d

\* A function may be defined at every place by its values ahead.
LEMMA GridRecursion ==
  ASSUME NEW n \in Nat, NEW m \in Nat, NEW V, NEW v \in V, NEW step, LooksAhead(step, n, m, V)
  PROVE  \E f \in [Grid(n, m) -> V] : \A x \in Grid(n, m) : f[x] = step[x][f]
<1> DEFINE G == Grid(n, m)
           Left(x) == (n - x[1]) + (m - x[2])
           Good(f, k) == f \in [G -> V] /\ \A x \in G : Left(x) < k => f[x] = step[x][f]
           S == {k \in Nat : \E f : Good(f, k)}
<1>1. \A x \in G : Left(x) \in Nat /\ Left(x) < n + m + 1
  <2> TAKE x \in G
  <2>1. x[1] \in 0..n /\ x[2] \in 0..m
    BY DEF Grid
  <2> DEFINE a == x[1]
             b == x[2]
  <2>2. a \in 0..n /\ b \in 0..m
    BY <2>1
  <2> HIDE DEF a, b
  <2>3. (n - a) + (m - b) \in Nat /\ (n - a) + (m - b) < n + m + 1
    BY <2>2
  <2> QED BY <2>3 DEF a, b
<1>2. \A x, y \in G : Ahead(x, y) => Left(y) < Left(x)
  BY LessIsLeft
<1> HIDE DEF Left
<1>3. 0 \in S
  <2>1. [x \in G |-> v] \in [G -> V]
    OBVIOUS
  <2>2. \A x \in G : ~(Left(x) < 0)
    BY <1>1
  <2>3. Good([x \in G |-> v], 0)
    BY <2>1, <2>2
  <2> QED BY <2>3
<1>4. ASSUME NEW k \in Nat, k \in S PROVE k + 1 \in S
  <2>1. PICK f : Good(f, k)
    BY <1>4
  <2>2. \A x \in G : step[x][f] \in V
    BY <2>1 DEF LooksAhead
  <2> DEFINE h == [x \in G |-> IF Left(x) = k THEN step[x][f] ELSE f[x]]
  <2>3. h \in [G -> V]
    BY <2>1, <2>2
  <2>4. \A x \in G : h[x] = IF Left(x) = k THEN step[x][f] ELSE f[x]
    OBVIOUS
  <2> HIDE DEF h
  <2>5. ASSUME NEW x \in G, Left(x) < k + 1 PROVE h[x] = step[x][h]
    <3>1. \A y \in G : Ahead(x, y) => h[y] = f[y]
      <4> TAKE y \in G
      <4>1. Ahead(x, y) => Left(y) # k
        BY <1>1, <1>2, <2>5
      <4> QED BY <2>4, <4>1
    <3>2. step[x][h] = step[x][f]
      <4> HIDE DEF G
      <4> QED BY <2>1, <2>3, <2>5, <3>1 DEF LooksAhead, G
    <3>3. h[x] = step[x][f]
      <4>1. CASE Left(x) = k
        BY <2>4, <2>5, <4>1
      <4>2. CASE Left(x) # k
        <5>1. Left(x) < k
          BY <1>1, <2>5, <4>2
        <5>2. f[x] = step[x][f]
          BY <2>1, <2>5, <5>1
        <5> QED BY <2>4, <2>5, <4>2, <5>2
      <4> QED BY <4>1, <4>2
    <3> QED BY <3>2, <3>3
  <2>6. Good(h, k + 1)
    BY <2>3, <2>5
  <2> QED BY <2>6
<1>5. n + m + 1 \in S
  <2>1. n + m + 1 \in Nat
    OBVIOUS
  <2>2. Nat \subseteq S
    <3> HIDE DEF S
    <3> QED BY <1>3, <1>4, SetInduction
  <2> QED BY <2>1, <2>2
<1>6. PICK f : Good(f, n + m + 1)
  BY <1>5
<1>7. f \in [G -> V] /\ \A x \in G : f[x] = step[x][f]
  BY <1>1, <1>6
<1> QED BY <1>7

\* The first i of n are used up by the first j of m parts, of which Star may take any number and
\* the others one that fits: the rest can be cut so that every part gets its own.
Reaches(n, m, Star, Fit, i, j) ==
  \E c \in [j..m -> 0..n] :
     /\ c[j] = i /\ c[m] = n
     /\ \A k \in j + 1..m : /\ c[k - 1] <= c[k]
                            /\ k \in Star \/ (c[k] = c[k - 1] + 1 /\ <<c[k], k>> \in Fit)

\* A part takes what lies between two places.
Takes(Star, Fit, i, h, k) == k \in Star \/ (h = i + 1 /\ <<h, k>> \in Fit)

\* Where the pattern is used up, so must the text be.
LEMMA ReachesTheEnd ==
  ASSUME NEW n \in Nat, NEW m \in Nat, NEW Star, NEW Fit, NEW i \in 0..n
  PROVE  Reaches(n, m, Star, Fit, i, m) <=> i = n
<1>1. ASSUME i = n PROVE Reaches(n, m, Star, Fit, i, m)
  <2> DEFINE c == [k \in m..m |-> n]
  <2>1. c \in [m..m -> 0..n] /\ c[m] = n
    OBVIOUS
  <2>2. \A k : k \notin m + 1..m
    OBVIOUS
  <2> HIDE DEF c
  <2> QED BY <1>1, <2>1, <2>2 DEF Reaches
<1>2. Reaches(n, m, Star, Fit, i, m) => i = n
  BY DEF Reaches
<1> QED BY <1>1, <1>2

\* The next part takes what lies up to some place, and the rest leads on from there.
LEMMA ReachesByOnePart ==
  ASSUME NEW n \in Nat, NEW m \in Nat, NEW Star, NEW Fit, NEW i \in 0..n, NEW j \in 0..m, j < m
  PROVE  Reaches(n, m, Star, Fit, i, j)
            <=> \E h \in i..n : Takes(Star, Fit, i, h, j + 1) /\ Reaches(n, m, Star, Fit, h, j + 1)
<1>1. ASSUME Reaches(n, m, Star, Fit, i, j)
      PROVE  \E h \in i..n : Takes(Star, Fit, i, h, j + 1) /\ Reaches(n, m, Star, Fit, h, j + 1)
  <2>1. PICK c \in [j..m -> 0..n] :
           /\ c[j] = i /\ c[m] = n
           /\ \A k \in j + 1..m : /\ c[k - 1] <= c[k]
                                  /\ k \in Star \/ (c[k] = c[k - 1] + 1 /\ <<c[k], k>> \in Fit)
    BY <1>1 DEF Reaches
  <2> DEFINE h == c[j + 1]
             d == [k \in j + 1..m |-> c[k]]
  <2>2. j + 1 \in j + 1..m /\ (j + 1) - 1 = j /\ j + 1 \in j..m
    OBVIOUS
  <2>3. h \in 0..n /\ i <= h /\ Takes(Star, Fit, i, h, j + 1)
    <3>1. c[(j + 1) - 1] = i
      BY <2>1, <2>2
    <3>2. h \in 0..n
      BY <2>2
    <3>3. i <= h
      BY <2>1, <2>2
    <3>4. j + 1 \in Star \/ (h = i + 1 /\ <<h, j + 1>> \in Fit)
      BY <2>1, <2>2
    <3> QED BY <3>2, <3>3, <3>4 DEF Takes
  <2>4. h \in i..n
    <3> HIDE DEF h
    <3> QED BY <2>3
  <2>5. d \in [j + 1..m -> 0..n]
    <3>1. \A k \in j + 1..m : k \in j..m
      OBVIOUS
    <3> QED BY <3>1
  <2>6. d[j + 1] = h /\ d[m] = n
    BY <2>1, <2>2
  <2>7. \A k \in (j + 1) + 1..m : /\ d[k - 1] <= d[k]
                                  /\ k \in Star \/ (d[k] = d[k - 1] + 1 /\ <<d[k], k>> \in Fit)
    <3> TAKE k \in (j + 1) + 1..m
    <3>1. k \in j + 1..m /\ k - 1 \in j + 1..m
      OBVIOUS
    <3>2. d[k] = c[k] /\ d[k - 1] = c[k - 1]
      BY <3>1
    <3> HIDE DEF d
    <3> QED BY <2>1, <3>1, <3>2
  <2>8. Reaches(n, m, Star, Fit, h, j + 1)
    <3> HIDE DEF h, d
    <3> QED BY <2>5, <2>6, <2>7 DEF Reaches
  <2> HIDE DEF h
  <2> QED BY <2>3, <2>4, <2>8
<1>2. ASSUME NEW h \in i..n, Takes(Star, Fit, i, h, j + 1), Reaches(n, m, Star, Fit, h, j + 1)
      PROVE  Reaches(n, m, Star, Fit, i, j)
  <2>1. PICK d \in [j + 1..m -> 0..n] :
           /\ d[j + 1] = h /\ d[m] = n
           /\ \A k \in (j + 1) + 1..m : /\ d[k - 1] <= d[k]
                                        /\ k \in Star \/ (d[k] = d[k - 1] + 1 /\ <<d[k], k>> \in Fit)
    BY <1>2 DEF Reaches
  <2> DEFINE c == [k \in j..m |-> IF k = j THEN i ELSE d[k]]
  <2>2. c \in [j..m -> 0..n] /\ c[j] = i /\ \A k \in j + 1..m : c[k] = d[k]
    <3>1. \A k \in j..m : k = j \/ k \in j + 1..m
      OBVIOUS
    <3>2. \A k \in j + 1..m : k \in j..m /\ k # j
      OBVIOUS
    <3>3. \A k \in j..m : c[k] \in 0..n
      BY <3>1
    <3>4. j \in j..m
      OBVIOUS
    <3>5. c \in [j..m -> 0..n]
      BY <3>3
    <3> QED BY <3>2, <3>4, <3>5
  <2> HIDE DEF c
  <2>3. c[m] = n
    <3>1. m \in j + 1..m
      OBVIOUS
    <3> QED BY <2>1, <2>2, <3>1
  <2>4. \A k \in j + 1..m : /\ c[k - 1] <= c[k]
                            /\ k \in Star \/ (c[k] = c[k - 1] + 1 /\ <<c[k], k>> \in Fit)
    <3> TAKE k \in j + 1..m
    <3>1. CASE k = j + 1
      <4>1. k - 1 = j /\ c[k] = h /\ c[k - 1] = i
        BY <2>1, <2>2, <3>1
      <4> QED BY <1>2, <3>1, <4>1 DEF Takes
    <3>2. CASE k # j + 1
      <4>1. k \in (j + 1) + 1..m /\ k - 1 \in j + 1..m
        BY <3>2
      <4>2. c[k] = d[k] /\ c[k - 1] = d[k - 1]
        BY <2>2, <4>1
      <4> QED BY <2>1, <4>1, <4>2
    <3> QED BY <3>1, <3>2
  <2> QED BY <2>2, <2>3, <2>4 DEF Reaches
<1> QED BY <1>1, <1>2

\* What glob_match_bytes and glob_match_segs say of a place, by what they say of those ahead.
FollowsBytes(f, n, m, Star, Fit) ==
  \A i \in 0..n, j \in 0..m :
     f[<<i, j>>] <=>
        IF i = n THEN \A k \in j + 1..m : k \in Star
        ELSE IF j = m THEN FALSE
        ELSE IF j + 1 = m /\ m \in Star THEN TRUE
        ELSE IF j + 1 \in Star THEN f[<<i, j + 1>>] \/ f[<<i + 1, j>>]
        ELSE <<i + 1, j + 1>> \in Fit /\ f[<<i + 1, j + 1>>]

FollowsSegs(f, n, m, Star, Fit) ==
  \A i \in 0..n, j \in 0..m :
     f[<<i, j>>] <=>
        IF i = n THEN j = m \/ (j + 1 = m /\ m \in Star)
        ELSE IF j = m THEN FALSE
        ELSE IF j + 1 \in Star THEN j + 1 = m \/ \E k \in i..n : f[<<k, j + 1>>]
        ELSE <<i + 1, j + 1>> \in Fit /\ f[<<i + 1, j + 1>>]

\* A fact about places holds at all of them if it follows from those ahead.
LEMMA GridInduction ==
  ASSUME NEW n \in Nat, NEW m \in Nat, NEW P,
         \A i \in 0..n, j \in 0..m :
            (\A a \in i..n, b \in j..m : (a # i \/ b # j) => <<a, b>> \in P) => <<i, j>> \in P
  PROVE  \A i \in 0..n, j \in 0..m : <<i, j>> \in P
<1> DEFINE S == {k \in Nat : \A i \in 0..n, j \in 0..m : (n - i) + (m - j) < k => <<i, j>> \in P}
<1>1. 0 \in S
  <2>1. \A i \in 0..n, j \in 0..m : ~((n - i) + (m - j) < 0)
    OBVIOUS
  <2> QED BY <2>1
<1>2. ASSUME NEW k \in Nat, k \in S PROVE k + 1 \in S
  <2>1. ASSUME NEW i \in 0..n, NEW j \in 0..m, (n - i) + (m - j) < k + 1 PROVE <<i, j>> \in P
    <3>1. ASSUME NEW a \in i..n, NEW b \in j..m, a # i \/ b # j PROVE <<a, b>> \in P
      <4>1. a \in 0..n /\ b \in 0..m /\ (n - a) + (m - b) < k
        BY <2>1, <3>1
      <4> QED BY <1>2, <4>1
    <3> QED BY <2>1, <3>1
  <2> QED BY <2>1
<1>3. Nat \subseteq S
  <2> HIDE DEF S
  <2> QED BY <1>1, <1>2, SetInduction
<1>4. n + m + 1 \in S
  <2>1. n + m + 1 \in Nat
    OBVIOUS
  <2> HIDE DEF S
  <2> QED BY <1>3, <2>1
<1>5. \A i \in 0..n, j \in 0..m : (n - i) + (m - j) < n + m + 1
  OBVIOUS
<1> QED BY <1>4, <1>5

\* From the end of a text only parts that take nothing lead to the end of the pattern.
LEMMA ReachesFromTheEnd ==
  ASSUME NEW n \in Nat, NEW m \in Nat, NEW Star, NEW Fit, NEW j \in 0..m, j < m
  PROVE  Reaches(n, m, Star, Fit, n, j) <=> j + 1 \in Star /\ Reaches(n, m, Star, Fit, n, j + 1)
<1>1. Reaches(n, m, Star, Fit, n, j)
        <=> \E h \in n..n : Takes(Star, Fit, n, h, j + 1) /\ Reaches(n, m, Star, Fit, h, j + 1)
  BY ReachesByOnePart
<1>2. n..n = {n} /\ n # n + 1
  OBVIOUS
<1> QED BY <1>1, <1>2 DEF Takes

\* A part that may take any number takes none, or one more than from the next place.
LEMMA StarTakesAny ==
  ASSUME NEW n \in Nat, NEW m \in Nat, NEW Star, NEW Fit, NEW i \in 0..n, NEW j \in 0..m, j < m,
         j + 1 \in Star
  PROVE  /\ Reaches(n, m, Star, Fit, i, j) <=> \E h \in i..n : Reaches(n, m, Star, Fit, h, j + 1)
         /\ i < n => (Reaches(n, m, Star, Fit, i, j) <=>
                        \/ Reaches(n, m, Star, Fit, i, j + 1)
                        \/ Reaches(n, m, Star, Fit, i + 1, j))
<1>1. \A g \in 0..n :
         Reaches(n, m, Star, Fit, g, j) <=> \E h \in g..n : Reaches(n, m, Star, Fit, h, j + 1)
  BY ReachesByOnePart DEF Takes
<1>2. ASSUME i < n
      PROVE  Reaches(n, m, Star, Fit, i, j) <=>
                        \/ Reaches(n, m, Star, Fit, i, j + 1)
                        \/ Reaches(n, m, Star, Fit, i + 1, j)
  <2>1. i + 1 \in 0..n /\ i..n = {i} \cup (i + 1..n)
    BY <1>2
  <2>2. Reaches(n, m, Star, Fit, i + 1, j) <=> \E h \in i + 1..n : Reaches(n, m, Star, Fit, h, j + 1)
    BY <1>1, <2>1
  <2>3. Reaches(n, m, Star, Fit, i, j) <=> \E h \in i..n : Reaches(n, m, Star, Fit, h, j + 1)
    BY <1>1
  <2> QED BY <2>1, <2>2, <2>3
<1> QED BY <1>1, <1>2

\* Any other part takes the next one, if that fits.
LEMMA OthersTakeOne ==
  ASSUME NEW n \in Nat, NEW m \in Nat, NEW Star, NEW Fit, NEW i \in 0..n, NEW j \in 0..m, j < m,
         i < n, j + 1 \notin Star
  PROVE  Reaches(n, m, Star, Fit, i, j)
            <=> <<i + 1, j + 1>> \in Fit /\ Reaches(n, m, Star, Fit, i + 1, j + 1)
<1>1. Reaches(n, m, Star, Fit, i, j)
        <=> \E h \in i..n : Takes(Star, Fit, i, h, j + 1) /\ Reaches(n, m, Star, Fit, h, j + 1)
  BY ReachesByOnePart
<1>2. i + 1 \in i..n
  OBVIOUS
<1> QED BY <1>1, <1>2 DEF Takes

\* What glob_match_bytes says of a place is whether the end can be reached from it.
LEMMA BytesReach ==
  ASSUME NEW n \in Nat, NEW m \in Nat, NEW Star, NEW Fit, NEW f, FollowsBytes(f, n, m, Star, Fit)
  PROVE  \A i \in 0..n, j \in 0..m : f[<<i, j>>] <=> Reaches(n, m, Star, Fit, i, j)
<1> DEFINE R(i, j) == Reaches(n, m, Star, Fit, i, j)
           P == {x \in Grid(n, m) : f[x] <=> R(x[1], x[2])}
<1>1. \A a \in 0..n, b \in 0..m : <<a, b>> \in P <=> (f[<<a, b>>] <=> R(a, b))
  BY DEF Grid
<1>2. ASSUME NEW i \in 0..n, NEW j \in 0..m,
             \A a \in i..n, b \in j..m : (a # i \/ b # j) => (f[<<a, b>>] <=> R(a, b))
      PROVE  f[<<i, j>>] <=> R(i, j)
  <2>1. f[<<i, j>>] <=>
          IF i = n THEN \A k \in j + 1..m : k \in Star
          ELSE IF j = m THEN FALSE
          ELSE IF j + 1 = m /\ m \in Star THEN TRUE
          ELSE IF j + 1 \in Star THEN f[<<i, j + 1>>] \/ f[<<i + 1, j>>]
          ELSE <<i + 1, j + 1>> \in Fit /\ f[<<i + 1, j + 1>>]
    BY DEF FollowsBytes
  <2>2. j = m => (R(i, j) <=> i = n)
    BY ReachesTheEnd
  <2>3. CASE j = m
    <3>1. \A k : k \notin j + 1..m
      BY <2>3
    <3> QED BY <2>1, <2>2, <2>3, <3>1
  <2>4. CASE j < m /\ i = n
    <3>1. f[<<n, j + 1>>] <=> R(n, j + 1)
      BY <1>2, <2>4
    <3>2. f[<<n, j + 1>>] <=> \A k \in (j + 1) + 1..m : k \in Star
      <4>1. n \in 0..n /\ j + 1 \in 0..m
        BY <2>4
      <4> QED BY <4>1 DEF FollowsBytes
    <3>3. R(n, j) <=> j + 1 \in Star /\ R(n, j + 1)
      BY <2>4, ReachesFromTheEnd
    <3>4. j + 1..m = {j + 1} \cup ((j + 1) + 1..m)
      BY <2>4
    <3> HIDE DEF R
    <3> QED BY <2>1, <2>4, <3>1, <3>2, <3>3, <3>4
  <2>5. CASE j < m /\ i < n /\ j + 1 \in Star
    <3>1. /\ R(i, j) <=> \E h \in i..n : R(h, j + 1)
          /\ R(i, j) <=> R(i, j + 1) \/ R(i + 1, j)
      BY <2>5, StarTakesAny
    <3>2. /\ f[<<i, j + 1>>] <=> R(i, j + 1)
          /\ f[<<i + 1, j>>] <=> R(i + 1, j)
      <4>1. j + 1 \in j..m /\ i + 1 \in i..n /\ i \in i..n /\ j \in j..m /\ j + 1 # j /\ i + 1 # i
        BY <2>5
      <4> HIDE DEF R
      <4> QED BY <1>2, <4>1
    <3>3. j + 1 = m => R(n, j + 1)
      BY ReachesTheEnd
    <3>4. n \in i..n /\ i # n /\ j # m
      BY <2>5
    <3> HIDE DEF R
    <3> QED BY <2>1, <2>5, <3>1, <3>2, <3>3, <3>4
  <2>6. CASE j < m /\ i < n /\ j + 1 \notin Star
    <3>1. R(i, j) <=> <<i + 1, j + 1>> \in Fit /\ R(i + 1, j + 1)
      BY <2>6, OthersTakeOne
    <3>2. f[<<i + 1, j + 1>>] <=> R(i + 1, j + 1)
      <4>1. j + 1 \in j..m /\ i + 1 \in i..n /\ i + 1 # i
        BY <2>6
      <4> HIDE DEF R
      <4> QED BY <1>2, <4>1
    <3>3. i # n /\ j # m
      BY <2>6
    <3> HIDE DEF R
    <3> QED BY <2>1, <2>6, <3>1, <3>2, <3>3
  <2>7. \/ j = m
        \/ j < m /\ i = n
        \/ j < m /\ i < n /\ j + 1 \in Star
        \/ j < m /\ i < n /\ j + 1 \notin Star
    OBVIOUS
  <2> QED BY <2>3, <2>4, <2>5, <2>6, <2>7
<1>3. \A i \in 0..n, j \in 0..m :
         (\A a \in i..n, b \in j..m : (a # i \/ b # j) => <<a, b>> \in P) => <<i, j>> \in P
  <2> SUFFICES ASSUME NEW i \in 0..n, NEW j \in 0..m,
                      \A a \in i..n, b \in j..m : (a # i \/ b # j) => <<a, b>> \in P
               PROVE  <<i, j>> \in P
    OBVIOUS
  <2>1. \A a \in i..n, b \in j..m : a \in 0..n /\ b \in 0..m
    OBVIOUS
  <2> HIDE DEF P, R
  <2>2. \A a \in i..n, b \in j..m : (a # i \/ b # j) => (f[<<a, b>>] <=> R(a, b))
    BY <1>1, <2>1
  <2> QED BY <1>1, <1>2, <2>2
<1>4. \A i \in 0..n, j \in 0..m : <<i, j>> \in P
  <2> HIDE DEF P
  <2> QED BY <1>3, GridInduction
<1> QED BY <1>1, <1>4

\* The same of glob_match_segs, but for the two last parts being stars.
LEMMA SegsReach ==
  ASSUME NEW n \in Nat, NEW m \in Nat, NEW Star, NEW Fit, NEW f, FollowsSegs(f, n, m, Star, Fit)
  PROVE  \A i \in 0..n, j \in 0..m :
            /\ f[<<i, j>>] => Reaches(n, m, Star, Fit, i, j)
            /\ ~({m - 1, m} \subseteq Star) => (Reaches(n, m, Star, Fit, i, j) => f[<<i, j>>])
<1> DEFINE R(i, j) == Reaches(n, m, Star, Fit, i, j)
           D == {m - 1, m} \subseteq Star
           Agree(i, j) == (f[<<i, j>>] => R(i, j)) /\ (~D => (R(i, j) => f[<<i, j>>]))
           P == {x \in Grid(n, m) : Agree(x[1], x[2])}
<1>1. \A a \in 0..n, b \in 0..m : <<a, b>> \in P <=> Agree(a, b)
  <2> HIDE DEF R, D
  <2> QED BY DEF Grid
<1>2. ASSUME NEW i \in 0..n, NEW j \in 0..m,
             \A a \in i..n, b \in j..m : (a # i \/ b # j) => Agree(a, b)
      PROVE  Agree(i, j)
  <2>1. f[<<i, j>>] <=>
          IF i = n THEN j = m \/ (j + 1 = m /\ m \in Star)
          ELSE IF j = m THEN FALSE
          ELSE IF j + 1 \in Star THEN j + 1 = m \/ \E k \in i..n : f[<<k, j + 1>>]
          ELSE <<i + 1, j + 1>> \in Fit /\ f[<<i + 1, j + 1>>]
    BY DEF FollowsSegs
  <2>2. CASE j = m
    <3>1. R(i, j) <=> i = n
      BY <2>2, ReachesTheEnd
    <3> HIDE DEF R, D
    <3> QED BY <2>1, <2>2, <3>1
  <2>3. CASE j < m /\ i = n
    <3>1. R(n, j) <=> j + 1 \in Star /\ R(n, j + 1)
      BY <2>3, ReachesFromTheEnd
    <3>2. j + 1 = m => R(n, j + 1)
      BY ReachesTheEnd
    <3>3. j + 1 < m /\ R(n, j) => D
      <4> SUFFICES ASSUME j + 1 < m, R(n, j) PROVE D
        OBVIOUS
      <4>1. R(n, j + 1)
        BY <3>1
      <4> SUFFICES ASSUME ~D PROVE FALSE
        OBVIOUS
      <4>3. f[<<n, j + 1>>]
        <5>1. n \in i..n /\ j + 1 \in j..m /\ j + 1 # j
          BY <2>3
        <5> HIDE DEF R, D
        <5> QED BY <1>2, <4>1, <5>1
      <4>4. f[<<n, j + 1>>] <=> j + 1 = m \/ (j + 1 + 1 = m /\ m \in Star)
        <5>1. n \in 0..n /\ j + 1 \in 0..m
          BY <2>3
        <5> QED BY <5>1 DEF FollowsSegs
      <4>5. j + 1 = m - 1
        BY <4>3, <4>4
      <4>6. m \in Star
        BY <4>3, <4>4
      <4>7. j + 1 \in Star
        BY <3>1
      <4>8. m - 1 \in Star
        BY <4>5, <4>7
      <4> QED BY <4>6, <4>8
    <3>4. j # m /\ (j + 1 = m \/ j + 1 < m)
      BY <2>3
    <3> HIDE DEF R, D
    <3>5. f[<<i, j>>] <=> j + 1 = m /\ m \in Star
      BY <2>1, <2>3, <3>4
    <3>6. ASSUME f[<<i, j>>] PROVE R(i, j)
      BY <2>3, <3>1, <3>2, <3>5, <3>6
    <3>7. ASSUME ~D, R(i, j) PROVE f[<<i, j>>]
      <4>1. ~(j + 1 < m)
        BY <2>3, <3>3, <3>7
      <4>2. j + 1 \in Star
        BY <2>3, <3>1, <3>7
      <4> QED BY <3>4, <3>5, <4>1, <4>2
    <3> QED BY <3>6, <3>7
  <2>4. CASE j < m /\ i < n /\ j + 1 \in Star
    <3>1. R(i, j) <=> \E h \in i..n : R(h, j + 1)
      BY <2>4, StarTakesAny
    <3>2. \A h \in i..n : Agree(h, j + 1)
      <4>1. j + 1 \in j..m /\ j + 1 # j
        BY <2>4
      <4> HIDE DEF R, D, Agree
      <4> QED BY <1>2, <4>1
    <3>3. j + 1 = m => R(n, j + 1)
      BY ReachesTheEnd
    <3>4. n \in i..n /\ i # n /\ j # m
      BY <2>4
    <3> HIDE DEF R, D
    <3>5. f[<<i, j>>] <=> j + 1 = m \/ \E k \in i..n : f[<<k, j + 1>>]
      BY <2>1, <2>4, <3>4
    <3>6. ASSUME f[<<i, j>>] PROVE R(i, j)
      BY <3>1, <3>2, <3>3, <3>4, <3>5, <3>6
    <3>7. ASSUME ~D, R(i, j) PROVE f[<<i, j>>]
      BY <3>1, <3>2, <3>5, <3>7
    <3> QED BY <3>6, <3>7
  <2>5. CASE j < m /\ i < n /\ j + 1 \notin Star
    <3>1. R(i, j) <=> <<i + 1, j + 1>> \in Fit /\ R(i + 1, j + 1)
      BY <2>5, OthersTakeOne
    <3>2. Agree(i + 1, j + 1)
      <4>1. j + 1 \in j..m /\ i + 1 \in i..n /\ i + 1 # i
        BY <2>5
      <4> HIDE DEF R, D, Agree
      <4> QED BY <1>2, <4>1
    <3>3. i # n /\ j # m
      BY <2>5
    <3> HIDE DEF R, D
    <3>4. f[<<i, j>>] <=> <<i + 1, j + 1>> \in Fit /\ f[<<i + 1, j + 1>>]
      BY <2>1, <2>5, <3>3
    <3> QED BY <3>1, <3>2, <3>4
  <2>6. \/ j = m
        \/ j < m /\ i = n
        \/ j < m /\ i < n /\ j + 1 \in Star
        \/ j < m /\ i < n /\ j + 1 \notin Star
    OBVIOUS
  <2> HIDE DEF Agree
  <2> QED BY <2>2, <2>3, <2>4, <2>5, <2>6
<1>3. \A i \in 0..n, j \in 0..m :
         (\A a \in i..n, b \in j..m : (a # i \/ b # j) => <<a, b>> \in P) => <<i, j>> \in P
  <2> SUFFICES ASSUME NEW i \in 0..n, NEW j \in 0..m,
                      \A a \in i..n, b \in j..m : (a # i \/ b # j) => <<a, b>> \in P
               PROVE  <<i, j>> \in P
    OBVIOUS
  <2>1. \A a \in i..n, b \in j..m : a \in 0..n /\ b \in 0..m
    OBVIOUS
  <2> HIDE DEF P, Agree
  <2>2. \A a \in i..n, b \in j..m : (a # i \/ b # j) => Agree(a, b)
    BY <1>1, <2>1
  <2> QED BY <1>1, <1>2, <2>2
<1>4. \A i \in 0..n, j \in 0..m : <<i, j>> \in P
  <2> HIDE DEF P
  <2> QED BY <1>3, GridInduction
<1> HIDE DEF P
<1>5. \A i \in 0..n, j \in 0..m : Agree(i, j)
  <2> HIDE DEF Agree
  <2> QED BY <1>1, <1>4
<1> QED BY <1>5

\* The text and the pattern of a segment, as places: where stars are, and which characters fit.
Stars(p, star) == {k \in 1..Len(p) : p[k] = star}

Fits(s, p) == {x \in (1..Len(s)) \X (1..Len(p)) : p[x[2]] = "?" \/ s[x[1]] = p[x[2]]}

\* What glob_match_bytes does at a place with what it finds ahead.
ByteStep(g, n, m, Star, Fit, i, j) ==
  IF i = n THEN \A k \in j + 1..m : k \in Star
  ELSE IF j = m THEN FALSE
  ELSE IF j + 1 = m /\ m \in Star THEN TRUE
  ELSE IF j + 1 \in Star THEN g[<<i, j + 1>>] \/ g[<<i + 1, j>>]
  ELSE <<i + 1, j + 1>> \in Fit /\ g[<<i + 1, j + 1>>]

IsBytes(g, s, p) ==
  g = [x \in (0..Len(s)) \X (0..Len(p)) |->
         IF x[1] = Len(s) THEN \A k \in x[2] + 1..Len(p) : p[k] = "*"
         ELSE IF x[2] = Len(p) THEN FALSE
         ELSE IF x[2] + 1 = Len(p) /\ p[x[2] + 1] = "*" THEN TRUE
         ELSE CASE p[x[2] + 1] = "?" -> g[<<x[1] + 1, x[2] + 1>>]
                [] p[x[2] + 1] = "*" -> g[<<x[1], x[2] + 1>>] \/ g[<<x[1] + 1, x[2]>>]
                [] OTHER -> s[x[1] + 1] = p[x[2] + 1] /\ g[<<x[1] + 1, x[2] + 1>>]]

\* A place with both still to come, and those it looks at.
LEMMA PlacesAhead ==
  ASSUME NEW n \in Nat, NEW m \in Nat, NEW i \in 0..n, NEW j \in 0..m, i # n, j # m
  PROVE  /\ <<i, j + 1>> \in Grid(n, m) /\ Ahead(<<i, j>>, <<i, j + 1>>)
         /\ <<i + 1, j>> \in Grid(n, m) /\ Ahead(<<i, j>>, <<i + 1, j>>)
         /\ <<i + 1, j + 1>> \in Grid(n, m) /\ Ahead(<<i, j>>, <<i + 1, j + 1>>)
         /\ i + 1 \in 1..n /\ j + 1 \in 1..m
<1>1. i + 1 \in 1..n /\ j + 1 \in 1..m /\ i + 1 \in 0..n /\ j + 1 \in 0..m
  OBVIOUS
<1>2. i <= i + 1 /\ j <= j + 1 /\ i <= i /\ j <= j /\ i # i + 1 /\ j # j + 1
  OBVIOUS
<1> QED BY <1>1, <1>2 DEF Grid, Ahead

\* The function by which glob_match_bytes is defined exists and follows the pattern.
LEMMA BytesFollow ==
  ASSUME NEW s \in Seq(STRING), NEW p \in Seq(STRING)
  PROVE  FollowsBytes(CHOOSE g : IsBytes(g, s, p), Len(s), Len(p), Stars(p, "*"), Fits(s, p))
<1> DEFINE n == Len(s)
           m == Len(p)
           Star == Stars(p, "*")
           Fit == Fits(s, p)
           V == [Grid(n, m) -> BOOLEAN]
           Body(g, x) == ByteStep(g, n, m, Star, Fit, x[1], x[2])
           step == [x \in Grid(n, m) |-> [g \in V |-> Body(g, x)]]
<1>1. n \in Nat /\ m \in Nat
  OBVIOUS
<1>2. \A k \in 1..m : k \in Star <=> p[k] = "*"
  BY DEF Stars
<1>3. \A a \in 1..n, k \in 1..m : <<a, k>> \in Fit <=> p[k] = "?" \/ s[a] = p[k]
  BY DEF Fits
<1>4. \A x \in Grid(n, m) : x[1] \in 0..n /\ x[2] \in 0..m /\ x = <<x[1], x[2]>>
  BY DEF Grid
<1> HIDE DEF n, m, Star, Fit
<1>5. \A x \in Grid(n, m), g \in V : Body(g, x) \in BOOLEAN
  BY DEF ByteStep
<1>6. \A x \in Grid(n, m) : \A f, g \in V :
         (\A y \in Grid(n, m) : Ahead(x, y) => f[y] = g[y]) => Body(f, x) = Body(g, x)
  <2> SUFFICES ASSUME NEW x \in Grid(n, m), NEW f \in V, NEW g \in V,
                      \A y \in Grid(n, m) : Ahead(x, y) => f[y] = g[y]
               PROVE  Body(f, x) = Body(g, x)
    OBVIOUS
  <2> DEFINE i == x[1]
             j == x[2]
  <2>0. i \in 0..n /\ j \in 0..m /\ x = <<i, j>>
    BY <1>4
  <2> HIDE DEF i, j
  <2> SUFFICES ByteStep(f, n, m, Star, Fit, i, j) = ByteStep(g, n, m, Star, Fit, i, j)
    BY DEF i, j
  <2>1. CASE i = n \/ j = m
    BY <2>1 DEF ByteStep
  <2>2. CASE i # n /\ j # m
    <3>1. /\ f[<<i, j + 1>>] = g[<<i, j + 1>>]
          /\ f[<<i + 1, j>>] = g[<<i + 1, j>>]
          /\ f[<<i + 1, j + 1>>] = g[<<i + 1, j + 1>>]
      BY <1>1, <2>0, <2>2, PlacesAhead
    <3> QED BY <2>2, <3>1 DEF ByteStep
  <2> QED BY <2>1, <2>2
<1>7. LooksAhead(step, n, m, BOOLEAN)
  <2> HIDE DEF Body
  <2>1. step \in [Grid(n, m) -> [V -> BOOLEAN]]
    BY <1>5
  <2>2. \A x \in Grid(n, m), g \in V : step[x][g] = Body(g, x)
    OBVIOUS
  <2> HIDE DEF step
  <2>3. \A x \in Grid(n, m) : \A f, g \in V :
           (\A y \in Grid(n, m) : Ahead(x, y) => f[y] = g[y]) => step[x][f] = step[x][g]
    <3> SUFFICES ASSUME NEW x \in Grid(n, m), NEW f \in V, NEW g \in V,
                        \A y \in Grid(n, m) : Ahead(x, y) => f[y] = g[y]
                 PROVE  step[x][f] = step[x][g]
      OBVIOUS
    <3>1. Body(f, x) = Body(g, x)
      BY <1>6, Zenon
    <3>2. step[x][f] = Body(f, x) /\ step[x][g] = Body(g, x)
      BY <2>2
    <3> QED BY <3>1, <3>2
  <2> QED BY <2>1, <2>3, Zenon DEF LooksAhead
<1>8. PICK f \in V : \A x \in Grid(n, m) : f[x] = step[x][f]
  <2> HIDE DEF step
  <2> DEFINE B == BOOLEAN
  <2>1. LooksAhead(step, n, m, B) /\ B # {}
    BY <1>7
  <2> HIDE DEF B
  <2>2. \E f \in [Grid(n, m) -> B] : \A x \in Grid(n, m) : f[x] = step[x][f]
    BY <1>1, <2>1, GridRecursion
  <2> QED BY <2>2, Zenon DEF B
<1>9. \A x \in Grid(n, m) : f[x] = Body(f, x)
  <2> HIDE DEF Body
  <2> QED BY <1>8
<1> DEFINE Source(g, x) ==
         IF x[1] = n THEN \A k \in x[2] + 1..m : p[k] = "*"
         ELSE IF x[2] = m THEN FALSE
         ELSE IF x[2] + 1 = m /\ p[x[2] + 1] = "*" THEN TRUE
         ELSE CASE p[x[2] + 1] = "?" -> g[<<x[1] + 1, x[2] + 1>>]
                [] p[x[2] + 1] = "*" -> g[<<x[1], x[2] + 1>>] \/ g[<<x[1] + 1, x[2]>>]
                [] OTHER -> s[x[1] + 1] = p[x[2] + 1] /\ g[<<x[1] + 1, x[2] + 1>>]
<1>10. \A g : IsBytes(g, s, p) <=> g = [x \in Grid(n, m) |-> Source(g, x)]
  BY DEF IsBytes, Grid, n, m
<1>11. ASSUME NEW i \in 0..n, NEW j \in 0..m, NEW g
       PROVE  Source(g, <<i, j>>) <=> ByteStep(g, n, m, Star, Fit, i, j)
  <2> DEFINE x == <<i, j>>
  <2>0. x[1] = i /\ x[2] = j
    OBVIOUS
  <2>1. CASE i = n
    <3>1. \A k \in j + 1..m : k \in 1..m
      BY <1>1
    <3> QED BY <1>2, <2>1, <3>1 DEF ByteStep
  <2>2. CASE i # n /\ j = m
    BY <2>2 DEF ByteStep
  <2>3. CASE i # n /\ j # m
    <3>1. i + 1 \in 1..n /\ j + 1 \in 1..m
      BY <1>1, <2>3
    <3>2. j + 1 \in Star <=> p[j + 1] = "*"
      BY <1>2, <3>1
    <3>3. <<i + 1, j + 1>> \in Fit <=> p[j + 1] = "?" \/ s[i + 1] = p[j + 1]
      BY <1>3, <3>1
    <3>4. CASE p[j + 1] = "*"
      BY <2>3, <3>2, <3>4 DEF ByteStep
    <3>5. CASE p[j + 1] = "?"
      BY <2>3, <3>2, <3>3, <3>5 DEF ByteStep
    <3>6. CASE p[j + 1] # "*" /\ p[j + 1] # "?"
      BY <2>3, <3>2, <3>3, <3>6 DEF ByteStep
    <3> QED BY <3>4, <3>5, <3>6
  <2> QED BY <2>1, <2>2, <2>3
<1> HIDE DEF Source
<1>12. IsBytes(f, s, p)
  <2>1. \A x \in Grid(n, m) : Source(f, x) \in BOOLEAN
    <3> SUFFICES ASSUME NEW i \in 0..n, NEW j \in 0..m PROVE Source(f, <<i, j>>) \in BOOLEAN
      BY <1>4, Zenon
    <3>1. CASE i = n \/ j = m
      BY <3>1 DEF Source
    <3>2. CASE i # n /\ j # m
      <4>1. f[<<i + 1, j + 1>>] \in BOOLEAN
        BY <1>1, <3>2, PlacesAhead
      <4> QED BY <3>2, <4>1 DEF Source
    <3> QED BY <3>1, <3>2
  <2>2. \A x \in Grid(n, m) : f[x] <=> Source(f, x)
    <3> TAKE x \in Grid(n, m)
    <3>1. f[x] = Body(f, x)
      BY <1>9
    <3>2. x[1] \in 0..n /\ x[2] \in 0..m /\ x = <<x[1], x[2]>>
      BY <1>4
    <3>3. Source(f, <<x[1], x[2]>>) <=> Body(f, x)
      BY <1>11, <3>2
    <3> HIDE DEF Body
    <3> QED BY <3>1, <3>2, <3>3
  <2>3. \A x \in Grid(n, m) : f[x] = Source(f, x)
    BY <2>1, <2>2
  <2>4. f = [x \in Grid(n, m) |-> f[x]]
    OBVIOUS
  <2> QED BY <1>10, <2>3, <2>4
<1> DEFINE rest == CHOOSE g : IsBytes(g, s, p)
<1>13. IsBytes(rest, s, p)
  BY <1>12
<1> HIDE DEF rest
<1>14. ASSUME NEW i \in 0..n, NEW j \in 0..m
       PROVE  rest[<<i, j>>] <=> ByteStep(rest, n, m, Star, Fit, i, j)
  <2>1. <<i, j>> \in Grid(n, m)
    BY DEF Grid
  <2>2. rest = [x \in Grid(n, m) |-> Source(rest, x)]
    BY <1>10, <1>13
  <2>3. rest[<<i, j>>] = Source(rest, <<i, j>>)
    BY <2>1, <2>2
  <2> QED BY <1>11, <2>3
<1>15. FollowsBytes(rest, n, m, Star, Fit)
  BY <1>14 DEF FollowsBytes, ByteStep
<1> QED BY <1>15 DEF rest, n, m, Star, Fit

\* The same of a path, whose segments fit if they match.
SegFits(s, p) ==
  {x \in (1..Len(s)) \X (1..Len(p)) : Glob!GlobMatchBytes(s[x[1]], p[x[2]])}

SegStep(g, n, m, Star, Fit, i, j) ==
  IF i = n THEN j = m \/ (j + 1 = m /\ m \in Star)
  ELSE IF j = m THEN FALSE
  ELSE IF j + 1 \in Star THEN j + 1 = m \/ \E k \in i..n : g[<<k, j + 1>>]
  ELSE <<i + 1, j + 1>> \in Fit /\ g[<<i + 1, j + 1>>]

IsSegs(g, s, p) ==
  g = [x \in (0..Len(s)) \X (0..Len(p)) |->
         IF x[1] = Len(s) THEN x[2] = Len(p) \/ (x[2] + 1 = Len(p) /\ p[x[2] + 1] = Glob!AnySegments)
         ELSE IF x[2] = Len(p) THEN FALSE
         ELSE IF p[x[2] + 1] = Glob!AnySegments
         THEN x[2] + 1 = Len(p) \/ \E k \in x[1]..Len(s) : g[<<k, x[2] + 1>>]
         ELSE Glob!GlobMatchBytes(s[x[1] + 1], p[x[2] + 1]) /\ g[<<x[1] + 1, x[2] + 1>>]]

\* The function by which glob_match_segs is defined exists and follows the pattern.
LEMMA SegsFollow ==
  ASSUME NEW s \in Seq(Seq(STRING)), NEW p \in Seq(Seq(STRING))
  PROVE  FollowsSegs(CHOOSE g : IsSegs(g, s, p), Len(s), Len(p), Stars(p, Glob!AnySegments), SegFits(s, p))
<1> DEFINE n == Len(s)
           m == Len(p)
           Star == Stars(p, Glob!AnySegments)
           Fit == SegFits(s, p)
           V == [Grid(n, m) -> BOOLEAN]
           Body(g, x) == SegStep(g, n, m, Star, Fit, x[1], x[2])
           step == [x \in Grid(n, m) |-> [g \in V |-> Body(g, x)]]
<1>1. n \in Nat /\ m \in Nat
  OBVIOUS
<1>2. \A k \in 1..m : k \in Star <=> p[k] = Glob!AnySegments
  BY DEF Stars
<1>3. \A a \in 1..n, k \in 1..m : <<a, k>> \in Fit <=> Glob!GlobMatchBytes(s[a], p[k])
  BY DEF SegFits
<1>4. \A x \in Grid(n, m) : x[1] \in 0..n /\ x[2] \in 0..m /\ x = <<x[1], x[2]>>
  BY DEF Grid
<1> HIDE DEF n, m, Star, Fit
<1>5. \A x \in Grid(n, m), g \in V : Body(g, x) \in BOOLEAN
  BY DEF SegStep
<1>6. \A x \in Grid(n, m) : \A f, g \in V :
         (\A y \in Grid(n, m) : Ahead(x, y) => f[y] = g[y]) => Body(f, x) = Body(g, x)
  <2> SUFFICES ASSUME NEW x \in Grid(n, m), NEW f \in V, NEW g \in V,
                      \A y \in Grid(n, m) : Ahead(x, y) => f[y] = g[y]
               PROVE  Body(f, x) = Body(g, x)
    OBVIOUS
  <2> DEFINE i == x[1]
             j == x[2]
  <2>0. i \in 0..n /\ j \in 0..m /\ x = <<i, j>>
    BY <1>4
  <2> HIDE DEF i, j
  <2> SUFFICES SegStep(f, n, m, Star, Fit, i, j) = SegStep(g, n, m, Star, Fit, i, j)
    BY DEF i, j
  <2>1. CASE i = n \/ j = m
    BY <2>1 DEF SegStep
  <2>2. CASE i # n /\ j # m
    <3>1. f[<<i + 1, j + 1>>] = g[<<i + 1, j + 1>>]
      BY <1>1, <2>0, <2>2, PlacesAhead
    <3>2. \A k \in i..n : f[<<k, j + 1>>] = g[<<k, j + 1>>]
      <4> TAKE k \in i..n
      <4>1. k \in 0..n /\ j + 1 \in 0..m /\ i <= k /\ j <= j + 1 /\ j # j + 1
        BY <1>1, <2>0, <2>2
      <4>2. <<k, j + 1>> \in Grid(n, m) /\ Ahead(<<i, j>>, <<k, j + 1>>)
        BY <4>1 DEF Grid, Ahead
      <4> QED BY <2>0, <4>2
    <3> QED BY <2>2, <3>1, <3>2 DEF SegStep
  <2> QED BY <2>1, <2>2
<1>7. LooksAhead(step, n, m, BOOLEAN)
  <2> HIDE DEF Body
  <2>1. step \in [Grid(n, m) -> [V -> BOOLEAN]]
    BY <1>5
  <2>2. \A x \in Grid(n, m), g \in V : step[x][g] = Body(g, x)
    OBVIOUS
  <2> HIDE DEF step
  <2>3. \A x \in Grid(n, m) : \A f, g \in V :
           (\A y \in Grid(n, m) : Ahead(x, y) => f[y] = g[y]) => step[x][f] = step[x][g]
    <3> SUFFICES ASSUME NEW x \in Grid(n, m), NEW f \in V, NEW g \in V,
                        \A y \in Grid(n, m) : Ahead(x, y) => f[y] = g[y]
                 PROVE  step[x][f] = step[x][g]
      OBVIOUS
    <3>1. Body(f, x) = Body(g, x)
      BY <1>6, Zenon
    <3>2. step[x][f] = Body(f, x) /\ step[x][g] = Body(g, x)
      BY <2>2
    <3> QED BY <3>1, <3>2
  <2> QED BY <2>1, <2>3, Zenon DEF LooksAhead
<1>8. PICK f \in V : \A x \in Grid(n, m) : f[x] = step[x][f]
  <2> HIDE DEF step
  <2> DEFINE B == BOOLEAN
  <2>1. LooksAhead(step, n, m, B) /\ B # {}
    BY <1>7
  <2> HIDE DEF B
  <2>2. \E f \in [Grid(n, m) -> B] : \A x \in Grid(n, m) : f[x] = step[x][f]
    BY <1>1, <2>1, GridRecursion
  <2> QED BY <2>2, Zenon DEF B
<1>9. \A x \in Grid(n, m) : f[x] = Body(f, x)
  <2> HIDE DEF Body
  <2> QED BY <1>8
<1> DEFINE Source(g, x) ==
         IF x[1] = n THEN x[2] = m \/ (x[2] + 1 = m /\ p[x[2] + 1] = Glob!AnySegments)
         ELSE IF x[2] = m THEN FALSE
         ELSE IF p[x[2] + 1] = Glob!AnySegments
         THEN x[2] + 1 = m \/ \E k \in x[1]..n : g[<<k, x[2] + 1>>]
         ELSE Glob!GlobMatchBytes(s[x[1] + 1], p[x[2] + 1]) /\ g[<<x[1] + 1, x[2] + 1>>]
<1>10. \A g : IsSegs(g, s, p) <=> g = [x \in Grid(n, m) |-> Source(g, x)]
  BY DEF IsSegs, Grid, n, m
<1>11. ASSUME NEW i \in 0..n, NEW j \in 0..m, NEW g
       PROVE  Source(g, <<i, j>>) <=> SegStep(g, n, m, Star, Fit, i, j)
  <2> DEFINE x == <<i, j>>
  <2>0. x[1] = i /\ x[2] = j
    OBVIOUS
  <2>1. CASE i = n
    <3>1. j + 1 = m => (p[j + 1] = Glob!AnySegments <=> m \in Star)
      BY <1>1, <1>2
    <3> QED BY <2>1, <3>1 DEF SegStep
  <2>2. CASE i # n /\ j = m
    BY <2>2 DEF SegStep
  <2>3. CASE i # n /\ j # m
    <3>1. i + 1 \in 1..n /\ j + 1 \in 1..m
      BY <1>1, <2>3
    <3>2. j + 1 \in Star <=> p[j + 1] = Glob!AnySegments
      BY <1>2, <3>1
    <3>3. <<i + 1, j + 1>> \in Fit <=> Glob!GlobMatchBytes(s[i + 1], p[j + 1])
      BY <1>3, <3>1
    <3> QED BY <2>3, <3>2, <3>3 DEF SegStep
  <2> QED BY <2>1, <2>2, <2>3
<1> HIDE DEF Source
<1>12. IsSegs(f, s, p)
  <2>1. \A x \in Grid(n, m) : Source(f, x) \in BOOLEAN
    <3> SUFFICES ASSUME NEW i \in 0..n, NEW j \in 0..m PROVE Source(f, <<i, j>>) \in BOOLEAN
      BY <1>4, Zenon
    <3>1. CASE i = n \/ j = m
      BY <3>1 DEF Source
    <3>2. CASE i # n /\ j # m
      BY <3>2 DEF Source
    <3> QED BY <3>1, <3>2
  <2>2. \A x \in Grid(n, m) : f[x] <=> Source(f, x)
    <3> TAKE x \in Grid(n, m)
    <3>1. f[x] = Body(f, x)
      BY <1>9
    <3>2. x[1] \in 0..n /\ x[2] \in 0..m /\ x = <<x[1], x[2]>>
      BY <1>4
    <3>3. Source(f, <<x[1], x[2]>>) <=> Body(f, x)
      BY <1>11, <3>2
    <3> HIDE DEF Body
    <3> QED BY <3>1, <3>2, <3>3
  <2>3. \A x \in Grid(n, m) : f[x] = Source(f, x)
    BY <2>1, <2>2
  <2>4. f = [x \in Grid(n, m) |-> f[x]]
    OBVIOUS
  <2> QED BY <1>10, <2>3, <2>4
<1> DEFINE rest == CHOOSE g : IsSegs(g, s, p)
<1>13. IsSegs(rest, s, p)
  BY <1>12
<1> HIDE DEF rest
<1>14. ASSUME NEW i \in 0..n, NEW j \in 0..m
       PROVE  rest[<<i, j>>] <=> SegStep(rest, n, m, Star, Fit, i, j)
  <2>1. <<i, j>> \in Grid(n, m)
    BY DEF Grid
  <2>2. rest = [x \in Grid(n, m) |-> Source(rest, x)]
    BY <1>10, <1>13
  <2>3. rest[<<i, j>>] = Source(rest, <<i, j>>)
    BY <2>1, <2>2
  <2> QED BY <1>11, <2>3
<1>15. FollowsSegs(rest, n, m, Star, Fit)
  BY <1>14 DEF FollowsSegs, SegStep
<1> QED BY <1>15 DEF rest, n, m, Star, Fit

\* The function's value at the start is the answer.
LEMMA MatchIsAtTheStart ==
  /\ \A s, p : Glob!GlobMatchBytes(s, p) = (CHOOSE g : IsBytes(g, s, p))[<<0, 0>>]
  /\ \A s, p : Glob!GlobMatchSegs(s, p) = (CHOOSE g : IsSegs(g, s, p))[<<0, 0>>]
<1>1. \A s, p : Glob!GlobMatchBytes(s, p) = (CHOOSE g : IsBytes(g, s, p))[<<0, 0>>]
  BY DEF Glob!GlobMatchBytes, IsBytes
<1>2. \A s, p : Glob!GlobMatchSegs(s, p) = (CHOOSE g : IsSegs(g, s, p))[<<0, 0>>]
  BY DEF Glob!GlobMatchSegs, IsSegs
<1> QED BY <1>1, <1>2

\* To cut a text so that every part of the pattern takes its piece is to reach its end.
LEMMA CutsReach ==
  ASSUME NEW S, NEW s \in Seq(S), NEW T, NEW p \in Seq(T), NEW Star, NEW Fit
  PROVE  Reaches(Len(s), Len(p), Star, Fit, 0, 0)
            <=> \E c \in Glob!Cuts(s, p) : \A k \in 1..Len(p) :
                   k \in Star \/ (c[k] = c[k - 1] + 1 /\ <<c[k], k>> \in Fit)
<1>1. 0 + 1..Len(p) = 1..Len(p)
  OBVIOUS
<1> QED BY <1>1 DEF Reaches, Glob!Cuts

\* A part that takes one takes one of the text's.
LEMMA OneOfTheText ==
  ASSUME NEW S, NEW s \in Seq(S), NEW T, NEW p \in Seq(T), NEW c \in Glob!Cuts(s, p),
         NEW k \in 1..Len(p), c[k] = c[k - 1] + 1
  PROVE  c[k] \in 1..Len(s)
<1>1. Len(s) \in Nat /\ Len(p) \in Nat /\ c \in [0..Len(p) -> 0..Len(s)]
  BY DEF Glob!Cuts
<1>2. k \in 0..Len(p) /\ k - 1 \in 0..Len(p)
  BY <1>1
<1>3. c[k] \in 0..Len(s) /\ c[k - 1] \in 0..Len(s)
  BY <1>1, <1>2
<1> QED BY <1>1, <1>3

\* What the comment says of a segment is to reach its end from the start.
LEMMA SegmentReaches ==
  ASSUME NEW s \in Seq(STRING), NEW p \in Seq(STRING)
  PROVE  Glob!MatchesSegment(s, p) <=> Reaches(Len(s), Len(p), Stars(p, "*"), Fits(s, p), 0, 0)
<1>1. ASSUME NEW c \in Glob!Cuts(s, p), NEW k \in 1..Len(p)
      PROVE  \/ p[k] = "*"
             \/ c[k] = c[k - 1] + 1 /\ p[k] \in {"?", s[c[k]]}
             <=> k \in Stars(p, "*") \/ (c[k] = c[k - 1] + 1 /\ <<c[k], k>> \in Fits(s, p))
  <2>1. c[k] = c[k - 1] + 1 => c[k] \in 1..Len(s)
    BY OneOfTheText
  <2> QED BY <2>1 DEF Stars, Fits
<1>2. DOMAIN p = 1..Len(p)
  OBVIOUS
<1>3. Glob!MatchesSegment(s, p)
        <=> \E c \in Glob!Cuts(s, p) : \A k \in 1..Len(p) :
                   k \in Stars(p, "*") \/ (c[k] = c[k - 1] + 1 /\ <<c[k], k>> \in Fits(s, p))
  BY <1>1, <1>2 DEF Glob!MatchesSegment
<1> QED BY <1>3, CutsReach

\* The same of a path, when the segments match as said.
LEMMA PathReaches ==
  ASSUME NEW s \in Seq(Seq(STRING)), NEW p \in Seq(Seq(STRING)),
         \A i \in 1..Len(s), k \in 1..Len(p) :
            Glob!MatchesSegment(s[i], p[k]) <=> Glob!GlobMatchBytes(s[i], p[k])
  PROVE  Glob!Matches(s, p)
            <=> Reaches(Len(s), Len(p), Stars(p, Glob!AnySegments), SegFits(s, p), 0, 0)
<1>1. ASSUME NEW c \in Glob!Cuts(s, p), NEW k \in 1..Len(p)
      PROVE  \/ p[k] = Glob!AnySegments
             \/ c[k] = c[k - 1] + 1 /\ Glob!MatchesSegment(s[c[k]], p[k])
             <=> \/ k \in Stars(p, Glob!AnySegments)
                 \/ c[k] = c[k - 1] + 1 /\ <<c[k], k>> \in SegFits(s, p)
  <2>1. c[k] = c[k - 1] + 1 => c[k] \in 1..Len(s)
    BY OneOfTheText
  <2> QED BY <2>1 DEF Stars, SegFits
<1>2. DOMAIN p = 1..Len(p)
  OBVIOUS
<1>3. Glob!Matches(s, p)
        <=> \E c \in Glob!Cuts(s, p) : \A k \in 1..Len(p) :
                   \/ k \in Stars(p, Glob!AnySegments)
                   \/ c[k] = c[k - 1] + 1 /\ <<c[k], k>> \in SegFits(s, p)
  BY <1>1, <1>2 DEF Glob!Matches
<1> QED BY <1>3, CutsReach

\* glob_match_bytes means what is said of a segment's wildcards.
LEMMA BytesMeanTheirWildcards ==
  ASSUME NEW s \in Seq(STRING), NEW p \in Seq(STRING)
  PROVE  Glob!GlobMatchBytes(s, p) <=> Glob!MatchesSegment(s, p)
<1> DEFINE f == CHOOSE g : IsBytes(g, s, p)
<1>1. FollowsBytes(f, Len(s), Len(p), Stars(p, "*"), Fits(s, p))
  BY BytesFollow
<1> HIDE DEF f
<1>2. f[<<0, 0>>] <=> Reaches(Len(s), Len(p), Stars(p, "*"), Fits(s, p), 0, 0)
  <2>1. Len(s) \in Nat /\ Len(p) \in Nat /\ 0 \in 0..Len(s) /\ 0 \in 0..Len(p)
    OBVIOUS
  <2> QED BY <1>1, <2>1, BytesReach
<1>3. Glob!GlobMatchBytes(s, p) = f[<<0, 0>>]
  BY MatchIsAtTheStart DEF f
<1> QED BY <1>2, <1>3, SegmentReaches

\* glob_match_segs means what is said of a path's, but for two ** at the end.
LEMMA SegsMeanTheirWildcards ==
  ASSUME NEW s \in Seq(Seq(STRING)), NEW p \in Seq(Seq(STRING))
  PROVE  /\ Glob!GlobMatchSegs(s, p) => Glob!Matches(s, p)
         /\ ~({Len(p) - 1, Len(p)} \subseteq Stars(p, Glob!AnySegments))
               => (Glob!Matches(s, p) => Glob!GlobMatchSegs(s, p))
<1> DEFINE f == CHOOSE g : IsSegs(g, s, p)
           Star == Stars(p, Glob!AnySegments)
           Fit == SegFits(s, p)
<1>1. FollowsSegs(f, Len(s), Len(p), Star, Fit)
  BY SegsFollow
<1>2. Glob!GlobMatchSegs(s, p) = f[<<0, 0>>]
  BY MatchIsAtTheStart
<1>3. Glob!Matches(s, p) <=> Reaches(Len(s), Len(p), Star, Fit, 0, 0)
  <2>1. \A i \in 1..Len(s), k \in 1..Len(p) : s[i] \in Seq(STRING) /\ p[k] \in Seq(STRING)
    OBVIOUS
  <2>2. \A i \in 1..Len(s), k \in 1..Len(p) :
           Glob!MatchesSegment(s[i], p[k]) <=> Glob!GlobMatchBytes(s[i], p[k])
    BY <2>1, BytesMeanTheirWildcards
  <2> QED BY <2>2, PathReaches
<1> HIDE DEF f, Star, Fit
<1>4. /\ f[<<0, 0>>] => Reaches(Len(s), Len(p), Star, Fit, 0, 0)
      /\ ~({Len(p) - 1, Len(p)} \subseteq Star)
            => (Reaches(Len(s), Len(p), Star, Fit, 0, 0) => f[<<0, 0>>])
  <2>1. Len(s) \in Nat /\ Len(p) \in Nat /\ 0 \in 0..Len(s) /\ 0 \in 0..Len(p)
    OBVIOUS
  <2> QED BY <1>1, <2>1, SegsReach
<1> QED BY <1>2, <1>3, <1>4 DEF Star

PatternGiven ==
  subject = "pattern" =>
     input \in Patterns /\ (done => output = Glob!GlobMatchSegs(input.path, input.pattern))

\* What a pattern of the settings matches is what the comment on path_matches_glob says, however
\* long the path, but that a path that is used up does not match two ** at the end.
THEOREM PatternsMatchAsDocumented == CallsAndFiltersSpec => []GlobsMeanWhatTheySay
<1>1. GivenCallOrFilter /\ Unstarted => PatternGiven
  BY DEF GivenCallOrFilter, Given, Unstarted, PatternGiven
<1>2. PatternGiven /\ [CallOrFilter]_vars => PatternGiven'
  <2> SUFFICES ASSUME PatternGiven, [CallOrFilter]_vars PROVE PatternGiven'
    OBVIOUS
  <2>1. CASE Call
    BY <2>1 DEF PatternGiven, Call, Gives
  <2>2. CASE Dispatch
    BY <2>2 DEF PatternGiven, Dispatch, Gives
  <2>3. CASE Sample
    BY <2>3 DEF PatternGiven, Sample, Gives
  <2>4. CASE TypeCheck
    BY <2>4 DEF PatternGiven, TypeCheck, Gives
  <2>5. CASE ParseDiff
    BY <2>5 DEF PatternGiven, ParseDiff, Gives
  <2>6. CASE ReportTwice
    BY <2>6 DEF PatternGiven, ReportTwice, Gives
  <2>7. CASE Match
    BY <2>7 DEF PatternGiven, Match, Gives
  <2>8. CASE ImportAll
    BY <2>8 DEF PatternGiven, ImportAll, Gives
  <2>9. CASE NameMutants
    BY <2>9 DEF PatternGiven, NameMutants, Gives
  <2>10. CASE ScanText
    BY <2>10 DEF PatternGiven, ScanText, Gives
  <2>11. CASE UNCHANGED vars
    BY <2>11 DEF PatternGiven, vars
  <2> QED BY <2>1, <2>2, <2>3, <2>4, <2>5, <2>6, <2>7, <2>8, <2>9, <2>10, <2>11 DEF CallOrFilter
<1>3. PatternGiven => GlobsMeanWhatTheySay
  <2> DEFINE path == input.path
             pattern == input.pattern
             last == Len(pattern)
             deep == {i \in 1..last : pattern[i] = Glob!AnySegments}
  <2> SUFFICES ASSUME PatternGiven, Finished("pattern")
               PROVE  /\ output => Glob!Matches(path, pattern)
                      /\ ~({last - 1, last} \subseteq deep) => (Glob!Matches(path, pattern) => output)
    BY DEF GlobsMeanWhatTheySay
  <2>1. input \in Patterns /\ output = Glob!GlobMatchSegs(path, pattern)
    BY DEF PatternGiven, Finished
  <2>2. path \in Seq(Seq(STRING)) /\ pattern \in Seq(Seq(STRING))
    BY <2>1, InputsAssumption DEF PatternsAssumption
  <2>3. deep = Stars(pattern, Glob!AnySegments)
    BY DEF Stars
  <2> HIDE DEF path, pattern, deep
  <2>4. /\ Glob!GlobMatchSegs(path, pattern) => Glob!Matches(path, pattern)
        /\ ~({last - 1, last} \subseteq deep)
              => (Glob!Matches(path, pattern) => Glob!GlobMatchSegs(path, pattern))
    BY <2>2, <2>3, SegsMeanTheirWildcards
  <2> QED BY <2>1, <2>4
<1> QED BY <1>1, <1>2, <1>3, PTL DEF CallsAndFiltersSpec

-----------------------------------------------------------------------------
(* Imports                                                                  *)

SourceFiles == [kind : {"module", "package"}, name : Seq(STRING) \ {<<>>}]

\* What _resolve finds in mutants/ when it has not looked before.
Copy(mutants, name) ==
  IF Hook!Module(name) \in mutants THEN Hook!Module(name)
  ELSE IF Hook!Package(name) \in mutants THEN Hook!Package(name)
  ELSE Hook!Missing

Tops(mutants) == {Head(n) : n \in {f.name : f \in mutants}}

\* The finder knows the names at the top, and no more of the others than it would find.
IsFinder(finder, mutants) ==
  /\ finder = [cache |-> finder.cache, top |-> finder.top]
  /\ finder.top = Tops(mutants)
  /\ \A n \in DOMAIN finder.cache : finder.cache[n] = Copy(mutants, n)

\* What find_spec returns, whatever was asked before.
SpecOf(mutants, name) ==
  IF Head(name) = Hook!HarnessName \/ Head(name) \notin Tops(mutants) THEN Hook!Missing
  ELSE Copy(mutants, name)

\* Installed, it knows nothing but the names at the top.
LEMMA InstalledIsFinder ==
  ASSUME NEW mutants
  PROVE  IsFinder(Hook!Installed(mutants), mutants)
<1> DEFINE cache == [n \in {f.name : f \in mutants} |->
                       IF Hook!Package(n) \in mutants THEN Hook!Package(n) ELSE Hook!Module(n)]
<1>0. Hook!Prescan(mutants) = [cache |-> cache, top |-> Tops(mutants)]
  BY Zenon DEF Hook!Prescan, Tops
<1> HIDE DEF cache
<1>1. Hook!Installed(mutants) = [cache |-> <<>>, top |-> Tops(mutants)]
  BY <1>0 DEF Hook!Installed, Hook!InvalidateCaches
<1>2. DOMAIN <<>> = {}
  OBVIOUS
<1> QED BY <1>1, <1>2 DEF IsFinder

\* So it is after an invalidation.
LEMMA InvalidatedIsFinder ==
  ASSUME NEW mutants, NEW finder, IsFinder(finder, mutants)
  PROVE  IsFinder(Hook!InvalidateCaches(finder), mutants)
<1>1. Hook!InvalidateCaches(finder) = [cache |-> <<>>, top |-> finder.top]
  BY DEF Hook!InvalidateCaches, IsFinder
<1>2. DOMAIN <<>> = {}
  OBVIOUS
<1> QED BY <1>1, <1>2 DEF IsFinder

\* What it returns does not depend on what it was asked before.
LEMMA FinderFinds ==
  ASSUME NEW mutants, NEW finder, IsFinder(finder, mutants), NEW name
  PROVE  /\ Hook!FindSpec(finder, mutants, name) = SpecOf(mutants, name)
         /\ IsFinder(Hook!AfterSpec(finder, mutants, name), mutants)
<1>1. Hook!Resolve(finder, mutants, name) = Copy(mutants, name)
  BY DEF Hook!Resolve, IsFinder, Copy
<1>2. Hook!FindSpec(finder, mutants, name) = SpecOf(mutants, name)
  BY <1>1 DEF Hook!FindSpec, Hook!Passes, SpecOf, IsFinder
<1>3. IsFinder(Hook!AfterSpec(finder, mutants, name), mutants)
  <2>1. CASE Hook!Passes(finder, name)
    BY <2>1 DEF Hook!AfterSpec
  <2>2. CASE ~Hook!Passes(finder, name)
    <3> DEFINE cache == [n \in {name} \cup DOMAIN finder.cache |->
                           IF n = name THEN Hook!Resolve(finder, mutants, name) ELSE finder.cache[n]]
    <3>1. Hook!AfterSpec(finder, mutants, name) = [cache |-> cache, top |-> finder.top]
      BY <2>2 DEF Hook!AfterSpec, IsFinder
    <3>2. \A n \in DOMAIN cache : cache[n] = Copy(mutants, n)
      BY <1>1 DEF IsFinder
    <3> HIDE DEF cache
    <3> QED BY <3>1, <3>2 DEF IsFinder
  <2> QED BY <2>1, <2>2
<1> QED BY <1>2, <1>3

\* Without twins of a name, a copy is found in mutants/ if Python finds a file that has one.
LEMMA CopiesAreFound ==
  ASSUME NEW sources \in SUBSET SourceFiles, NEW mutants \in SUBSET sources, NEW name,
         ~({Hook!Module(name), Hook!Package(name)} \subseteq sources)
  PROVE  /\ (IF SpecOf(mutants, name) = Hook!Missing THEN Hook!FindIn(sources, name)
             ELSE SpecOf(mutants, name)) = Hook!FindIn(sources, name)
         /\ SpecOf(mutants, name) # Hook!Missing
               <=> /\ Hook!FindIn(sources, name) \in mutants
                   /\ Head(name) # Hook!HarnessName
<1> DEFINE M == Hook!Module(name)
           P == Hook!Package(name)
           found == Hook!FindIn(sources, name)
<1>1. /\ M # Hook!Missing /\ P # Hook!Missing /\ M # P /\ Hook!Missing \notin mutants
      /\ Hook!File("directory", name) \notin mutants
  BY DEF Hook!Module, Hook!Package, Hook!Missing, Hook!File, SourceFiles
<1>2. M \in mutants \/ P \in mutants => Head(name) \in Tops(mutants)
  <2>1. M.name = name /\ P.name = name
    BY DEF Hook!Module, Hook!Package, Hook!File
  <2> HIDE DEF M, P
  <2> QED BY <2>1 DEF Tops
<1>3. found \in {M, P, Hook!File("directory", name), Hook!Missing}
  BY DEF Hook!FindIn
<1>4. /\ P \in sources => found = P
      /\ P \notin sources /\ M \in sources => found = M
  BY DEF Hook!FindIn
<1> HIDE DEF M, P, found
<1>5. Copy(mutants, name) = IF M \in mutants THEN M ELSE IF P \in mutants THEN P ELSE Hook!Missing
  BY DEF Copy, M, P
<1>6. ~(M \in sources /\ P \in sources)
  BY DEF M, P
<1>7. CASE M \in mutants
  <2>1. found = M
    BY <1>4, <1>6, <1>7
  <2> QED BY <1>1, <1>2, <1>5, <1>7, <2>1 DEF SpecOf, found
<1>8. CASE P \in mutants
  <2>1. found = P /\ M \notin mutants
    BY <1>4, <1>6, <1>8
  <2> QED BY <1>1, <1>2, <1>5, <1>8, <2>1 DEF SpecOf, found
<1>9. CASE M \notin mutants /\ P \notin mutants
  <2>1. found \notin mutants /\ SpecOf(mutants, name) = Hook!Missing
    BY <1>1, <1>3, <1>5, <1>9 DEF SpecOf
  <2> QED BY <2>1 DEF found
<1> QED BY <1>7, <1>8, <1>9

\* What is found of the first i parts of a name.
IsFound(found, files, name) ==
  found = [i \in 0..Len(name) |->
             IF i = 0 THEN Hook!ThePath
             ELSE IF Hook!HoldsModules(found[i - 1]) THEN Hook!FindIn(files, SubSeq(name, 1, i))
             ELSE Hook!Missing]

\* Python finds one part of a name after the other.
LEMMA ImportGoesDown ==
  ASSUME NEW files, NEW name \in Seq(STRING)
  PROVE  \E found : IsFound(found, files, name) /\ Hook!Import(files, name) = found[Len(name)]
<1> DEFINE n == Len(name)
           Next1(i, f) == IF Hook!HoldsModules(f) THEN Hook!FindIn(files, SubSeq(name, 1, i))
                          ELSE Hook!Missing
           Is(f, k) == f = [i \in 0..k |-> IF i = 0 THEN Hook!ThePath ELSE Next1(i, f[i - 1])]
           S == {k \in Nat : \E f : Is(f, k)}
<1> HIDE DEF Next1
<1>1. 0 \in S
  <2> DEFINE f == [i \in 0..0 |-> Hook!ThePath]
  <2>1. \A i \in 0..0 : i = 0
    OBVIOUS
  <2>2. Is(f, 0)
    BY <2>1
  <2> QED BY <2>2
<1>2. ASSUME NEW k \in Nat, k \in S PROVE k + 1 \in S
  <2>1. PICK f : Is(f, k)
    BY <1>2
  <2> DEFINE h == [i \in 0..k + 1 |-> IF i = k + 1 THEN Next1(k + 1, f[k]) ELSE f[i]]
  <2>2. \A i \in 0..k + 1 : h[i] = IF i = 0 THEN Hook!ThePath ELSE Next1(i, h[i - 1])
    <3> TAKE i \in 0..k + 1
    <3>1. CASE i = k + 1
      <4>1. k \in 0..k + 1 /\ k # k + 1 /\ (k + 1) - 1 = k /\ k + 1 # 0
        OBVIOUS
      <4> QED BY <3>1, <4>1
    <3>2. CASE i # k + 1
      <4>1. i \in 0..k
        BY <3>2
      <4>2. f[i] = IF i = 0 THEN Hook!ThePath ELSE Next1(i, f[i - 1])
        BY <2>1, <4>1
      <4>3. i # 0 => i - 1 \in 0..k + 1 /\ i - 1 # k + 1
        BY <4>1
      <4> QED BY <3>2, <4>2, <4>3
    <3> QED BY <3>1, <3>2
  <2>3. Is(h, k + 1)
    <3>1. h = [i \in 0..k + 1 |-> h[i]]
      OBVIOUS
    <3> HIDE DEF h
    <3> QED BY <2>2, <3>1
  <2> HIDE DEF h, Is
  <2> QED BY <2>3
<1>3. n \in S
  <2>1. n \in Nat
    OBVIOUS
  <2> HIDE DEF S, n
  <2> QED BY <1>1, <1>2, <2>1, SetInduction
<1>4. \A f : Is(f, n) <=> IsFound(f, files, name)
  BY DEF IsFound, Next1
<1> DEFINE found == CHOOSE f : IsFound(f, files, name)
<1>5. IsFound(found, files, name)
  <2> HIDE DEF Is, n
  <2> QED BY <1>3, <1>4
<1>6. Hook!Import(files, name) = found[Len(name)]
  BY DEF Hook!Import, IsFound
<1> HIDE DEF found
<1> QED BY <1>5, <1>6

\* What an import loads for one part of a name, after what it loaded for those above.
Loaded(above, mutants, sources, part) ==
  LET spec == Hook!FindSpec(above.finder, mutants, part)
  IN IF Hook!HoldsModules(above.file)
     THEN [finder  |-> Hook!AfterSpec(above.finder, mutants, part),
           file    |-> IF spec = Hook!Missing THEN Hook!FindIn(sources, part) ELSE spec,
           mutated |-> spec # Hook!Missing]
     ELSE [finder |-> above.finder, file |-> Hook!Missing, mutated |-> FALSE]

IsLoad(load, finder, mutants, sources, name) ==
  load = [i \in 0..Len(name) |->
            IF i = 0 THEN [finder |-> finder, file |-> Hook!ThePath, mutated |-> FALSE]
            ELSE Loaded(load[i - 1], mutants, sources, SubSeq(name, 1, i))]

\* An import loads one part after the other.
LEMMA LoadGoesDown ==
  ASSUME NEW finder, NEW mutants, NEW sources, NEW name \in Seq(STRING)
  PROVE  \E load : /\ IsLoad(load, finder, mutants, sources, name)
                   /\ Hook!Load(finder, mutants, sources, name) = load[Len(name)]
<1> DEFINE n == Len(name)
           base == [finder |-> finder, file |-> Hook!ThePath, mutated |-> FALSE]
           Next1(i, f) == Loaded(f, mutants, sources, SubSeq(name, 1, i))
           Is(f, k) == f = [i \in 0..k |-> IF i = 0 THEN base ELSE Next1(i, f[i - 1])]
           S == {k \in Nat : \E f : Is(f, k)}
<1> HIDE DEF Next1, base
<1>1. 0 \in S
  <2> DEFINE f == [i \in 0..0 |-> base]
  <2>1. \A i \in 0..0 : i = 0
    OBVIOUS
  <2>2. Is(f, 0)
    BY <2>1
  <2> QED BY <2>2
<1>2. ASSUME NEW k \in Nat, k \in S PROVE k + 1 \in S
  <2>1. PICK f : Is(f, k)
    BY <1>2
  <2> DEFINE h == [i \in 0..k + 1 |-> IF i = k + 1 THEN Next1(k + 1, f[k]) ELSE f[i]]
  <2>2. \A i \in 0..k + 1 : h[i] = IF i = 0 THEN base ELSE Next1(i, h[i - 1])
    <3> TAKE i \in 0..k + 1
    <3>1. CASE i = k + 1
      <4>1. k \in 0..k + 1 /\ k # k + 1 /\ (k + 1) - 1 = k /\ k + 1 # 0
        OBVIOUS
      <4> QED BY <3>1, <4>1
    <3>2. CASE i # k + 1
      <4>1. i \in 0..k
        BY <3>2
      <4>2. f[i] = IF i = 0 THEN base ELSE Next1(i, f[i - 1])
        BY <2>1, <4>1
      <4>3. i # 0 => i - 1 \in 0..k + 1 /\ i - 1 # k + 1
        BY <4>1
      <4> QED BY <3>2, <4>2, <4>3
    <3> QED BY <3>1, <3>2
  <2>3. Is(h, k + 1)
    <3>1. h = [i \in 0..k + 1 |-> h[i]]
      OBVIOUS
    <3> HIDE DEF h
    <3> QED BY <2>2, <3>1
  <2> HIDE DEF h, Is
  <2> QED BY <2>3
<1>3. n \in S
  <2>1. n \in Nat
    OBVIOUS
  <2> HIDE DEF S, n
  <2> QED BY <1>1, <1>2, <2>1, SetInduction
<1>4. \A f : Is(f, n) <=> IsLoad(f, finder, mutants, sources, name)
  BY DEF IsLoad, Next1, base
<1> DEFINE load == CHOOSE f : IsLoad(f, finder, mutants, sources, name)
<1>5. IsLoad(load, finder, mutants, sources, name)
  <2> HIDE DEF Is, n
  <2> QED BY <1>3, <1>4
<1>6. Hook!Load(finder, mutants, sources, name) = load[Len(name)]
  BY DEF Hook!Load, IsLoad, Loaded
<1> HIDE DEF load
<1> QED BY <1>5, <1>6

\* What an event adds: an invalidation nothing, an import what it loads.
Happened(before, mutants, sources, event) ==
  LET load == Hook!Load(before.finder, mutants, sources, event)
  IN IF event = <<>>
     THEN [finder |-> Hook!InvalidateCaches(before.finder), loads |-> before.loads]
     ELSE [finder |-> load.finder,
           loads  |-> Append(before.loads, [name |-> event, file |-> load.file,
                                            mutated |-> load.mutated])]

IsHistory(state, mutants, sources, events) ==
  state = [k \in 0..Len(events) |->
             IF k = 0 THEN [finder |-> Hook!Installed(mutants), loads |-> <<>>]
             ELSE Happened(state[k - 1], mutants, sources, events[k])]

\* One event happens after the other.
LEMMA EventsHappen ==
  ASSUME NEW mutants, NEW sources, NEW events \in Seq(Seq(STRING))
  PROVE  \E state : /\ IsHistory(state, mutants, sources, events)
                    /\ Hook!Imported(mutants, sources, events) = state[Len(events)].loads
<1> DEFINE n == Len(events)
           base == [finder |-> Hook!Installed(mutants), loads |-> <<>>]
           Next1(i, f) == Happened(f, mutants, sources, events[i])
           Is(f, k) == f = [i \in 0..k |-> IF i = 0 THEN base ELSE Next1(i, f[i - 1])]
           S == {k \in Nat : \E f : Is(f, k)}
<1> HIDE DEF Next1, base
<1>1. 0 \in S
  <2> DEFINE f == [i \in 0..0 |-> base]
  <2>1. \A i \in 0..0 : i = 0
    OBVIOUS
  <2>2. Is(f, 0)
    BY <2>1
  <2> QED BY <2>2
<1>2. ASSUME NEW k \in Nat, k \in S PROVE k + 1 \in S
  <2>1. PICK f : Is(f, k)
    BY <1>2
  <2> DEFINE h == [i \in 0..k + 1 |-> IF i = k + 1 THEN Next1(k + 1, f[k]) ELSE f[i]]
  <2>2. \A i \in 0..k + 1 : h[i] = IF i = 0 THEN base ELSE Next1(i, h[i - 1])
    <3> TAKE i \in 0..k + 1
    <3>1. CASE i = k + 1
      <4>1. k \in 0..k + 1 /\ k # k + 1 /\ (k + 1) - 1 = k /\ k + 1 # 0
        OBVIOUS
      <4> QED BY <3>1, <4>1
    <3>2. CASE i # k + 1
      <4>1. i \in 0..k
        BY <3>2
      <4>2. f[i] = IF i = 0 THEN base ELSE Next1(i, f[i - 1])
        BY <2>1, <4>1
      <4>3. i # 0 => i - 1 \in 0..k + 1 /\ i - 1 # k + 1
        BY <4>1
      <4> QED BY <3>2, <4>2, <4>3
    <3> QED BY <3>1, <3>2
  <2>3. Is(h, k + 1)
    <3>1. h = [i \in 0..k + 1 |-> h[i]]
      OBVIOUS
    <3> HIDE DEF h
    <3> QED BY <2>2, <3>1
  <2> HIDE DEF h, Is
  <2> QED BY <2>3
<1>3. n \in S
  <2>1. n \in Nat
    OBVIOUS
  <2> HIDE DEF S, n
  <2> QED BY <1>1, <1>2, <2>1, SetInduction
<1>4. \A f : Is(f, n) <=> IsHistory(f, mutants, sources, events)
  BY DEF IsHistory, Next1, base
<1> DEFINE state == CHOOSE f : IsHistory(f, mutants, sources, events)
<1>5. IsHistory(state, mutants, sources, events)
  <2> HIDE DEF Is, n
  <2> QED BY <1>3, <1>4
<1>6. Hook!Imported(mutants, sources, events) = state[Len(events)].loads
  BY DEF Hook!Imported, IsHistory, Happened
<1> HIDE DEF state
<1> QED BY <1>5, <1>6

\* An import leaves the finder with nothing else than what it would find.
LEMMA LoadKeepsFinder ==
  ASSUME NEW mutants, NEW sources, NEW finder, IsFinder(finder, mutants), NEW name \in Seq(STRING),
         NEW load, IsLoad(load, finder, mutants, sources, name)
  PROVE  \A i \in 0..Len(name) : IsFinder(load[i].finder, mutants)
<1> DEFINE n == Len(name)
           S == {i \in Nat : i <= n => IsFinder(load[i].finder, mutants)}
<1>0. n \in Nat
  OBVIOUS
<1>1. 0 \in S
  <2>1. load[0] = [finder |-> finder, file |-> Hook!ThePath, mutated |-> FALSE]
    BY <1>0 DEF IsLoad
  <2> QED BY <2>1
<1>2. ASSUME NEW i \in Nat, i \in S PROVE i + 1 \in S
  <2> SUFFICES ASSUME i + 1 <= n PROVE IsFinder(load[i + 1].finder, mutants)
    OBVIOUS
  <2>1. IsFinder(load[i].finder, mutants)
    BY <1>0, <1>2
  <2>2. load[i + 1] = Loaded(load[i], mutants, sources, SubSeq(name, 1, i + 1))
    <3>1. i + 1 \in 0..n /\ i + 1 # 0 /\ (i + 1) - 1 = i
      BY <1>0
    <3> QED BY <3>1 DEF IsLoad
  <2> DEFINE part == SubSeq(name, 1, i + 1)
  <2> HIDE DEF part
  <2>3. IsFinder(Hook!AfterSpec(load[i].finder, mutants, part), mutants)
    BY <2>1, FinderFinds
  <2>4. \/ load[i + 1].finder = Hook!AfterSpec(load[i].finder, mutants, part)
        \/ load[i + 1].finder = load[i].finder
    BY <2>2 DEF Loaded, part
  <2> QED BY <2>1, <2>3, <2>4
<1>3. Nat \subseteq S
  <2> HIDE DEF S
  <2> QED BY <1>1, <1>2, SetInduction
<1> QED BY <1>0, <1>3

\* Neither the name nor one above it is that of a module and of a package.
NoTwins(sources, name) ==
  \A k \in 1..Len(name) :
     ~({Hook!Module(SubSeq(name, 1, k)), Hook!Package(SubSeq(name, 1, k))} \subseteq sources)

\* What the finder makes Python load of a name.
IsMirrored(load, original, mutants, name) ==
  load.file = original /\ (load.mutated <=> original \in mutants /\ Head(name) # Hook!HarnessName)

\* Part by part, an import loads what Python finds, from mutants/ if it has a copy there.
LEMMA LoadsWhatIsFound ==
  ASSUME NEW sources \in SUBSET SourceFiles, NEW mutants \in SUBSET sources,
         NEW finder, IsFinder(finder, mutants), NEW name \in Seq(STRING), NoTwins(sources, name),
         NEW load, IsLoad(load, finder, mutants, sources, name),
         NEW found, IsFound(found, sources, name)
  PROVE  \A i \in 0..Len(name) :
            i # 0 => IsMirrored(load[i], found[i], mutants, name)
<1> DEFINE n == Len(name)
           S == {i \in Nat : i <= n =>
                   /\ load[i].file = found[i]
                   /\ i # 0 => (load[i].mutated <=> /\ found[i] \in mutants
                                                   /\ Head(name) # Hook!HarnessName)}
<1>0. n \in Nat
  OBVIOUS
<1>1. 0 \in S
  <2>1. /\ load[0] = [finder |-> finder, file |-> Hook!ThePath, mutated |-> FALSE]
        /\ found[0] = Hook!ThePath
    BY <1>0 DEF IsLoad, IsFound
  <2> QED BY <2>1
<1>2. ASSUME NEW i \in Nat, i \in S PROVE i + 1 \in S
  <2> DEFINE j == i + 1
             part == SubSeq(name, 1, j)
             f == load[i].finder
             spec == Hook!FindSpec(f, mutants, part)
  <2> SUFFICES ASSUME j <= n
               PROVE  /\ load[j].file = found[j]
                      /\ load[j].mutated <=> found[j] \in mutants /\ Head(name) # Hook!HarnessName
    OBVIOUS
  <2>1. j \in 1..n /\ j \in 0..n /\ j # 0 /\ j - 1 = i /\ i \in 0..n
    BY <1>0
  <2>2. load[i].file = found[i]
    BY <1>2, <2>1
  <2>3. /\ load[j] = Loaded(load[i], mutants, sources, part)
        /\ found[j] = IF Hook!HoldsModules(found[i]) THEN Hook!FindIn(sources, part) ELSE Hook!Missing
    BY <2>1 DEF IsLoad, IsFound
  <2>4. IsFinder(f, mutants)
    BY <2>1, LoadKeepsFinder
  <2>5. spec = SpecOf(mutants, part)
    BY <2>4, FinderFinds
  <2>6. Head(part) = Head(name)
    BY <2>1
  <2>7. ~({Hook!Module(part), Hook!Package(part)} \subseteq sources)
    BY <2>1 DEF NoTwins
  <2> HIDE DEF j, part, f, spec
  <2>8. CASE Hook!HoldsModules(found[i])
    <3>1. /\ load[j].file = IF spec = Hook!Missing THEN Hook!FindIn(sources, part) ELSE spec
          /\ load[j].mutated <=> spec # Hook!Missing
      <4> DEFINE g == Hook!AfterSpec(f, mutants, part)
                 file == IF spec = Hook!Missing THEN Hook!FindIn(sources, part) ELSE spec
                 mutated == spec # Hook!Missing
      <4>1. load[j] = [finder |-> g, file |-> file, mutated |-> mutated]
        BY <2>2, <2>3, <2>8, Zenon DEF Loaded, spec, f
      <4>2. load[j].file = file
        <5> HIDE DEF g, file, mutated
        <5> QED BY <4>1
      <4>3. load[j].mutated = mutated
        <5> HIDE DEF g, file, mutated
        <5> QED BY <4>1
      <4> QED BY <4>2, <4>3
    <3>2. found[j] = Hook!FindIn(sources, part)
      BY <2>3, <2>8
    <3>3. /\ (IF SpecOf(mutants, part) = Hook!Missing THEN Hook!FindIn(sources, part)
              ELSE SpecOf(mutants, part)) = Hook!FindIn(sources, part)
          /\ SpecOf(mutants, part) # Hook!Missing
                <=> /\ Hook!FindIn(sources, part) \in mutants
                    /\ Head(part) # Hook!HarnessName
      BY <2>7, CopiesAreFound
    <3> QED BY <2>5, <2>6, <3>1, <3>2, <3>3
  <2>9. CASE ~Hook!HoldsModules(found[i])
    <3>1. load[j].file = Hook!Missing /\ ~load[j].mutated /\ found[j] = Hook!Missing
      BY <2>2, <2>3, <2>9 DEF Loaded
    <3>2. Hook!Missing \notin mutants
      BY DEF Hook!Missing, Hook!File, SourceFiles
    <3> QED BY <3>1, <3>2
  <2> QED BY <2>8, <2>9
<1>3. Nat \subseteq S
  <2> HIDE DEF S
  <2> QED BY <1>1, <1>2, SetInduction
<1> QED BY <1>0, <1>3 DEF IsMirrored

\* An import with a finder that has seen any others loads what Python would without one.
LEMMA ImportIsMirrored ==
  ASSUME NEW sources \in SUBSET SourceFiles, NEW mutants \in SUBSET sources,
         NEW finder, IsFinder(finder, mutants), NEW name \in Seq(STRING), name # <<>>
  PROVE  /\ IsFinder(Hook!Load(finder, mutants, sources, name).finder, mutants)
         /\ NoTwins(sources, name) =>
               IsMirrored(Hook!Load(finder, mutants, sources, name), Hook!Import(sources, name),
                          mutants, name)
<1>0. Len(name) \in 0..Len(name) /\ Len(name) # 0
  OBVIOUS
<1>1. PICK load : /\ IsLoad(load, finder, mutants, sources, name)
                  /\ Hook!Load(finder, mutants, sources, name) = load[Len(name)]
  BY LoadGoesDown
<1>2. PICK found : IsFound(found, sources, name) /\ Hook!Import(sources, name) = found[Len(name)]
  BY ImportGoesDown
<1>3. IsFinder(load[Len(name)].finder, mutants)
  BY <1>0, <1>1, LoadKeepsFinder
<1>4. ASSUME NoTwins(sources, name)
      PROVE  IsMirrored(load[Len(name)], found[Len(name)], mutants, name)
  <2>1. \A i \in 0..Len(name) : i # 0 => IsMirrored(load[i], found[i], mutants, name)
    BY <1>1, <1>2, <1>4, LoadsWhatIsFound
  <2> QED BY <1>0, <2>1
<1> QED BY <1>1, <1>2, <1>3, <1>4

\* Whatever has happened, the finder knows no more than it would find.
LEMMA HistoryKeepsFinder ==
  ASSUME NEW sources \in SUBSET SourceFiles, NEW mutants \in SUBSET sources,
         NEW events \in Seq(Seq(STRING)), NEW state, IsHistory(state, mutants, sources, events)
  PROVE  \A k \in 0..Len(events) : IsFinder(state[k].finder, mutants)
<1> DEFINE n == Len(events)
           S == {k \in Nat : k <= n => IsFinder(state[k].finder, mutants)}
<1>0. n \in Nat
  OBVIOUS
<1>1. 0 \in S
  <2>1. state[0] = [finder |-> Hook!Installed(mutants), loads |-> <<>>]
    BY <1>0 DEF IsHistory
  <2> QED BY <2>1, InstalledIsFinder
<1>2. ASSUME NEW k \in Nat, k \in S PROVE k + 1 \in S
  <2> DEFINE event == events[k + 1]
  <2> SUFFICES ASSUME k + 1 <= n PROVE IsFinder(state[k + 1].finder, mutants)
    OBVIOUS
  <2>1. k + 1 \in 1..n /\ k + 1 \in 0..n /\ k + 1 # 0 /\ (k + 1) - 1 = k
    BY <1>0
  <2>2. IsFinder(state[k].finder, mutants)
    BY <1>0, <1>2
  <2>3. state[k + 1] = Happened(state[k], mutants, sources, event)
    BY <2>1 DEF IsHistory
  <2>4. event \in Seq(STRING)
    BY <2>1
  <2> HIDE DEF event
  <2>5. CASE event = <<>>
    <3>1. state[k + 1].finder = Hook!InvalidateCaches(state[k].finder)
      BY <2>3, <2>5 DEF Happened
    <3> QED BY <2>2, <3>1, InvalidatedIsFinder
  <2>6. CASE event # <<>>
    <3>1. state[k + 1].finder = Hook!Load(state[k].finder, mutants, sources, event).finder
      BY <2>3, <2>6 DEF Happened
    <3> QED BY <2>2, <2>4, <2>6, <3>1, ImportIsMirrored
  <2> QED BY <2>5, <2>6
<1>3. Nat \subseteq S
  <2> HIDE DEF S
  <2> QED BY <1>1, <1>2, SetInduction
<1> QED BY <1>0, <1>3

\* What an event loaded.
LoadOf(state, mutants, sources, events, k) ==
  Hook!Load(state[k - 1].finder, mutants, sources, events[k])

\* What was loaded came of an event, with the finder as it was before it.
LEMMA LoadsComeOfEvents ==
  ASSUME NEW mutants, NEW sources, NEW events \in Seq(Seq(STRING)), NEW state,
         IsHistory(state, mutants, sources, events)
  PROVE  \A i \in DOMAIN state[Len(events)].loads : \E k \in 1..Len(events) :
            /\ events[k] # <<>>
            /\ state[Len(events)].loads[i] =
                  [name |-> events[k], file |-> LoadOf(state, mutants, sources, events, k).file,
                   mutated |-> LoadOf(state, mutants, sources, events, k).mutated]
<1> DEFINE n == Len(events)
           L(k) == [name |-> events[k], file |-> LoadOf(state, mutants, sources, events, k).file,
                    mutated |-> LoadOf(state, mutants, sources, events, k).mutated]
           W == {L(k) : k \in {e \in 1..n : events[e] # <<>>}}
           S == {k \in Nat : k <= n => state[k].loads \in Seq(W)}
<1>0. n \in Nat
  OBVIOUS
<1> HIDE DEF L
<1>1. 0 \in S
  <2>1. state[0] = [finder |-> Hook!Installed(mutants), loads |-> <<>>]
    BY <1>0 DEF IsHistory
  <2>2. state[0].loads \in Seq(W)
    <3> HIDE DEF W
    <3> QED BY <2>1
  <2> QED BY <2>2
<1>2. ASSUME NEW k \in Nat, k \in S PROVE k + 1 \in S
  <2> SUFFICES ASSUME k + 1 <= n PROVE state[k + 1].loads \in Seq(W)
    OBVIOUS
  <2>1. k + 1 \in 1..n /\ k + 1 \in 0..n /\ k + 1 # 0 /\ (k + 1) - 1 = k
    BY <1>0
  <2>2. state[k].loads \in Seq(W)
    BY <1>0, <1>2
  <2>3. state[k + 1] = Happened(state[k], mutants, sources, events[k + 1])
    BY <2>1 DEF IsHistory
  <2>4. CASE events[k + 1] = <<>>
    <3>1. state[k + 1].loads = state[k].loads
      BY <2>3, <2>4 DEF Happened
    <3> QED BY <2>2, <3>1
  <2>5. CASE events[k + 1] # <<>>
    <3>1. state[k + 1].loads = Append(state[k].loads, L(k + 1))
      BY <2>1, <2>3, <2>5 DEF Happened, LoadOf, L
    <3>2. L(k + 1) \in W
      BY <2>1, <2>5
    <3> HIDE DEF W
    <3> QED BY <2>2, <3>1, <3>2
  <2> QED BY <2>4, <2>5
<1>3. Nat \subseteq S
  <2> HIDE DEF S
  <2> QED BY <1>1, <1>2, SetInduction
<1>4. state[n].loads \in Seq(W)
  <2> HIDE DEF W, n
  <2> QED BY <1>0, <1>3
<1>5. ASSUME NEW i \in DOMAIN state[n].loads
      PROVE  \E k \in 1..n : events[k] # <<>> /\ state[n].loads[i] = L(k)
  <2>1. state[n].loads[i] \in W
    <3> HIDE DEF W, n
    <3> QED BY <1>4, <1>5
  <2> QED BY <2>1
<1> QED BY <1>5 DEF L

ImportsGiven ==
  subject = "imports" =>
     /\ input \in Imports
     /\ done => output = Hook!Imported(input.mutants, input.sources, input.events)

\* Whatever was imported and forgotten before, in any tree of sources, an import loads the file
\* Python would find, from mutants/ exactly if it has a copy there; unless a module and a package
\* share its name, or that of a package above it.
THEOREM ImportsLoadTheirFile == CallsAndFiltersSpec => []ImportsAreMirrored
<1>1. GivenCallOrFilter /\ Unstarted => ImportsGiven
  BY DEF GivenCallOrFilter, Given, Unstarted, ImportsGiven
<1>2. ImportsGiven /\ [CallOrFilter]_vars => ImportsGiven'
  <2> SUFFICES ASSUME ImportsGiven, [CallOrFilter]_vars PROVE ImportsGiven'
    OBVIOUS
  <2>1. CASE Call
    BY <2>1 DEF ImportsGiven, Call, Gives
  <2>2. CASE Dispatch
    BY <2>2 DEF ImportsGiven, Dispatch, Gives
  <2>3. CASE Sample
    BY <2>3 DEF ImportsGiven, Sample, Gives
  <2>4. CASE TypeCheck
    BY <2>4 DEF ImportsGiven, TypeCheck, Gives
  <2>5. CASE ParseDiff
    BY <2>5 DEF ImportsGiven, ParseDiff, Gives
  <2>6. CASE ReportTwice
    BY <2>6 DEF ImportsGiven, ReportTwice, Gives
  <2>7. CASE Match
    BY <2>7 DEF ImportsGiven, Match, Gives
  <2>8. CASE ImportAll
    BY <2>8 DEF ImportsGiven, ImportAll, Gives
  <2>9. CASE NameMutants
    BY <2>9 DEF ImportsGiven, NameMutants, Gives
  <2>10. CASE ScanText
    BY <2>10 DEF ImportsGiven, ScanText, Gives
  <2>11. CASE UNCHANGED vars
    BY <2>11 DEF ImportsGiven, vars
  <2> QED BY <2>1, <2>2, <2>3, <2>4, <2>5, <2>6, <2>7, <2>8, <2>9, <2>10, <2>11 DEF CallOrFilter
<1>3. ImportsGiven => ImportsAreMirrored
  <2> DEFINE mutants == input.mutants
             sources == input.sources
             events == input.events
  <2> SUFFICES ASSUME ImportsGiven, Finished("imports"), NEW i \in DOMAIN output,
                      ~\E k \in DOMAIN output[i].name : Twin(SubSeq(output[i].name, 1, k))
               PROVE  IsMirrored(output[i], Hook!Import(sources, output[i].name), mutants, output[i].name)
    BY DEF ImportsAreMirrored, IsMirrored
  <2>1. input \in Imports /\ output = Hook!Imported(mutants, sources, events)
    BY DEF ImportsGiven, Finished
  <2>2. sources \in SUBSET SourceFiles /\ mutants \in SUBSET sources /\ events \in Seq(Seq(STRING))
    BY <2>1, InputsAssumption DEF ImportsAssumption, SourceFiles
  <2>3. \A name \in Seq(STRING) :
           (~\E k \in DOMAIN name : Twin(SubSeq(name, 1, k))) => NoTwins(sources, name)
    BY DEF Twin, NoTwins
  <2> HIDE DEF mutants, sources, events
  <2>4. PICK state : /\ IsHistory(state, mutants, sources, events)
                     /\ Hook!Imported(mutants, sources, events) = state[Len(events)].loads
    BY <2>2, EventsHappen
  <2>5. PICK k \in 1..Len(events) :
           /\ events[k] # <<>>
           /\ output[i] = [name |-> events[k],
                           file |-> LoadOf(state, mutants, sources, events, k).file,
                           mutated |-> LoadOf(state, mutants, sources, events, k).mutated]
    BY <2>1, <2>2, <2>4, LoadsComeOfEvents
  <2>6. IsFinder(state[k - 1].finder, mutants)
    <3>1. k - 1 \in 0..Len(events)
      BY <2>2
    <3> QED BY <2>2, <2>4, <3>1, HistoryKeepsFinder
  <2>7. events[k] \in Seq(STRING)
    BY <2>2
  <2> DEFINE load == LoadOf(state, mutants, sources, events, k)
  <2>8. output[i].name = events[k] /\ NoTwins(sources, events[k])
    BY <2>3, <2>5, <2>7
  <2>9. IsMirrored(load, Hook!Import(sources, events[k]), mutants, events[k])
    BY <2>2, <2>5, <2>6, <2>7, <2>8, ImportIsMirrored DEF LoadOf
  <2> HIDE DEF load
  <2>10. output[i].file = load.file
    BY <2>5 DEF load
  <2>11. output[i].mutated = load.mutated
    BY <2>5 DEF load
  <2> QED BY <2>8, <2>9, <2>10, <2>11 DEF IsMirrored
<1> QED BY <1>1, <1>2, <1>3, PTL DEF CallsAndFiltersSpec

-----------------------------------------------------------------------------
(* Names                                                                    *)

\* Row and column of every element of a flattened sequence: no two have the same.
ArePlaces(row, col, s, seqs) ==
  /\ \A k \in DOMAIN s : /\ row[k] \in DOMAIN seqs
                         /\ col[k] \in DOMAIN seqs[row[k]]
                         /\ s[k] = seqs[row[k]][col[k]]
  /\ \A k, l \in DOMAIN s : row[k] = row[l] /\ col[k] = col[l] => k = l

HasPlaces(s, seqs) == \E row, col : ArePlaces(row, col, s, seqs)

\* The flattening of one more sequence adds a row.
LEMMA PlacesOfOneMore ==
  ASSUME NEW S, NEW seqs \in Seq(Seq(S)), NEW i \in 1..Len(seqs), NEW s \in Seq(S),
         NEW row, NEW col, ArePlaces(row, col, s, seqs), \A k \in DOMAIN s : row[k] < i
  PROVE  LET t == s \o seqs[i]
         IN \E r, c : ArePlaces(r, c, t, seqs) /\ \A k \in DOMAIN t : r[k] < i + 1
<1> DEFINE u == seqs[i]
           m == Len(s)
           n == Len(u)
           t == s \o u
           r == [k \in 1..m + n |-> IF k <= m THEN row[k] ELSE i]
           c == [k \in 1..m + n |-> IF k <= m THEN col[k] ELSE k - m]
<1>1. u \in Seq(S) /\ i \in DOMAIN seqs /\ i \in Nat
  OBVIOUS
<1>2. DOMAIN seqs = 1..Len(seqs) /\ Len(seqs) \in Nat
  OBVIOUS
<1>3. seqs[i] = u
  OBVIOUS
<1> HIDE DEF u
<1>4. m \in Nat /\ n \in Nat /\ DOMAIN s = 1..m /\ DOMAIN u = 1..n
  BY <1>1
<1>5. t \in Seq(S) /\ Len(t) = m + n /\ \A k \in 1..m + n : t[k] = IF k <= m THEN s[k] ELSE u[k - m]
  BY <1>1, ConcatProperties
<1>6. DOMAIN t = 1..m + n
  BY <1>4, <1>5, LenProperties
<1>7. \A k \in DOMAIN s : /\ row[k] \in DOMAIN seqs /\ row[k] < i
                          /\ col[k] \in DOMAIN seqs[row[k]]
                          /\ s[k] = seqs[row[k]][col[k]]
  BY DEF ArePlaces
<1>8. \A k, l \in DOMAIN s : row[k] = row[l] /\ col[k] = col[l] => k = l
  BY DEF ArePlaces
<1> HIDE DEF t, m, n
<1>9. ASSUME NEW k \in 1..m + n
      PROVE  /\ k <= m => k \in DOMAIN s /\ r[k] = row[k] /\ c[k] = col[k] /\ t[k] = s[k]
             /\ ~(k <= m) => k - m \in DOMAIN u /\ r[k] = i /\ c[k] = k - m /\ t[k] = u[k - m]
  BY <1>4, <1>5, <1>9
<1> HIDE DEF r, c
<1>10. \A k \in 1..m + n : /\ r[k] \in DOMAIN seqs /\ c[k] \in DOMAIN seqs[r[k]]
                           /\ t[k] = seqs[r[k]][c[k]]
  BY <1>1, <1>3, <1>7, <1>9
<1>11. \A k \in 1..m + n : r[k] < i + 1
  <2> TAKE k \in 1..m + n
  <2>1. CASE k <= m
    <3>1. k \in DOMAIN s /\ r[k] = row[k]
      BY <1>9, <2>1
    <3>2. r[k] < i /\ r[k] \in DOMAIN seqs
      BY <1>7, <3>1
    <3>3. r[k] \in Nat
      BY <1>2, <3>2
    <3> QED BY <1>1, <3>2, <3>3
  <2>2. CASE ~(k <= m)
    BY <1>1, <1>9, <2>2
  <2> QED BY <2>1, <2>2
<1>12. ASSUME NEW k \in 1..m + n, NEW l \in 1..m + n, r[k] = r[l], c[k] = c[l] PROVE k = l
  <2>1. CASE k <= m /\ l <= m
    BY <1>8, <1>9, <1>12, <2>1
  <2>2. CASE ~(k <= m) /\ ~(l <= m)
    BY <1>4, <1>9, <1>12, <2>2
  <2>3. ASSUME NEW x \in 1..m + n, NEW y \in 1..m + n, x <= m, ~(y <= m), r[x] = r[y] PROVE FALSE
    <3>1. x \in DOMAIN s /\ r[x] = row[x] /\ r[y] = i
      BY <1>9, <2>3
    <3>2. r[x] < i /\ r[x] \in DOMAIN seqs
      BY <1>7, <3>1
    <3>3. r[x] = i
      BY ONLY <2>3, <3>1
    <3>4. i < i
      BY ONLY <3>2, <3>3
    <3> QED BY ONLY <1>1, <3>4
  <2> QED BY <1>12, <2>1, <2>2, <2>3
<1>13. ArePlaces(r, c, t, seqs)
  BY <1>6, <1>10, <1>12 DEF ArePlaces
<1>14. \E rr, cc : ArePlaces(rr, cc, t, seqs) /\ \A k \in DOMAIN t : rr[k] < i + 1
  BY <1>6, <1>11, <1>13
<1> QED BY <1>14 DEF t, u

\* A flattened sequence has the elements of its sequences, each at a place of its own.
LEMMA FlatHasPlaces ==
  ASSUME NEW S, NEW seqs \in Seq(Seq(S))
  PROVE  Namer!FlattenSeq(seqs) \in Seq(S) /\ HasPlaces(Namer!FlattenSeq(seqs), seqs)
<1> DEFINE n == Len(seqs)
<1>1. Namer!FlattenSeq(seqs) = Types!FlattenSeq(seqs)
  BY DEF Namer!FlattenSeq, Types!FlattenSeq
<1>2. PICK flat : IsFlattened(flat, seqs, S) /\ Types!FlattenSeq(seqs) = flat[n]
  BY FlattenDef
<1>3. n \in Nat
  OBVIOUS
<1> DEFINE Good(i) == \E r, c : ArePlaces(r, c, flat[i], seqs) /\ \A k \in DOMAIN flat[i] : r[k] < i + 1
           T == {i \in Nat : i <= n => Good(i)}
<1>4. Good(0)
  <2>1. flat[0] = <<>>
    BY <1>2 DEF IsFlattened
  <2>2. DOMAIN flat[0] = {}
    BY <2>1
  <2>3. \A r, c : ArePlaces(r, c, flat[0], seqs)
    BY <2>2 DEF ArePlaces
  <2> QED BY <2>2, <2>3
<1>5. ASSUME NEW i \in Nat, i + 1 <= n, Good(i) PROVE Good(i + 1)
  <2>1. PICK r, c : ArePlaces(r, c, flat[i], seqs) /\ \A k \in DOMAIN flat[i] : r[k] < i + 1
    BY <1>5
  <2>2. i + 1 \in 1..n /\ (i + 1) - 1 = i /\ i \in 0..n
    BY <1>3, <1>5
  <2>3. flat[i] \in Seq(S) /\ flat[i + 1] = flat[i] \o seqs[i + 1]
    BY <1>2, <2>2 DEF IsFlattened
  <2> DEFINE j == i + 1
             s == flat[i]
  <2>4. j \in 1..n /\ s \in Seq(S) /\ ArePlaces(r, c, s, seqs) /\ \A k \in DOMAIN s : r[k] < j
    BY <2>1, <2>2, <2>3
  <2> HIDE DEF j, s
  <2>5. \E rr, cc : ArePlaces(rr, cc, s \o seqs[j], seqs)
                    /\ \A k \in DOMAIN (s \o seqs[j]) : rr[k] < j + 1
    BY <2>4, PlacesOfOneMore
  <2> QED BY <2>3, <2>5 DEF j, s
<1>6. n \in T
  <2>1. 0 \in T
    <3> HIDE DEF Good
    <3> QED BY <1>4
  <2>2. \A i \in Nat : i \in T => i + 1 \in T
    <3> HIDE DEF Good, n
    <3> QED BY <1>3, <1>5
  <2> HIDE DEF T
  <2> QED BY <1>3, <2>1, <2>2, SetInduction
<1>7. Good(n)
  <2> HIDE DEF Good
  <2> QED BY <1>3, <1>6
<1>8. flat[n] \in Seq(S)
  <2>1. n \in 0..n
    BY <1>3
  <2> QED BY <1>2, <2>1 DEF IsFlattened
<1> QED BY <1>1, <1>2, <1>7, <1>8 DEF HasPlaces

\* A list of lists that are each empty or of one element.
LEMMA OneOrNone ==
  ASSUME NEW S, NEW n \in Nat, NEW x, NEW B,
         \A i \in 1..n : i \in B => x[i] \in S
  PROVE  [i \in 1..n |-> IF i \in B THEN << x[i] >> ELSE <<>>] \in Seq(Seq(S))
<1>1. \A i \in 1..n : (IF i \in B THEN << x[i] >> ELSE <<>>) \in Seq(S)
  OBVIOUS
<1> DEFINE v(i) == IF i \in B THEN << x[i] >> ELSE <<>>
<1> HIDE DEF v
<1>2. \A i \in 1..n : v(i) \in Seq(S)
  BY <1>1 DEF v
<1>3. [i \in 1..n |-> v(i)] \in Seq(Seq(S))
  BY <1>2
<1> QED BY <1>3 DEF v

\* The items of a file.
IsFile(f) ==
  /\ f \in Seq(ToSet(f))
  /\ \A item \in ToSet(f) :
        /\ item.decs \in Seq(STRING) /\ item.body \in Seq(ToSet(item.body))
        /\ \A member \in ToSet(item.body) : member.decs \in Seq(STRING)

Definitions(f)  == ToSet(f) \cup UNION {ToSet(item.body) : item \in ToSet(f)}
ClassNames(f)   == {Namer!NoClass} \cup {item.name : item \in ToSet(f)}
Collectibles(f) == [d : Definitions(f), class : ClassNames(f), at : Seq(Nat)]
PatchesIn(f)    == [class : ClassNames(f), name : {d.name : d \in Definitions(f)},
                    how : {"decrem", "sp"}]
KeysIn(f)       == [class : ClassNames(f), name : {d.name : d \in Definitions(f)},
                    how : {"irradiate"}]

\* The decorators of a definition are a sequence.
LEMMA DecoratorsAreSeq ==
  ASSUME NEW d, d.decs \in Seq(STRING)
  PROVE  Namer!Decorators(d) \in Seq(STRING)
<1> DEFINE n == Len(d.decs)
           decs == d.decs
           B == {i \in 1..n : decs[i] # "comment"}
           seqs == [i \in DOMAIN decs |-> IF decs[i] = "comment" THEN <<>> ELSE << decs[i] >>]
<1>1. n \in Nat /\ DOMAIN decs = 1..n /\ \A i \in 1..n : decs[i] \in STRING
  OBVIOUS
<1>2. seqs = [i \in 1..n |-> IF i \in B THEN << decs[i] >> ELSE <<>>]
  BY <1>1
<1>3. seqs \in Seq(Seq(STRING))
  <2> HIDE DEF seqs, B, n, decs
  <2> QED BY <1>1, <1>2, OneOrNone
<1>4. Namer!Decorators(d) = Namer!FlattenSeq(seqs)
  BY DEF Namer!Decorators
<1> HIDE DEF seqs
<1> QED BY <1>3, <1>4, FlatHasPlaces

\* The methods of a class, with its name.
LEMMA MembersAreSeq ==
  ASSUME NEW items, items \in Seq(ToSet(items)), NEW class, NEW i \in Nat
  PROVE  Namer!Members(items, class, <<i>>)
            \in Seq([d : ToSet(items), class : {class}, at : Seq(Nat)])
<1> DEFINE n == Len(items)
           S == [d : ToSet(items), class : {class}, at : Seq(Nat)]
           x == [k \in 1..n |-> [d |-> items[k], class |-> class, at |-> Append(<<i>>, k)]]
           B == {k \in 1..n : items[k].kind = "def"}
           seqs == [k \in DOMAIN items |->
                      IF items[k].kind = "def"
                      THEN << [d |-> items[k], class |-> class, at |-> Append(<<i>>, k)] >> ELSE <<>>]
<1>1. n \in Nat /\ DOMAIN items = 1..n /\ \A k \in 1..n : items[k] \in ToSet(items)
  BY DEF ToSet
<1>2. \A k \in 1..n : Append(<<i>>, k) \in Seq(Nat)
  <2>1. <<i>> \in Seq(Nat)
    OBVIOUS
  <2> QED BY <1>1, <2>1, AppendProperties
<1>3. \A k \in 1..n : k \in B => x[k] \in S
  BY <1>1, <1>2
<1>4. seqs = [k \in 1..n |-> IF k \in B THEN << x[k] >> ELSE <<>>]
  BY <1>1
<1>5. Namer!Members(items, class, <<i>>) = Namer!FlattenSeq(seqs)
  BY DEF Namer!Members
<1>6. seqs \in Seq(Seq(S))
  <2> HIDE DEF seqs, B, x, n, S
  <2> QED BY <1>1, <1>3, <1>4, OneOrNone
<1> HIDE DEF seqs, S
<1>7. Namer!FlattenSeq(seqs) \in Seq(S)
  BY <1>6, FlatHasPlaces
<1> QED BY <1>5, <1>7 DEF S

\* What is collected are definitions of the file and of its classes.
LEMMA CollectedAreSeq ==
  ASSUME NEW f, IsFile(f)
  PROVE  Namer!Collected(f) \in Seq(Collectibles(f))
<1> DEFINE S == Collectibles(f)
           v(i) == CASE f[i].kind = "def" ->
                          << [d |-> f[i], class |-> Namer!NoClass, at |-> <<i>>] >>
                     [] f[i].kind = "class" ->
                          IF "enum" \in f[i].flags \/ Namer!Decorators(f[i]) # <<>>
                          THEN <<>> ELSE Namer!Members(f[i].body, f[i].name, <<i>>)
                     [] OTHER -> <<>>
           seqs == [i \in DOMAIN f |-> v(i)]
<1>1. f \in Seq(ToSet(f)) /\ \A item \in ToSet(f) : item.body \in Seq(ToSet(item.body))
  BY DEF IsFile
<1>2. DOMAIN f = 1..Len(f) /\ Len(f) \in Nat /\ \A i \in DOMAIN f : f[i] \in ToSet(f) /\ i \in Nat
  BY <1>1 DEF ToSet
<1>3. ASSUME NEW i \in DOMAIN f PROVE v(i) \in Seq(S)
  <2>1. f[i] \in ToSet(f) /\ i \in Nat
    BY <1>2
  <2>2. <<>> \in Seq(S)
    OBVIOUS
  <2>3. << [d |-> f[i], class |-> Namer!NoClass, at |-> <<i>>] >> \in Seq(S)
    <3>1. f[i] \in Definitions(f) /\ Namer!NoClass \in ClassNames(f) /\ <<i>> \in Seq(Nat)
      BY <2>1 DEF Definitions, ClassNames
    <3>2. [d |-> f[i], class |-> Namer!NoClass, at |-> <<i>>] \in S
      BY <3>1 DEF Collectibles
    <3> DEFINE e == [d |-> f[i], class |-> Namer!NoClass, at |-> <<i>>]
    <3> HIDE DEF e, S
    <3>3. e \in S
      BY <3>2 DEF e
    <3>4. <<e>> \in Seq(S)
      BY <3>3
    <3> QED BY <3>4 DEF e
  <2>4. Namer!Members(f[i].body, f[i].name, <<i>>) \in Seq(S)
    <3> DEFINE body == f[i].body
               T == [d : ToSet(body), class : {f[i].name}, at : Seq(Nat)]
    <3>1. T \subseteq S
      <4>1. ToSet(body) \subseteq Definitions(f)
        BY <2>1 DEF Definitions
      <4>2. f[i].name \in ClassNames(f)
        BY <2>1 DEF ClassNames
      <4> QED BY <4>1, <4>2 DEF Collectibles
    <3>2. body \in Seq(ToSet(body))
      BY <1>1, <2>1
    <3>3. Namer!Members(body, f[i].name, <<i>>) \in Seq(T)
      <4> DEFINE name == f[i].name
      <4> HIDE DEF body, name
      <4> QED BY <2>1, <3>2, MembersAreSeq DEF name
    <3> HIDE DEF T, S, body
    <3>4. Namer!Members(body, f[i].name, <<i>>) \in Seq(S)
      BY <3>1, <3>3
    <3> QED BY <3>4 DEF body
  <2> HIDE DEF S
  <2> QED BY <2>2, <2>3, <2>4
<1>4. Namer!Collected(f) = Namer!FlattenSeq(seqs)
  BY DEF Namer!Collected
<1> HIDE DEF S, v
<1>5. seqs \in Seq(Seq(S))
  BY <1>2, <1>3
<1> HIDE DEF seqs
<1> QED BY <1>4, <1>5, FlatHasPlaces DEF S

\* The definitions collected are decorated with strings.
LEMMA DefinitionsAreDecorated ==
  ASSUME NEW f, IsFile(f), NEW d \in Definitions(f)
  PROVE  d.decs \in Seq(STRING)
BY DEF IsFile, Definitions

\* The patches of a file are a sequence.
LEMMA PatchesAreSeq ==
  ASSUME NEW f, IsFile(f), BodyMutations \in Nat
  PROVE  Namer!SourcePatches(f) \in Seq(PatchesIn(f))
<1> DEFINE P == PatchesIn(f)
           cs == Namer!Collected(f)
           seqs == [i \in DOMAIN cs |-> Namer!PatchesOf(cs[i])]
<1>1. cs \in Seq(Collectibles(f))
  BY CollectedAreSeq
<1> HIDE DEF cs
<1>2. ASSUME NEW c \in Collectibles(f) PROVE Namer!PatchesOf(c) \in Seq(P)
  <2> DEFINE decs == Namer!Decorators(c.d)
             removal == [class |-> c.class, name |-> c.d.name, how |-> "decrem"]
             inBody == [class |-> c.class, name |-> c.d.name, how |-> "sp"]
             r == [i \in DOMAIN decs |-> removal]
             b == [i \in 1..BodyMutations |-> inBody]
  <2>1. c.d \in Definitions(f) /\ c.class \in ClassNames(f)
    BY DEF Collectibles
  <2>2. decs \in Seq(STRING)
    <3> HIDE DEF decs
    <3>1. c.d.decs \in Seq(STRING)
      BY <2>1, DefinitionsAreDecorated
    <3> QED BY <3>1, DecoratorsAreSeq DEF decs
  <2>3. removal \in P /\ inBody \in P
    BY <2>1 DEF PatchesIn
  <2>4. Namer!PatchesOf(c) = r \o (IF Namer!Patched(c.d) THEN b ELSE <<>>)
    BY DEF Namer!PatchesOf
  <2> HIDE DEF P, removal, inBody, decs
  <2>5. r \in Seq(P)
    <3>1. DOMAIN decs = 1..Len(decs) /\ Len(decs) \in Nat
      BY <2>2
    <3> QED BY <2>3, <3>1
  <2>6. b \in Seq(P)
    BY <2>3
  <2>7. (IF Namer!Patched(c.d) THEN b ELSE <<>>) \in Seq(P)
    <3> HIDE DEF b
    <3> QED BY <2>6
  <2> DEFINE t == IF Namer!Patched(c.d) THEN b ELSE <<>>
  <2> HIDE DEF r, t
  <2>8. r \o t \in Seq(P)
    BY <2>5, <2>7, ConcatProperties DEF t
  <2> QED BY <2>4, <2>8 DEF t
<1>3. seqs \in Seq(Seq(P))
  <2> HIDE DEF P
  <2>1. DOMAIN cs = 1..Len(cs) /\ Len(cs) \in Nat /\ \A i \in DOMAIN cs : cs[i] \in Collectibles(f)
    BY <1>1
  <2> QED BY <1>2, <2>1
<1>4. Namer!SourcePatches(f) = Namer!FlattenSeq(seqs)
  BY DEF Namer!SourcePatches, cs
<1> HIDE DEF seqs, P
<1> QED BY <1>3, <1>4, FlatHasPlaces DEF P

\* Counted among its equals, no element is numbered as another.
LEMMA CountedApart ==
  ASSUME NEW S, NEW ps \in Seq(S), NEW k \in DOMAIN ps, NEW l \in DOMAIN ps, k < l, ps[k] = ps[l]
  PROVE  /\ Cardinality({j \in 1..k : ps[j] = ps[k]}) \in Nat
         /\ Cardinality({j \in 1..k : ps[j] = ps[k]}) # Cardinality({j \in 1..l : ps[j] = ps[l]})
<1> DEFINE x == ps[k]
           A == {j \in 1..k : ps[j] = x}
           B == {j \in 1..l : ps[j] = x}
<1>1. k \in Nat /\ l \in Nat /\ ps[l] = x
  OBVIOUS
<1>2. IsFiniteSet(A) /\ IsFiniteSet(B)
  <2>1. IsFiniteSet(1..k) /\ IsFiniteSet(1..l)
    BY <1>1, FS_Interval
  <2> QED BY <2>1, FS_Subset
<1>3. A \subseteq B /\ l \in B /\ l \notin A
  <2>1. 1..k \subseteq 1..l /\ l \in 1..l /\ l \notin 1..k
    BY <1>1
  <2> QED BY <1>1, <2>1
<1> HIDE DEF x
<1>4. Cardinality(A) \in Nat /\ Cardinality(B) \in Nat
  BY <1>2, FS_CardinalityType
<1>5. Cardinality(A) # Cardinality(B)
  <2> HIDE DEF A, B
  <2>1. A # B
    BY <1>3
  <2> QED BY <1>2, <1>3, <2>1, FS_Subset
<1> QED BY <1>1, <1>4, <1>5 DEF x

\* No two source patches have one name.
LEMMA PatchNamesAreUnique ==
  ASSUME NEW f, IsFile(f), BodyMutations \in Nat
  PROVE  /\ Namer!NameSourcePatches(f) \in Seq(PatchesIn(f) \X Nat)
         /\ IsInjective(Namer!NameSourcePatches(f))
<1> DEFINE P == PatchesIn(f)
           ps == Namer!SourcePatches(f)
           nr(k) == Cardinality({j \in 1..k : ps[j] = ps[k]})
           s == [k \in DOMAIN ps |-> << ps[k], nr(k) >>]
<1>1. ps \in Seq(P)
  BY PatchesAreSeq
<1>2. Namer!NameSourcePatches(f) = s
  BY DEF Namer!NameSourcePatches, Namer!Cardinality, Cardinality
<1> HIDE DEF ps, P
<1>3. DOMAIN ps = 1..Len(ps) /\ Len(ps) \in Nat /\ \A k \in DOMAIN ps : ps[k] \in P /\ k \in Nat
  BY <1>1
<1>4. \A k \in DOMAIN ps : nr(k) \in Nat
  <2> TAKE k \in DOMAIN ps
  <2>1. IsFiniteSet(1..k)
    BY <1>3, FS_Interval
  <2>2. IsFiniteSet({j \in 1..k : ps[j] = ps[k]})
    BY <2>1, FS_Subset
  <2> QED BY <2>2, FS_CardinalityType
<1>5. ASSUME NEW k \in DOMAIN ps, NEW l \in DOMAIN ps, k < l, ps[k] = ps[l] PROVE nr(k) # nr(l)
  BY <1>1, <1>5, CountedApart
<1> HIDE DEF nr
<1>6. s \in Seq(P \X Nat)
  BY <1>3, <1>4
<1>7. ASSUME NEW k \in DOMAIN ps, NEW l \in DOMAIN ps, s[k] = s[l] PROVE k = l
  <2>1. ps[k] = ps[l] /\ nr(k) = nr(l)
    BY <1>7
  <2>2. k < l \/ l < k \/ k = l
    BY <1>3
  <2> HIDE DEF s
  <2> QED BY <1>5, <2>1, <2>2
<1>8. IsInjective(s)
  <2>1. DOMAIN s = DOMAIN ps
    OBVIOUS
  <2> HIDE DEF s
  <2> QED BY <1>7, <2>1 DEF IsInjective
<1> QED BY <1>2, <1>6, <1>8 DEF P

\* The functions mutated with a trampoline are a sequence of collected definitions.
LEMMA FunctionsAreSeq ==
  ASSUME NEW f, IsFile(f)
  PROVE  Namer!FunctionsOf(f) \in Seq(Collectibles(f))
<1> DEFINE C == Collectibles(f)
           cs == Namer!Collected(f)
           n == Len(cs)
           B == {i \in 1..n : Namer!Trampolined(cs[i].d)}
           seqs == [i \in DOMAIN cs |-> IF Namer!Trampolined(cs[i].d) THEN << cs[i] >> ELSE <<>>]
<1>1. cs \in Seq(C)
  BY CollectedAreSeq
<1>2. Namer!FunctionsOf(f) = Namer!FlattenSeq(seqs)
  BY DEF Namer!FunctionsOf
<1> HIDE DEF cs, C
<1>3. n \in Nat /\ DOMAIN cs = 1..n /\ \A i \in 1..n : cs[i] \in C
  BY <1>1
<1>4. seqs = [i \in 1..n |-> IF i \in B THEN << cs[i] >> ELSE <<>>]
  BY <1>3
<1>5. seqs \in Seq(Seq(C))
  <2> HIDE DEF seqs, B, n
  <2> QED BY <1>3, <1>4, OneOrNone
<1> HIDE DEF seqs
<1> QED BY <1>2, <1>5, FlatHasPlaces DEF C

\* No two functions are mutated under one name.
NoneRedefined(fs) ==
  \A i, j \in DOMAIN fs : fs[i].class = fs[j].class /\ fs[i].d.name = fs[j].d.name => i = j

\* Then no two mutants of trampolines have one name.
LEMMA KeysAreUnique ==
  ASSUME NEW f, IsFile(f), BodyMutations \in Nat, NoneRedefined(Namer!FunctionsOf(f))
  PROVE  /\ Namer!MutantKeys(f) \in Seq(KeysIn(f) \X Nat)
         /\ IsInjective(Namer!MutantKeys(f))
<1> DEFINE K == KeysIn(f) \X Nat
           fs == Namer!FunctionsOf(f)
           key(c) == [class |-> c.class, name |-> c.d.name, how |-> "irradiate"]
           keys(c) == [k \in 1..BodyMutations |-> << key(c), k >>]
           seqs == [i \in DOMAIN fs |-> keys(fs[i])]
           s == Namer!FlattenSeq(seqs)
<1>1. fs \in Seq(Collectibles(f))
  BY FunctionsAreSeq
<1>2. Namer!MutantKeys(f) = s
  BY DEF Namer!MutantKeys
<1>3. NoneRedefined(fs)
  OBVIOUS
<1> HIDE DEF fs, s
<1>4. DOMAIN fs = 1..Len(fs) /\ Len(fs) \in Nat /\ \A i \in DOMAIN fs : fs[i] \in Collectibles(f)
  BY <1>1
<1>5. ASSUME NEW c \in Collectibles(f) PROVE keys(c) \in Seq(K)
  <2>1. c.d \in Definitions(f) /\ c.class \in ClassNames(f)
    BY DEF Collectibles
  <2>2. key(c) \in KeysIn(f)
    BY <2>1 DEF KeysIn
  <2> HIDE DEF key
  <2>3. \A k \in 1..BodyMutations : << key(c), k >> \in K
    BY <2>2
  <2> HIDE DEF K
  <2> QED BY <2>3
<1>6. seqs \in Seq(Seq(K))
  <2> HIDE DEF keys, K
  <2> QED BY <1>4, <1>5
<1>7. s \in Seq(K) /\ HasPlaces(s, seqs)
  <2> HIDE DEF K, seqs
  <2> QED BY <1>6, FlatHasPlaces DEF s
<1>8. PICK row, col : ArePlaces(row, col, s, seqs)
  BY <1>7 DEF HasPlaces
<1>9. ASSUME NEW k \in DOMAIN s
      PROVE  row[k] \in DOMAIN fs /\ s[k] = << key(fs[row[k]]), col[k] >>
  <2>1. row[k] \in DOMAIN seqs /\ col[k] \in DOMAIN seqs[row[k]] /\ s[k] = seqs[row[k]][col[k]]
    BY <1>8 DEF ArePlaces
  <2> HIDE DEF key
  <2> QED BY <2>1
<1>10. ASSUME NEW k \in DOMAIN s, NEW l \in DOMAIN s, s[k] = s[l] PROVE k = l
  <2>1. key(fs[row[k]]) = key(fs[row[l]]) /\ col[k] = col[l]
    <3> HIDE DEF key
    <3> QED BY <1>9, <1>10
  <2>2. row[k] = row[l]
    BY <1>3, <1>9, <2>1 DEF NoneRedefined
  <2> QED BY <1>8, <2>1, <2>2 DEF ArePlaces
<1>11. IsInjective(s)
  BY <1>10 DEF IsInjective
<1> QED BY <1>2, <1>7, <1>11

\* One after the other, sequences without an element in common repeat none.
LEMMA ApartTogether ==
  ASSUME NEW S, NEW T, NEW s \in Seq(S), NEW t \in Seq(T), S \cap T = {},
         IsInjective(s), IsInjective(t)
  PROVE  IsInjective(s \o t)
<1> DEFINE u == s \o t
           m == Len(s)
           n == Len(t)
           U == S \cup T
<1>1. m \in Nat /\ n \in Nat /\ DOMAIN s = 1..m /\ DOMAIN t = 1..n
  OBVIOUS
<1>2. s \in Seq(U) /\ t \in Seq(U)
  OBVIOUS
<1>3. u \in Seq(U) /\ Len(u) = m + n /\ \A k \in 1..m + n : u[k] = IF k <= m THEN s[k] ELSE t[k - m]
  <2> HIDE DEF U
  <2> QED BY <1>2, ConcatProperties
<1> HIDE DEF u
<1>4. DOMAIN u = 1..m + n
  BY <1>3
<1>5. (\A k \in 1..m : s[k] \in S) /\ \A k \in 1..n : t[k] \in T
  BY <1>1
<1>6. /\ \A k, l \in 1..m : s[k] = s[l] => k = l
      /\ \A k, l \in 1..n : t[k] = t[l] => k = l
  BY <1>1 DEF IsInjective
<1> HIDE DEF m, n
<1>7. ASSUME NEW k \in 1..m + n
      PROVE  /\ k <= m => k \in 1..m /\ u[k] = s[k]
             /\ ~(k <= m) => k - m \in 1..n /\ u[k] = t[k - m]
  BY <1>1, <1>3
<1>8. ASSUME NEW k \in 1..m + n, NEW l \in 1..m + n, u[k] = u[l] PROVE k = l
  <2>1. CASE k <= m /\ l <= m
    BY <1>6, <1>7, <1>8, <2>1
  <2>2. CASE ~(k <= m) /\ ~(l <= m)
    <3>1. k - m = l - m
      BY <1>6, <1>7, <1>8, <2>2
    <3> QED BY <1>1, <3>1
  <2>3. ASSUME NEW x \in 1..m + n, NEW y \in 1..m + n, x <= m, ~(y <= m) PROVE u[x] # u[y]
    BY <1>5, <1>7, <2>3
  <2> QED BY <1>8, <2>1, <2>2, <2>3
<1> QED BY <1>4, <1>8 DEF IsInjective, u

NamesGiven ==
  subject = "names" => input \in Files /\ (done => output = Namer!NamesOf(input))

\* Whatever definitions, decorators and classes a file has, and however many mutations a body,
\* its mutants have names of their own; unless two functions that are mutated have one name.
THEOREM EveryMutantHasItsName == CallsAndFiltersSpec => []NamesAreUnique
<1>1. GivenCallOrFilter /\ Unstarted => NamesGiven
  BY DEF GivenCallOrFilter, Given, Unstarted, NamesGiven
<1>2. NamesGiven /\ [CallOrFilter]_vars => NamesGiven'
  <2> SUFFICES ASSUME NamesGiven, [CallOrFilter]_vars PROVE NamesGiven'
    OBVIOUS
  <2>1. CASE Call
    BY <2>1 DEF NamesGiven, Call, Gives
  <2>2. CASE Dispatch
    BY <2>2 DEF NamesGiven, Dispatch, Gives
  <2>3. CASE Sample
    BY <2>3 DEF NamesGiven, Sample, Gives
  <2>4. CASE TypeCheck
    BY <2>4 DEF NamesGiven, TypeCheck, Gives
  <2>5. CASE ParseDiff
    BY <2>5 DEF NamesGiven, ParseDiff, Gives
  <2>6. CASE ReportTwice
    BY <2>6 DEF NamesGiven, ReportTwice, Gives
  <2>7. CASE Match
    BY <2>7 DEF NamesGiven, Match, Gives
  <2>8. CASE ImportAll
    BY <2>8 DEF NamesGiven, ImportAll, Gives
  <2>9. CASE NameMutants
    BY <2>9 DEF NamesGiven, NameMutants, Gives
  <2>10. CASE ScanText
    BY <2>10 DEF NamesGiven, ScanText, Gives
  <2>11. CASE UNCHANGED vars
    BY <2>11 DEF NamesGiven, vars
  <2> QED BY <2>1, <2>2, <2>3, <2>4, <2>5, <2>6, <2>7, <2>8, <2>9, <2>10, <2>11 DEF CallOrFilter
<1>3. NamesGiven => NamesAreUnique
  <2> SUFFICES ASSUME NamesGiven, Finished("names"), ~Redefines PROVE IsInjective(output)
    BY DEF NamesAreUnique
  <2> DEFINE p == Namer!NameSourcePatches(input)
             q == Namer!MutantKeys(input)
  <2>1. input \in Files /\ output = Namer!NamesOf(input)
    BY DEF NamesGiven, Finished
  <2>2. IsFile(input) /\ BodyMutations \in Nat
    BY <2>1, InputsAssumption DEF FilesAssumption, IsFile
  <2>3. NoneRedefined(Namer!FunctionsOf(input))
    BY DEF Redefines, NoneRedefined
  <2>4. p \in Seq(PatchesIn(input) \X Nat) /\ IsInjective(p)
    BY <2>2, PatchNamesAreUnique
  <2>5. q \in Seq(KeysIn(input) \X Nat) /\ IsInjective(q)
    BY <2>2, <2>3, KeysAreUnique
  <2>6. (PatchesIn(input) \X Nat) \cap (KeysIn(input) \X Nat) = {}
    <3>1. \A x \in PatchesIn(input), y \in KeysIn(input) : x # y
      BY DEF PatchesIn, KeysIn
    <3> QED BY <3>1
  <2>7. output = p \o q
    BY <2>1 DEF Namer!NamesOf
  <2> HIDE DEF p, q
  <2> QED BY <2>4, <2>5, <2>6, <2>7, ApartTogether
<1> QED BY <1>1, <1>2, <1>3, PTL DEF CallsAndFiltersSpec

-----------------------------------------------------------------------------
(* Texts                                                                    *)

TextGiven ==
  subject = "text" =>
      /\ input \in Texts
      /\ done => LET stripped == Scanner!StripInlineComments(input)
                 IN output = [depth  |-> Scanner!ParenDepthChange(input),
                              length |-> Len(stripped),
                              splits |-> Scanner!SplitsAtDepth0(stripped)]

\* Whatever a text of whole tokens holds (but a quote of its own kind in a triple-quoted string),
\* paren_depth_change, strip_inline_comments and split_all_at_depth0 find what Python finds.
THEOREM TextIsReadAsPythonReadsIt == CallsAndFiltersSpec => []ScannerFollowsTheLexer
<1>1. GivenCallOrFilter /\ Unstarted => TextGiven
  BY DEF GivenCallOrFilter, Given, Unstarted, TextGiven
<1>2. TextGiven /\ [CallOrFilter]_vars => TextGiven'
  <2> SUFFICES ASSUME TextGiven, [CallOrFilter]_vars PROVE TextGiven'
    OBVIOUS
  <2>1. CASE Call
    BY <2>1 DEF TextGiven, Call, Gives
  <2>2. CASE Dispatch
    BY <2>2 DEF TextGiven, Dispatch, Gives
  <2>3. CASE Sample
    BY <2>3 DEF TextGiven, Sample, Gives
  <2>4. CASE TypeCheck
    BY <2>4 DEF TextGiven, TypeCheck, Gives
  <2>5. CASE ParseDiff
    BY <2>5 DEF TextGiven, ParseDiff, Gives
  <2>6. CASE ReportTwice
    BY <2>6 DEF TextGiven, ReportTwice, Gives
  <2>7. CASE Match
    BY <2>7 DEF TextGiven, Match, Gives
  <2>8. CASE ImportAll
    BY <2>8 DEF TextGiven, ImportAll, Gives
  <2>9. CASE NameMutants
    BY <2>9 DEF TextGiven, NameMutants, Gives
  <2>10. CASE ScanText
    BY <2>10 DEF TextGiven, ScanText, Gives
  <2>11. CASE UNCHANGED vars
    BY <2>11 DEF TextGiven, vars
  <2> QED BY <2>1, <2>2, <2>3, <2>4, <2>5, <2>6, <2>7, <2>8, <2>9, <2>10, <2>11 DEF CallOrFilter
<1>3. TextGiven => ScannerFollowsTheLexer
  <2> DEFINE r == Scanner!StripInlineComments(input)
  <2> SUFFICES ASSUME TextGiven, Finished("text"), Scanner!WellFormed(input), ~Scanner!Lexed(input).odd
               PROVE  /\ output.depth = Scanner!Lexed(input).depth
                      /\ output.splits = Scanner!Lexed(input).splits
                      /\ output.length = IF Scanner!Lexed(input).comment = 0 THEN Len(input)
                                         ELSE Scanner!Lexed(input).comment - 1
    BY DEF ScannerFollowsTheLexer
  <2>1. /\ input \in Texts
        /\ output = [depth  |-> Scanner!ParenDepthChange(input),
                     length |-> Len(r),
                     splits |-> Scanner!SplitsAtDepth0(r)]
    BY DEF TextGiven, Finished
  <2>2. input \in Seq(STRING)
    BY <2>1, InputsAssumption DEF TextsAssumption
  \* An instance of the scanner without parameters is the scanner.
  <2>3. \A t : Scanner!Lexed(t) = Lexed(t)
    BY DEF Scanner!Lexed, Lexed, Scanner!Lex, Lex, Scanner!LexToken, LexToken, Scanner!LexString,
           LexString, Scanner!LexStart, LexStart, Scanner!Triple, Triple, Scanner!Quotes, Quotes
  <2>4. \A t, a : Scanner!Scan(t, a) = Scan(t, a)
    BY DEF Scanner!Scan, Scan, Scanner!Next, Next, Scanner!Item, Item, Scanner!Start, Start,
           Scanner!Triple, Triple, Scanner!Quotes, Quotes
  <2>5. \A t : Scanner!CommentStart(t) = CommentStart(t)
    BY DEF Scanner!CommentStart, CommentStart, Scanner!SeekComment, SeekComment,
           Scanner!Quotes, Quotes
  <2>6. Scanner!WellFormed(input) <=> WellFormed(input)
    BY <2>3 DEF Scanner!WellFormed, WellFormed
  <2>7. r = StripInlineComments(input)
    BY <2>5 DEF Scanner!StripInlineComments, StripInlineComments
  <2>8. /\ Scanner!ParenDepthChange(input) = ParenDepthChange(input)
        /\ Scanner!SplitsAtDepth0(r) = SplitsAtDepth0(r)
    BY <2>4 DEF Scanner!ParenDepthChange, ParenDepthChange, Scanner!SplitsAtDepth0, SplitsAtDepth0
  <2> HIDE DEF r
  <2>9. /\ ParenDepthChange(input) = Lexed(input).depth
        /\ SplitsAtDepth0(r) = Lexed(input).splits
        /\ Len(r) = IF Lexed(input).comment = 0 THEN Len(input) ELSE Lexed(input).comment - 1
    BY <2>2, <2>3, <2>6, <2>7, ScannerFindsTokens
  <2> QED BY <2>1, <2>3, <2>8, <2>9
<1> QED BY <1>1, <1>2, <1>3, PTL DEF CallsAndFiltersSpec
=============================================================================
