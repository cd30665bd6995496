----------------------------- MODULE FoldLemmas -----------------------------
(***************************************************************************)
(* What the proofs about folds need: induction over the natural numbers,   *)
(* stated with a set in the place of a predicate, the maxima by which      *)
(* FoldLeft takes a sequence apart, and the function by which it goes over *)
(* it; and what those about numbers need of quotients and remainders.      *)
(***************************************************************************)
EXTENDS Integers, SequencesExt, WellFoundedInduction, TLAPS

\* A set with 0 and every successor has every natural number: the least that
\* it did not have would be a successor.
LEMMA NatSet ==
  ASSUME NEW S, 0 \in S, \A n \in Nat : n \in S => n + 1 \in S
  PROVE  \A n \in Nat : n \in S
<1> DEFINE T == Nat \ S
           R == OpToRel(<, Nat)
<1>1. SUFFICES ASSUME T # {} PROVE FALSE
  OBVIOUS
<1>2. IsWellFoundedOn(R, Nat)
  BY NatLessThanWellFounded
<1>3. PICK x \in T : \A y \in T : ~(<<y, x>> \in R)
  <2> HIDE DEF R
  <2>1. T \subseteq Nat
    OBVIOUS
  <2> HIDE DEF T
  <2> QED BY <1>1, <1>2, <2>1, WFMin
<1>4. \A y \in T : ~(y < x)
  BY <1>3 DEF OpToRel
<1>5. x # 0 /\ x - 1 \in Nat /\ x - 1 \notin T
  BY <1>4
<1> QED BY <1>5

\* Induction up to a number.
LEMMA UpTo ==
  ASSUME NEW n \in Nat, NEW S, 0 \in S, \A k \in 0..(n - 1) : k \in S => k + 1 \in S
  PROVE  \A k \in 0..n : k \in S
<1> DEFINE T == {k \in Nat : k <= n => k \in S}
<1>1. 0 \in T
  OBVIOUS
<1>2. ASSUME NEW k \in Nat, k \in T PROVE k + 1 \in T
  <2>1. k + 1 <= n => k \in 0..(n - 1)
    OBVIOUS
  <2> QED BY <1>2, <2>1
<1>3. \A k \in Nat : k \in T
  <2> HIDE DEF T
  <2> QED BY <1>1, <1>2, NatSet
<1>4. \A k \in 0..n : k \in Nat /\ k <= n
  OBVIOUS
<1> QED BY <1>3, <1>4

\* A set of numbers that is bounded has a greatest.
LEMMA MaxIsGreatest ==
  \A n \in Nat : \A s \in SUBSET (1..n) :
    s # {} => Max(s) \in s /\ \A y \in s : Max(s) >= y
<1> DEFINE S == {n \in Nat : \A s \in SUBSET (1..n) :
                               s # {} => \E x \in s : \A y \in s : x >= y}
<1>1. 0 \in S
  <2>1. 1..0 = {}
    OBVIOUS
  <2> QED BY <2>1
<1>2. ASSUME NEW n \in Nat, n \in S PROVE n + 1 \in S
  <2> SUFFICES ASSUME NEW s \in SUBSET (1..(n + 1)), s # {}
               PROVE  \E x \in s : \A y \in s : x >= y
    OBVIOUS
  <2>1. CASE n + 1 \in s
    BY <2>1
  <2>2. CASE n + 1 \notin s
    <3>1. s \in SUBSET (1..n)
      BY <2>2
    <3> QED BY <1>2, <3>1
  <2> QED BY <2>1, <2>2
<1>3. \A n \in Nat : n \in S
  <2> HIDE DEF S
  <2> QED BY <1>1, <1>2, NatSet
<1> QED BY <1>3 DEF Max

\* The elements a fold is over are taken away from the last on.
LEMMA MaxIsOne ==
  ASSUME NEW n \in Nat, NEW s \in SUBSET (1..n), s # {}
  PROVE  Max(s) \in s /\ Max(s) \in 1..n /\ Max(s) \in Nat
<1> DEFINE x == Max(s)
<1>1. x \in s
  BY MaxIsGreatest
<1> HIDE DEF x
<1>2. x \in 1..n
  BY <1>1
<1>3. x \in Nat
  BY <1>2
<1> QED BY <1>1, <1>2, <1>3 DEF x

LEMMA LastOfInterval ==
  ASSUME NEW k \in Nat
  PROVE  /\ Max(1..(k + 1)) = k + 1
         /\ 1..(k + 1) # {} /\ (1..(k + 1)) \ {k + 1} = 1..k
<1>1. k + 1 \in 1..(k + 1) /\ k + 1 \in Nat
  OBVIOUS
<1>2. Max(1..(k + 1)) \in 1..(k + 1) /\ Max(1..(k + 1)) >= k + 1
  BY <1>1, MaxIsGreatest
<1>3. Max(1..(k + 1)) = k + 1
  BY <1>2
<1>4. (1..(k + 1)) \ {k + 1} = 1..k
  OBVIOUS
<1> QED BY <1>1, <1>3, <1>4

LEMMA MaxWithin ==
  ASSUME NEW m \in Nat, NEW s \in SUBSET (1..(m + 1)), s # {}
  PROVE  /\ Max(s) \in s
         /\ m + 1 \in s => Max(s) = m + 1
         /\ m + 1 \notin s => s \in SUBSET (1..m)
<1>1. m + 1 \in Nat
  OBVIOUS
<1>2. Max(s) \in s /\ \A y \in s : Max(s) >= y
  BY <1>1, MaxIsGreatest
<1>3. ASSUME NEW x \in s, \A y \in s : x >= y, m + 1 \in s PROVE x = m + 1
  BY <1>3
<1>4. m + 1 \notin s => s \in SUBSET (1..m)
  OBVIOUS
<1> QED BY <1>2, <1>3, <1>4

\* How FoldLeft goes over a sequence: an element is taken off at its end.
FromLast(h, f, d, n) ==
  \A s \in SUBSET (1..n) : h[s] = IF s = {} THEN d ELSE f[Max(s)][h[s \ {Max(s)}]]

\* There is the function by which FoldLeft is defined, when what is folded
\* is a function that stays in a set.
LEMMA Iterates ==
  ASSUME NEW X, NEW f \in [Nat -> [X -> X]], NEW d \in X, NEW n \in Nat
  PROVE  \E h \in [SUBSET (1..n) -> X] : FromLast(h, f, d, n)
<1> DEFINE Over(m, h) ==
             \A s \in SUBSET (1..m) : h[s] = IF s = {} THEN d ELSE f[Max(s)][h[s \ {Max(s)}]]
           S == {m \in Nat : \E h \in [SUBSET (1..m) -> X] : Over(m, h)}
<1>1. 0 \in S
  <2> DEFINE h == [s \in SUBSET (1..0) |-> d]
  <2>1. \A s \in SUBSET (1..0) : s = {}
    OBVIOUS
  <2>2. h \in [SUBSET (1..0) -> X] /\ Over(0, h)
    BY <2>1
  <2> QED BY <2>2
<1>2. ASSUME NEW m \in Nat, m \in S PROVE m + 1 \in S
  <2>1. PICK g \in [SUBSET (1..m) -> X] : Over(m, g)
    BY <1>2
  <2> DEFINE h == [s \in SUBSET (1..(m + 1)) |->
                     IF m + 1 \notin s THEN g[s] ELSE f[m + 1][g[s \ {m + 1}]]]
  <2>2. ASSUME NEW s \in SUBSET (1..(m + 1))
        PROVE  /\ m + 1 \notin s => s \in SUBSET (1..m)
               /\ s \ {m + 1} \in SUBSET (1..m)
    OBVIOUS
  <2>3. h \in [SUBSET (1..(m + 1)) -> X]
    <3>1. ASSUME NEW s \in SUBSET (1..(m + 1))
          PROVE  (IF m + 1 \notin s THEN g[s] ELSE f[m + 1][g[s \ {m + 1}]]) \in X
      BY <2>2
    <3> QED BY <3>1
  <2>4. ASSUME NEW s \in SUBSET (1..(m + 1))
        PROVE  h[s] = IF s = {} THEN d ELSE f[Max(s)][h[s \ {Max(s)}]]
    <3>1. CASE s = {}
      <4>1. g[{}] = d
        BY <2>1
      <4> QED BY <3>1, <4>1
    <3>2. CASE s # {} /\ m + 1 \in s
      <4>1. Max(s) = m + 1
        BY <3>2, MaxWithin
      <4>2. s \ {m + 1} \in SUBSET (1..(m + 1)) /\ m + 1 \notin s \ {m + 1}
        OBVIOUS
      <4>3. h[s \ {m + 1}] = g[s \ {m + 1}]
        BY <4>2
      <4> QED BY <3>2, <4>1, <4>3
    <3>3. CASE s # {} /\ m + 1 \notin s
      <4>1. s \in SUBSET (1..m)
        BY <2>2, <3>3
      <4> DEFINE r == s \ {Max(s)}
      <4>2. g[s] = f[Max(s)][g[r]]
        BY <2>1, <3>3, <4>1
      <4>3. r \in SUBSET (1..(m + 1)) /\ m + 1 \notin r
        BY <3>3
      <4> HIDE DEF r
      <4>4. h[r] = g[r] /\ h[s] = g[s]
        BY <3>3, <4>3
      <4> QED BY <3>3, <4>2, <4>4 DEF r
    <3> QED BY <3>1, <3>2, <3>3
  <2> HIDE DEF h
  <2>5. \E q \in [SUBSET (1..(m + 1)) -> X] : Over(m + 1, q)
    BY <2>3, <2>4
  <2>6. m + 1 \in Nat
    OBVIOUS
  <2> HIDE DEF Over
  <2> QED BY <2>5, <2>6
<1>3. \A m \in Nat : m \in S
  <2> HIDE DEF S
  <2> QED BY <1>1, <1>2, NatSet
<1>4. n \in S
  BY <1>3
<1>5. \E h \in [SUBSET (1..n) -> X] : Over(n, h)
  BY <1>4
<1> QED BY <1>5 DEF FromLast

-----------------------------------------------------------------------------
\* Quotients and remainders of natural numbers.
LEMMA Division ==
  ASSUME NEW a \in Nat, NEW b \in Nat \ {0}
  PROVE  a = b * (a \div b) + (a % b) /\ a % b \in 0..(b - 1) /\ a \div b \in Nat
OBVIOUS

\* Only one quotient leaves a remainder.
LEMMA OneQuotient ==
  ASSUME NEW b \in Nat \ {0}, NEW p \in Nat, NEW q \in Nat,
         NEW r \in 0..(b - 1), NEW s \in 0..(b - 1), b * p + r = b * q + s
  PROVE  p = q
<1>1. ASSUME NEW x \in Nat, NEW y \in Nat, x < y PROVE b * x + b <= b * y
  <2>1. b * (x + 1) <= b * y
    BY <1>1
  <2>2. b * (x + 1) = b * x + b
    OBVIOUS
  <2> QED BY <2>1, <2>2
<1>2. ~(p < q)
  BY <1>1
<1>3. ~(q < p)
  BY <1>1
<1> QED BY <1>2, <1>3

\* A quotient is less than what the number is less than so many times.
LEMMA QuotientBelow ==
  ASSUME NEW a \in Nat, NEW b \in Nat \ {0}, NEW c \in Nat, a < b * c
  PROVE a \div b < c
<1> DEFINE q == a \div b
<1>1. a = b * q + (a % b) /\ a % b \in 0..(b - 1) /\ q \in Nat
  BY Division
<1> HIDE DEF q
<1>2. ASSUME q >= c PROVE FALSE
  <2>1. b * q >= b * c
    BY <1>1, <1>2
  <2> QED BY <1>1, <2>1
<1> QED BY <1>1, <1>2 DEF q

\* Dividing twice.
LEMMA QuotientTwice ==
  ASSUME NEW n \in Nat, NEW a \in Nat \ {0}, NEW b \in Nat \ {0}
  PROVE  (n \div a) \div b = n \div (a * b)
<1> DEFINE q == n \div a  r == n % a  p == q \div b  s == q % b
           c == a * b  t == a * s + r
<1>1. n = a * q + r /\ r \in 0..(a - 1) /\ q \in Nat
  BY Division
<1>2. q = b * p + s /\ s \in 0..(b - 1) /\ p \in Nat
  BY <1>1, Division
<1>3. c \in Nat \ {0}
  OBVIOUS
<1>4. n = c * (n \div c) + (n % c) /\ n % c \in 0..(c - 1) /\ n \div c \in Nat
  BY <1>3, Division
<1> HIDE DEF q, r, p, s
<1>5. n = c * p + t
  <2>1. a * (b * p + s) = (a * b) * p + a * s
    BY <1>2
  <2> QED BY <1>1, <1>2, <2>1
<1>6. t \in 0..(c - 1)
  <2>1. a * s <= a * (b - 1) /\ a * s \in Nat
    BY <1>2
  <2>2. a * (b - 1) = c - a
    OBVIOUS
  <2> QED BY <1>1, <1>3, <2>1, <2>2
<1> HIDE DEF c, t
<1>7. p = n \div c
  <2> DEFINE m == n % c  u == n \div c
  <2>1. c * p + t = c * u + m /\ m \in 0..(c - 1) /\ u \in Nat
    BY <1>4, <1>5
  <2> HIDE DEF m, u
  <2>2. p = u
    BY <1>2, <1>3, <1>6, <2>1, OneQuotient
  <2> QED BY <2>2 DEF u
<1> QED BY <1>7 DEF p, q, c
=============================================================================
