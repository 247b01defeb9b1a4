-------------------------- MODULE JcsEncodeProofs --------------------------
(***************************************************************************)
(* For floats of any length and size and for ints, where jcs.py writes     *)
(* what RFC 8785 prescribes and where it does not.                         *)
(***************************************************************************)
EXTENDS JcsEncode, TLAPS, WellFoundedInduction

\* Floats from 1e16 up to 1e21, and from 1e-6 up to 1e-4, upper bounds excluded.
Misplaced(n) == n \in 17..21 \cup {-5, -4}

(***************************************************************************)
(* A float is written as ECMAScript writes it exactly outside the ranges   *)
(* of Misplaced: jcs.py:97-115 is right below and above them, whatever its *)
(* digits.                                                                 *)
(***************************************************************************)
THEOREM FloatsAgree ==
  ASSUME NEW k \in Nat \ {0}, NEW n \in Int
  PROVE  EncodeFloat(FloatOf(k, n)) = EcmaScriptForm(FloatOf(k, n))
           <=> ~Misplaced(n)
<1> SUFFICES ASSUME NEW x, x.k = k, x.n = n
             PROVE  EncodeFloat(x) = EcmaScriptForm(x) <=> ~Misplaced(n)
  BY DEF FloatOf
<1>0. x.k = k /\ x.n = n
  OBVIOUS
<1>1. CASE n > 21
  <2>1. EcmaScriptForm(x) = "exponent"
    BY <1>0, <1>1 DEF EcmaScriptForm, Whole
  <2>2. Repr(x) = "exponent"
    BY <1>0, <1>1 DEF Repr, Whole
  <2> QED
    BY <1>0, <1>1, <2>1, <2>2 DEF EncodeFloat, StripExponent, Whole, Misplaced
<1>2. CASE n \in 17..21
  <2>1. EcmaScriptForm(x) \in {"digits", "point"}
    BY <1>0, <1>2 DEF EcmaScriptForm, Whole
  <2>2. Repr(x) = "exponent"
    BY <1>0, <1>2 DEF Repr, Whole
  <2> QED
    BY <1>0, <1>2, <2>1, <2>2 DEF EncodeFloat, StripExponent, Whole, Misplaced
<1>3. CASE n \in 1..16
  <2>1. EcmaScriptForm(x) = IF k <= n THEN "digits" ELSE "point"
    BY <1>0, <1>3 DEF EcmaScriptForm, Whole
  <2>2. n < k => Repr(x) = "point"
    BY <1>0, <1>3 DEF Repr, Whole
  <2> QED
    BY <1>0, <1>3, <2>1, <2>2 DEF EncodeFloat, StripExponent, Whole, Misplaced
<1>4. CASE n \in -3..0
  <2>1. EcmaScriptForm(x) = "zeroPoint" /\ Repr(x) = "zeroPoint"
    BY <1>0, <1>4 DEF EcmaScriptForm, Repr, Whole
  <2> QED
    BY <1>0, <1>4, <2>1 DEF EncodeFloat, StripExponent, Whole, Misplaced
<1>5. CASE n \in {-5, -4}
  <2>1. EcmaScriptForm(x) = "zeroPoint" /\ Repr(x) = "paddedExponent"
    BY <1>0, <1>5 DEF EcmaScriptForm, Repr, Whole
  <2> QED
    BY <1>0, <1>5, <2>1 DEF EncodeFloat, StripExponent, Whole, Misplaced
<1>6. CASE n < -5
  <2>1. EcmaScriptForm(x) = "exponent"
    BY <1>0, <1>6 DEF EcmaScriptForm, Whole
  <2>2. Repr(x) \in {"exponent", "paddedExponent"}
    BY <1>0, <1>6 DEF Repr, Whole
  <2> QED
    BY <1>0, <1>6, <2>1, <2>2 DEF EncodeFloat, StripExponent, Whole, Misplaced
<1> QED
  BY <1>1, <1>2, <1>3, <1>4, <1>5, <1>6

-----------------------------------------------------------------------------
(* The recursive functions that ints are about satisfy their equations.    *)

LEMMA Least ==
  ASSUME NEW T, T \subseteq Nat, T # {}
  PROVE  \E x \in T : \A y \in T : x <= y
<1>1. PICK x \in T : \A y \in T : ~(<<y, x>> \in OpToRel(<, Nat))
  BY NatLessThanWellFounded, WFMin
<1>2. OpToRel(<, Nat) = {s \in Nat \X Nat : s[1] < s[2]}
  BY DEF OpToRel
<1>3. \A y \in T : ~(y < x)
  <2> TAKE y \in T
  <2>1. x \in Nat /\ y \in Nat /\ <<y, x>> \in Nat \X Nat
    OBVIOUS
  <2>2. QED BY <1>1, <1>2, <2>1
<1>4. QED BY <1>3

\* f is the function that is b at base, and elsewhere one step from a smaller number.
Steps(f, V, base, b, step, next) ==
  f \in [Nat -> V] /\ \A n \in Nat : f[n] = IF n \in base THEN b ELSE step[f[next[n]]]

(* There is one.                                                           *)
LEMMA Recursion ==
  ASSUME NEW V, NEW base, base \subseteq Nat, NEW b \in V, NEW step \in [V -> V],
         NEW next \in [Nat -> Nat], \A n \in Nat : n \notin base => next[n] < n
  PROVE  \E f : Steps(f, V, base, b, step, next)
<1> DEFINE Body(f, n) == IF n \in base THEN b ELSE step[f[next[n]]]
           Solves(f, k) == f \in [Nat -> V] /\ \A n \in 0..k : f[n] = Body(f, n)
           Unsolved == {k \in Nat : ~\E f : Solves(f, k)}
<1>1. ASSUME NEW f, NEW k \in Nat, Solves(f, k)
      PROVE  Solves([n \in Nat |-> Body(f, n)], k + 1)
  <2> DEFINE g == [n \in Nat |-> Body(f, n)]
  <2>1. g \in [Nat -> V]
    BY <1>1
  <2>2. ASSUME NEW n \in 0..k + 1 PROVE g[n] = Body(g, n)
    <3>1. CASE n \in base
      BY <3>1
    <3>2. CASE n \notin base
      <4>1. next[n] \in 0..k
        BY <3>2
      <4>2. g[next[n]] = f[next[n]]
        BY <1>1, <4>1
      <4>3. n \in Nat /\ g[n] = Body(f, n)
        OBVIOUS
      <4> HIDE DEF g
      <4>4. QED BY <3>2, <4>2, <4>3
    <3>3. QED BY <3>1, <3>2
  <2>3. QED BY <2>1, <2>2
<1>2. Unsolved = {}
  <2> SUFFICES ASSUME Unsolved # {} PROVE FALSE
    OBVIOUS
  <2>1. PICK k \in Unsolved : \A j \in Unsolved : k <= j
    BY Least
  <2>2. CASE k = 0
    <3>1. 0 \in base
      OBVIOUS
    <3>2. Solves([n \in Nat |-> b], 0)
      BY <3>1
    <3>3. QED BY <2>1, <2>2, <3>2
  <2>3. CASE k # 0
    <3>1. k - 1 \in Nat /\ k - 1 \notin Unsolved
      BY <2>1, <2>3
    <3>2. PICK f : Solves(f, k - 1)
      BY <3>1
    <3>3. \E g : Solves(g, (k - 1) + 1)
      <4> HIDE DEF Solves
      <4>1. QED BY <1>1, <3>1, <3>2
    <3>4. (k - 1) + 1 = k
      BY <2>1
    <3>5. QED BY <2>1, <3>3, <3>4
  <2>4. QED BY <2>2, <2>3
<1>3. ASSUME NEW f, NEW g, NEW k \in Nat, NEW m \in Nat, Solves(f, k), Solves(g, m),
             NEW n \in Nat, n <= k, n <= m
      PROVE  f[n] = g[n]
  <2> DEFINE Apart == {j \in 0..n : f[j] # g[j]}
  <2> SUFFICES ASSUME Apart # {} PROVE FALSE
    BY <1>3
  <2>1. PICK j \in Apart : \A i \in Apart : j <= i
    <3>1. Apart \subseteq Nat
      OBVIOUS
    <3> HIDE DEF Apart
    <3>2. QED BY <3>1, Least
  <2>2. j \in 0..k /\ j \in 0..m /\ f[j] = Body(f, j) /\ g[j] = Body(g, j)
    BY <1>3
  <2>3. j \notin base
    BY <2>1, <2>2
  <2>4. next[j] \in 0..n /\ next[j] < j
    BY <1>3, <2>3
  <2>5. f[next[j]] = g[next[j]]
    BY <2>1, <2>4
  <2>6. QED BY <2>1, <2>2, <2>5
<1> DEFINE S(n) == CHOOSE f : Solves(f, n)
           F == [n \in Nat |-> S(n)[n]]
<1>4. ASSUME NEW n \in Nat PROVE Solves(S(n), n)
  <2>1. \E f : Solves(f, n)
    BY <1>2
  <2> HIDE DEF Solves
  <2>2. QED BY <2>1
<1>5. F \in [Nat -> V]
  <2> HIDE DEF S
  <2>1. \A n \in Nat : S(n)[n] \in V
    BY <1>4
  <2>2. QED BY <2>1
<1>6. ASSUME NEW n \in Nat PROVE F[n] = Body(F, n)
  <2>1. F[n] = Body(S(n), n)
    <3> HIDE DEF S
    <3>1. QED BY <1>4
  <2>2. ASSUME n \notin base PROVE S(n)[next[n]] = F[next[n]]
    <3>1. next[n] \in Nat /\ next[n] < n
      BY <2>2
    <3>2. Solves(S(n), n) /\ Solves(S(next[n]), next[n])
      BY <1>4, <3>1
    <3> HIDE DEF Solves, S
    <3>3. S(n)[next[n]] = S(next[n])[next[n]]
      BY <1>3, <3>1, <3>2
    <3>4. QED BY <3>1, <3>3
  <2> HIDE DEF F, S
  <2>3. QED BY <2>1, <2>2
<1>7. QED
  <2> HIDE DEF F
  <2>1. QED BY <1>5, <1>6 DEF Steps

\* Of the numbers 2^53 and 10^21 only this matters: the first is even, the second no
\* smaller.
Format(H) ==
  /\ H \in Nat \ {0} /\ Significand = 2 * H
  /\ ExponentFrom \in Nat /\ Significand <= ExponentFrom

LEMMA UlpDef ==
  ASSUME NEW H, Format(H)
  PROVE  /\ Ulp \in [Nat -> Nat \ {0}]
         /\ \A v \in Nat : Ulp[v] = IF v < Significand THEN 1 ELSE 2 * Ulp[v \div 2]
<1> DEFINE base == {v \in Nat : v < Significand}
           step == [x \in Nat \ {0} |-> 2 * x]
           next == [v \in Nat |-> v \div 2]
           Eq(f) == f = [v \in Nat |-> IF v < Significand THEN 1 ELSE 2 * f[v \div 2]]
<1>1. /\ base \subseteq Nat /\ 1 \in Nat \ {0} /\ step \in [Nat \ {0} -> Nat \ {0}]
      /\ next \in [Nat -> Nat] /\ \A v \in Nat : v \notin base => next[v] < v
  BY DEF Format
<1>2. \E f : Steps(f, Nat \ {0}, base, 1, step, next)
  <2> HIDE DEF base, step, next
  <2>1. QED BY <1>1, Recursion
<1>3. PICK f : Steps(f, Nat \ {0}, base, 1, step, next)
  BY <1>2
<1>4. \A v \in Nat : f[v] = IF v < Significand THEN 1 ELSE 2 * f[v \div 2]
  BY <1>1, <1>3 DEF Steps
<1>5. Eq(f)
  <2>1. f = [v \in Nat |-> f[v]]
    BY <1>3 DEF Steps
  <2>2. [v \in Nat |-> f[v]] = [v \in Nat |-> IF v < Significand THEN 1 ELSE 2 * f[v \div 2]]
    BY <1>4
  <2>3. QED BY <2>1, <2>2
<1>6. Eq(Ulp)
  BY <1>5 DEF Ulp
<1>7. Ulp \in [Nat -> Nat \ {0}]
  <2> SUFFICES ASSUME {v \in Nat : Ulp[v] \notin Nat \ {0}} # {} PROVE FALSE
    BY <1>6
  <2>1. PICK v \in {w \in Nat : Ulp[w] \notin Nat \ {0}} :
          \A w \in {x \in Nat : Ulp[x] \notin Nat \ {0}} : v <= w
    BY Least
  <2>2. Ulp[v] = IF v < Significand THEN 1 ELSE 2 * Ulp[v \div 2]
    BY <1>6
  <2>3. ~(v < Significand) => v \div 2 \in Nat /\ v \div 2 < v
    BY DEF Format
  <2>4. ~(v < Significand) => Ulp[v \div 2] \in Nat \ {0}
    BY <2>1, <2>3
  <2>5. QED BY <2>1, <2>2, <2>4
<1>8. QED BY <1>6, <1>7

LEMMA ZerosDef ==
  /\ Zeros \in [Nat -> Nat]
  /\ \A s \in Nat : Zeros[s] = IF s = 0 \/ s % 10 # 0 THEN 0 ELSE 1 + Zeros[s \div 10]
<1> DEFINE base == {s \in Nat : s = 0 \/ s % 10 # 0}
           step == [x \in Nat |-> 1 + x]
           next == [s \in Nat |-> s \div 10]
           Eq(f) == f = [s \in Nat |-> IF s = 0 \/ s % 10 # 0 THEN 0 ELSE 1 + f[s \div 10]]
<1>1. /\ base \subseteq Nat /\ 0 \in Nat /\ step \in [Nat -> Nat]
      /\ next \in [Nat -> Nat] /\ \A s \in Nat : s \notin base => next[s] < s
  OBVIOUS
<1>2. \E f : Steps(f, Nat, base, 0, step, next)
  <2> HIDE DEF base, step, next
  <2>1. QED BY <1>1, Recursion
<1>3. PICK f : Steps(f, Nat, base, 0, step, next)
  BY <1>2
<1>4. \A s \in Nat : f[s] = IF s = 0 \/ s % 10 # 0 THEN 0 ELSE 1 + f[s \div 10]
  BY <1>1, <1>3 DEF Steps
<1>5. Eq(f)
  <2>1. f = [s \in Nat |-> f[s]]
    BY <1>3 DEF Steps
  <2>2. [s \in Nat |-> f[s]] = [s \in Nat |-> IF s = 0 \/ s % 10 # 0 THEN 0 ELSE 1 + f[s \div 10]]
    BY <1>4
  <2>3. QED BY <2>1, <2>2
<1>6. Eq(Zeros)
  BY <1>5 DEF Zeros
<1>7. Zeros \in [Nat -> Nat]
  <2> SUFFICES ASSUME {s \in Nat : Zeros[s] \notin Nat} # {} PROVE FALSE
    BY <1>6
  <2>1. PICK s \in {w \in Nat : Zeros[w] \notin Nat} :
          \A w \in {x \in Nat : Zeros[x] \notin Nat} : s <= w
    BY Least
  <2>2. Zeros[s] = IF s = 0 \/ s % 10 # 0 THEN 0 ELSE 1 + Zeros[s \div 10]
    BY <1>6
  <2>3. ~(s = 0 \/ s % 10 # 0) => s \div 10 \in Nat /\ s \div 10 < s
    OBVIOUS
  <2>4. ~(s = 0 \/ s % 10 # 0) => Zeros[s \div 10] \in Nat
    BY <2>1, <2>3
  <2>5. QED BY <2>1, <2>2, <2>4
<1>8. QED BY <1>6, <1>7

-----------------------------------------------------------------------------
(* Doubles. *)

\* v lies among the doubles whose distance is Ulp[v].
InBinade(H, v) == H * Ulp[v] <= v /\ v < 2 * (H * Ulp[v])

LEMMA UlpBinade ==
  ASSUME NEW H, Format(H), NEW v \in Nat, Significand <= v
  PROVE  InBinade(H, v) /\ 2 <= Ulp[v] /\ Ulp[v] % 2 = 0
<1> DEFINE Good(w) == InBinade(H, w) /\ 2 <= Ulp[w] /\ Ulp[w] % 2 = 0
           Bad == {w \in Nat : Significand <= w /\ ~Good(w)}
<1> SUFFICES ASSUME Bad # {} PROVE FALSE
  OBVIOUS
<1>1. PICK w \in Bad : \A x \in Bad : w <= x
  <2>1. Bad \subseteq Nat
    OBVIOUS
  <2> HIDE DEF Bad
  <2>2. QED BY <2>1, Least
<1> DEFINE half == w \div 2
<1>2. /\ w \in Nat /\ H \in Nat \ {0} /\ 2 * H <= w /\ half \in Nat /\ half < w
      /\ (w = 2 * half \/ w = 2 * half + 1)
  BY <1>1 DEF Format
<1>3. Ulp[w] = 2 * Ulp[half] /\ Ulp[half] \in Nat \ {0}
  <2>1. ~(w < Significand)
    BY <1>2 DEF Format
  <2> HIDE DEF Bad
  <2>2. QED BY <1>2, <2>1, UlpDef
<1>4. CASE half < 2 * H
  <2>1. Ulp[half] = 1
    BY <1>2, <1>4, UlpDef DEF Format
  <2>2. Ulp[w] = 2
    BY <1>3, <2>1
  <2> HIDE DEF half
  <2>3. Good(w)
    BY <1>2, <1>4, <2>2 DEF InBinade
  <2>4. QED BY <1>1, <2>3
<1>5. CASE 2 * H <= half
  <2>1. half \notin Bad
    BY <1>1, <1>2
  <2>2. InBinade(H, half)
    BY <1>2, <1>5, <2>1 DEF Format
  <2> HIDE DEF half
  <2> DEFINE p == H * Ulp[half]
  <2>3. p \in Nat /\ p <= half /\ half < 2 * p
    BY <1>2, <1>3, <2>2 DEF InBinade
  <2>4. H * Ulp[w] = 2 * p
    BY <1>2, <1>3
  <2>5. InBinade(H, w)
    <3> HIDE DEF p
    <3>1. QED BY <1>2, <2>3, <2>4 DEF InBinade
  <2>6. 2 <= Ulp[w] /\ Ulp[w] % 2 = 0
    BY <1>3
  <2>7. QED BY <1>1, <2>5, <2>6
<1>6. QED BY <1>2, <1>4, <1>5

(* The distance is the same for all doubles of a binade.                   *)
LEMMA UlpConstant ==
  ASSUME NEW H, Format(H), NEW v \in Nat, Significand <= v, NEW m \in H..2 * H - 1
  PROVE  Ulp[m * Ulp[v]] = Ulp[v]
<1> DEFINE Good(w) == \A x \in H..2 * H - 1 : Ulp[x * Ulp[w]] = Ulp[w]
           Bad == {w \in Nat : Significand <= w /\ ~Good(w)}
<1> SUFFICES ASSUME Bad # {} PROVE FALSE
  OBVIOUS
<1>1. PICK w \in Bad : \A x \in Bad : w <= x
  <2>1. Bad \subseteq Nat
    OBVIOUS
  <2> HIDE DEF Bad
  <2>2. QED BY <2>1, Least
<1> DEFINE half == w \div 2
<1>2. w \in Nat /\ H \in Nat \ {0} /\ 2 * H <= w /\ half \in Nat /\ half < w
  BY <1>1 DEF Format
<1>3. Ulp[w] = 2 * Ulp[half] /\ Ulp[half] \in Nat \ {0}
  <2>1. ~(w < Significand)
    BY <1>2 DEF Format
  <2> HIDE DEF Bad
  <2>2. QED BY <1>2, <2>1, UlpDef
<1>4. ASSUME NEW x \in H..2 * H - 1 PROVE Ulp[x * Ulp[w]] = Ulp[w]
  <2> DEFINE y == x * Ulp[half]
  <2>1. x \in Nat /\ x # 0 /\ H <= x /\ x < 2 * H
    BY <1>2
  <2>2. y \in Nat /\ x <= y
    <3> DEFINE u == Ulp[half]
    <3>1. u \in Nat /\ 1 <= u
      BY <1>3
    <3> HIDE DEF u
    <3>2. x * u \in Nat /\ x * 1 <= x * u
      BY <2>1, <3>1
    <3>3. x * 1 = x
      BY <2>1
    <3>4. QED BY <3>2, <3>3 DEF u
  <2>3. x * Ulp[w] = 2 * y
    BY <1>3, <2>1
  <2>4. 2 * y \in Nat /\ ~(2 * y < Significand) /\ (2 * y) \div 2 = y
    <3> HIDE DEF y
    <3>1. QED BY <1>2, <2>1, <2>2 DEF Format
  <2>5. Ulp[x * Ulp[w]] = 2 * Ulp[y]
    <3> HIDE DEF y
    <3>1. QED BY <2>3, <2>4, UlpDef
  <2>6. Ulp[y] = Ulp[half]
    <3>1. CASE half < Significand
      <4>1. Ulp[half] = 1
        BY <1>2, <3>1, UlpDef
      <4>2. y = x /\ x < Significand
        BY <2>1, <4>1 DEF Format
      <4>3. QED BY <2>1, <4>1, <4>2, UlpDef
    <3>2. CASE ~(half < Significand)
      <4>1. half \notin Bad
        BY <1>1, <1>2
      <4>2. QED BY <1>2, <3>2, <4>1 DEF Format
    <3>3. QED BY <3>1, <3>2
  <2>7. QED BY <1>3, <2>5, <2>6
<1>5. QED BY <1>1, <1>4

(* Division with remainder, for a number that is not a literal.            *)
LEMMA Divided ==
  ASSUME NEW v \in Nat, NEW u \in Nat \ {0}
  PROVE  /\ v \div u \in Nat /\ v % u \in 0..u - 1
         /\ v = (v \div u) * u + (v % u)
OBVIOUS

LEMMA DividedExactly ==
  ASSUME NEW m \in Nat, NEW u \in Nat \ {0}
  PROVE  (m * u) \div u = m /\ (m * u) % u = 0
OBVIOUS

(* Below Significand every int is a double; beyond, the nearest one is one *)
(* of the binade or the first of the next.                                 *)
LEMMA DoubleSmall ==
  ASSUME NEW H, Format(H), NEW v \in Nat, v < Significand
  PROVE  Ulp[v] = 1 /\ Double(v) = v
<1>1. Ulp[v] = 1
  BY UlpDef
<1>2. v \div 1 = v /\ v % 1 = 0
  OBVIOUS
<1>3. QED BY <1>1, <1>2 DEF Double

LEMMA DoubleLarge ==
  ASSUME NEW H, Format(H), NEW v \in Nat, Significand <= v
  PROVE  \E m \in H..2 * H : /\ Double(v) = m * Ulp[v]
                             /\ Double(v) - Ulp[v] <= v /\ v <= Double(v) + Ulp[v]
<1> DEFINE u == Ulp[v]
           q == v \div u
           r == v % u
<1>1. u \in Nat \ {0} /\ H * u <= v /\ v < 2 * (H * u)
  BY UlpDef, UlpBinade DEF InBinade
<1>2. q \in Nat /\ r \in 0..u - 1 /\ v = q * u + r
  BY <1>1, Divided
<1>3. Double(v) = q * u \/ Double(v) = (q + 1) * u
  BY DEF Double
<1>4. H \in Nat \ {0}
  BY DEF Format
<1> HIDE DEF u, q, r
<1>5. (q + 1) * u = q * u + u /\ q * u \in Nat
  BY <1>1, <1>2
<1>6. H <= q
  <2> SUFFICES ASSUME q + 1 <= H PROVE FALSE
    BY <1>2, <1>4
  <2>1. (q + 1) * u <= H * u
    BY <1>1, <1>2, <1>4
  <2>2. QED BY <1>1, <1>2, <1>4, <1>5, <2>1
<1>7. q + 1 <= 2 * H
  <2> SUFFICES ASSUME 2 * H <= q PROVE FALSE
    BY <1>2, <1>4
  <2>1. (2 * H) * u <= q * u
    BY <1>1, <1>2, <1>4
  <2>2. (2 * H) * u = 2 * (H * u) /\ H * u \in Nat
    BY <1>1, <1>4
  <2>3. QED BY <1>1, <1>2, <1>5, <2>1, <2>2
<1>8. CASE Double(v) = q * u
  <2>1. q \in H..2 * H
    BY <1>2, <1>4, <1>6, <1>7
  <2>2. Double(v) - u <= v /\ v <= Double(v) + u
    BY <1>1, <1>2, <1>5, <1>8
  <2>3. QED BY <1>8, <2>1, <2>2 DEF u
<1>9. CASE Double(v) = (q + 1) * u
  <2>1. q + 1 \in H..2 * H
    BY <1>2, <1>4, <1>6, <1>7
  <2>2. Double(v) - u <= v /\ v <= Double(v) + u
    BY <1>1, <1>2, <1>5, <1>9
  <2>3. QED BY <1>9, <2>1, <2>2 DEF u
<1>10. QED BY <1>3, <1>8, <1>9

(* A double is even and no smaller than Significand, if the int was not.   *)
LEMMA DoubleEven ==
  ASSUME NEW H, Format(H), NEW v \in Nat, Significand <= v
  PROVE  Double(v) \in Nat /\ Significand <= Double(v) /\ Double(v) % 2 = 0
<1>1. PICK m \in H..2 * H : Double(v) = m * Ulp[v]
  BY DoubleLarge
<1>2. H \in Nat \ {0} /\ m \in Nat /\ H <= m /\ Significand = 2 * H
  BY <1>1 DEF Format
<1>3. Ulp[v] \in Nat /\ 2 <= Ulp[v] /\ Ulp[v] % 2 = 0
  BY UlpDef, UlpBinade
<1> DEFINE w == Ulp[v] \div 2
<1>4. w \in Nat /\ 1 <= w /\ Ulp[v] = 2 * w
  BY <1>3
<1> HIDE DEF w
<1>5. m * Ulp[v] = 2 * (m * w) /\ m * w \in Nat
  BY <1>2, <1>4
<1>6. m <= m * w
  <2>1. m * 1 <= m * w /\ m * 1 = m
    BY <1>2, <1>4
  <2>2. QED BY <2>1
<1> DEFINE y == m * w
<1>7. Double(v) = 2 * y /\ y \in Nat /\ H <= y
  BY <1>1, <1>2, <1>5, <1>6
<1> HIDE DEF y
<1>8. QED BY <1>2, <1>7

(* A double is the nearest to itself.                                      *)
LEMMA DoubleOfDouble ==
  ASSUME NEW H, Format(H), NEW v \in Nat
  PROVE  Double(v) \in Nat /\ Double(Double(v)) = Double(v)
<1>0. H \in Nat \ {0} /\ Significand = 2 * H
  BY DEF Format
<1>1. CASE v < Significand
  BY <1>1, DoubleSmall
<1>2. CASE Significand <= v
  <2>1. PICK m \in H..2 * H : Double(v) = m * Ulp[v]
    BY <1>2, DoubleLarge
  <2>2. Double(v) \in Nat /\ Significand <= Double(v)
    BY <1>2, DoubleEven
  <2>3. Ulp[v] \in Nat \ {0} /\ m \in Nat
    BY <1>0, UlpDef
  <2> DEFINE u == Ulp[v]
             d == Double(v)
  <2>4. CASE m < 2 * H
    <3>1. Ulp[d] = u
      BY <1>0, <1>2, <2>1, <2>4, UlpConstant
    <3>2. d \div u = m /\ d % u = 0
      BY <2>1, <2>3, DividedExactly
    <3>3. 2 * 0 < u
      BY <2>3
    <3> HIDE DEF u, d
    <3>4. Double(d) = m * u
      BY <3>1, <3>2, <3>3 DEF Double
    <3>5. QED BY <2>1, <2>2, <3>4 DEF u, d
  <2>5. CASE m = 2 * H
    <3> DEFINE y == H * u
    <3>1. H \in H..2 * H - 1
      BY <1>0
    <3>2. Ulp[y] = u
      BY <1>2, <3>1, UlpConstant
    <3>3. y \in Nat /\ d = 2 * y /\ d = H * (2 * u) /\ 2 * u \in Nat \ {0}
      BY <1>0, <2>1, <2>3, <2>5
    <3> HIDE DEF y, u, d
    <3>4. d \div 2 = y /\ d \in Nat
      BY <3>3
    <3>5. Ulp[d] = 2 * u
      <4>1. ~(d < Significand)
        BY <1>0, <2>2, <3>4 DEF d
      <4>2. QED BY <3>2, <3>4, <4>1, UlpDef
    <3>6. d \div (2 * u) = H /\ d % (2 * u) = 0
      BY <1>0, <3>3, DividedExactly
    <3>7. 2 * 0 < 2 * u
      BY <3>3
    <3>8. Double(d) = H * (2 * u)
      BY <3>5, <3>6, <3>7 DEF Double
    <3>9. QED BY <2>2, <3>3, <3>8 DEF d
  <2>6. QED BY <1>0, <2>1, <2>4, <2>5
<1>3. QED BY <1>0, <1>1, <1>2

(* So the double is among the decimals that read back as it.               *)
LEMMA DoubleIsDecimal ==
  ASSUME NEW H, Format(H), NEW v \in Nat
  PROVE  Double(v) \in Decimals(v)
<1>0. Significand \in Nat /\ Ulp[v] \in Nat /\ Double(v) \in Nat /\ Double(Double(v)) = Double(v)
  <2>1. Significand \in Nat
    BY DEF Format
  <2>2. QED BY <2>1, UlpDef, DoubleOfDouble
<1>1. Double(v) - Ulp[v] <= v /\ v <= Double(v) + Ulp[v]
  BY <1>0, DoubleSmall, DoubleLarge
<1>2. Double(v) \in v - 2 * Ulp[v]..v + 2 * Ulp[v]
  BY <1>0, <1>1
<1>3. QED BY <1>0, <1>2 DEF Decimals

-----------------------------------------------------------------------------
(***************************************************************************)
(* Every int of the safe range is written as ECMAScript writes it, which   *)
(* is in one way: the claim of jcs.py:14-15 about ints (jcs.py:60-61).     *)
(***************************************************************************)
THEOREM SafeIntsAgree ==
  ASSUME NEW H, Format(H), NEW v \in Nat, v < Significand
  PROVE  EcmaScript(IntOf(v)) = {Encode(IntOf(v))}
<1>0. Significand \in Nat /\ v < ExponentFrom
  BY DEF Format
<1>1. Ulp[v] = 1 /\ Double(v) = v
  BY DoubleSmall
<1>2. v \in Decimals(v)
  BY <1>1, DoubleIsDecimal
<1>3. ASSUME NEW s \in Decimals(v) PROVE s = v
  <2>1. s \in Nat /\ Double(s) = v
    BY <1>1, <1>3 DEF Decimals
  <2>2. CASE s < Significand
    BY <2>1, <2>2, DoubleSmall
  <2>3. CASE Significand <= s
    <3>1. Significand <= Double(s)
      BY <2>1, <2>3, DoubleEven
    <3>2. QED BY <1>0, <2>1, <3>1
  <2>4. QED BY <1>0, <2>1, <2>2, <2>3
<1>4. Decimals(v) = {v}
  BY <1>2, <1>3
<1>5. Zeros[v] = Zeros[v] /\ Distance(v, Double(v)) = 0
  BY <1>1 DEF Distance
<1>6. Shortest(v) = {v}
  BY <1>4, <1>5 DEF Shortest
<1>7. IntOf(v).value = v /\ IsInt(IntOf(v))
  BY DEF IntOf, IsInt
<1>8. QED BY <1>0, <1>6, <1>7 DEF EcmaScript, Encode

(***************************************************************************)
(* Beyond the safe range no odd int is: jcs.py:61 writes digits that       *)
(* ECMAScript has rounded away.                                            *)
(***************************************************************************)
THEOREM OddIntsDiffer ==
  ASSUME NEW H, Format(H), NEW v \in Nat, Significand <= v, v % 2 = 1
  PROVE  Encode(IntOf(v)) \notin EcmaScript(IntOf(v))
<1> DEFINE d == Double(v)
<1>1. d \in Decimals(v) /\ d \in Nat /\ d # v
  BY DoubleIsDecimal, DoubleEven
<1>2. Zeros[v] = 0
  <2>1. v % 10 # 0
    OBVIOUS
  <2>2. QED BY <2>1, ZerosDef
<1>3. Zeros[d] \in Nat
  BY <1>1, ZerosDef
<1>4. Distance(d, d) = 0 /\ (Distance(v, d) <= 0 => v = d)
  BY <1>1 DEF Distance
<1>5. v \notin Shortest(v)
  <2> SUFFICES ASSUME \/ Zeros[d] < Zeros[v]
                      \/ Zeros[d] = Zeros[v] /\ Distance(v, d) <= Distance(d, d)
               PROVE  FALSE
    BY <1>1 DEF Shortest
  <2> HIDE DEF d
  <2>1. QED BY <1>1, <1>2, <1>3, <1>4
<1>6. IntOf(v).value = v /\ IsInt(IntOf(v))
  BY DEF IntOf, IsInt
<1>7. ASSUME NEW s \in Shortest(v), NEW form, Text("digits", v) = Text(form, s) PROVE FALSE
  <2>1. v = s
    BY <1>7 DEF Text
  <2>2. QED BY <1>5, <1>7, <2>1
<1>8. QED BY <1>6, <1>7 DEF EcmaScript, Encode
=============================================================================
