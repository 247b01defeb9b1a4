----------------------------- MODULE JcsEncode -----------------------------
(***************************************************************************)
(* How jcs.py writes a number, beside ECMAScript's Number.prototype        *)
(* .toString, which RFC 8785 prescribes.                                   *)
(*                                                                         *)
(* A float other than zero is known by the k digits of its shortest        *)
(* decimal form and the position n of its decimal point: its value is      *)
(* 0.d1 d2 ... dk * 10^n.  repr and ECMAScript both take the shortest      *)
(* digits that read back as the float, so only the form they are put in    *)
(* can differ.  An int is its value: Python writes all of its digits,      *)
(* ECMAScript those of the double it becomes.  Signs are left out.         *)
(***************************************************************************)
EXTENDS Integers

CONSTANTS
  Significand,  \* 2^53: up to here every int is a double
  ExponentFrom, \* 10^21: from here on ECMAScript writes an exponent
  MaxInt,       \* bound: ints
  MaxDigits,    \* bound: digits of a float
  MinPoint,     \* bounds: position of the decimal point of a float
  MaxPoint

IntOf(v) == [type |-> "int", value |-> v]

FloatOf(k, n) == [type |-> "float", k |-> k, n |-> n]

Numbers ==
  {IntOf(v) : v \in 0..MaxInt}
    \cup {FloatOf(k, n) : k \in 1..MaxDigits, n \in MinPoint..MaxPoint}
    \cup [type : {"float"}, special : {"zero", "nan", "infinity"}]

IsInt(x) == x.type = "int"

IsSpecial(x) == "special" \in DOMAIN x

\* What is written: a form, and what the digits put in it are the digits of.
Text(form, of) == [form |-> form, of |-> of]

NotYet == Text("none", "none")

-----------------------------------------------------------------------------
(***************************************************************************)
(* Floats, by their forms.  "digits": the digits, then zeros up to the     *)
(* point.  "point": a point among the digits.  "zeroPoint": 0, point,      *)
(* zeros, digits.  "exponent": d.ddde+x, and "paddedExponent" if x has a   *)
(* leading zero.                                                           *)
(***************************************************************************)
Whole(x) == x.k <= x.n

\* Number::toString of ECMAScript, for a float that is not special.
EcmaScriptForm(x) ==
  IF x.n > 21 \/ x.n <= -6 THEN "exponent"
  ELSE IF Whole(x) THEN "digits"
  ELSE IF x.n > 0 THEN "point" ELSE "zeroPoint"

\* repr of a float: an exponent, of two digits at least, outside 1e-4 <= |x| < 1e16.
Repr(x) ==
  IF x.n > 16 \/ x.n <= -4 THEN
    IF x.n \in -8..10 THEN "paddedExponent" ELSE "exponent"
  ELSE IF Whole(x) THEN "pointZero"
  ELSE IF x.n > 0 THEN "point" ELSE "zeroPoint"

\* The substitution of jcs.py:113.
StripExponent(form) == IF form = "paddedExponent" THEN "exponent" ELSE form

\* NaN and the infinities are errors, and -0 is 0, for both.
Special(value) == IF value = "zero" THEN "digits" ELSE "ValueError"

\* _encode_number, past NaN, the infinities and zero.
EncodeFloat(x) ==
  IF Whole(x) /\ x.n <= 16 THEN "digits" ELSE StripExponent(Repr(x))

-----------------------------------------------------------------------------
(* Ints, as doubles. *)

\* The distance of the doubles at v.
Ulp[v \in Nat] == IF v < Significand THEN 1 ELSE 2 * Ulp[v \div 2]

\* The double nearest to v, of two the one with the even significand.
Double(v) ==
  LET u == Ulp[v]
      q == v \div u
      r == v % u
      down == 2 * r < u \/ (2 * r = u /\ q % 2 = 0)
  IN  IF down THEN q * u ELSE (q + 1) * u

\* The zeros a decimal ends in.
Zeros[s \in Nat] == IF s = 0 \/ s % 10 # 0 THEN 0 ELSE 1 + Zeros[s \div 10]

Distance(a, b) == IF a < b THEN b - a ELSE a - b

\* The decimals that read back as the double of v: none is further off than two of its
\* distances.
Decimals(v) ==
  {s \in v - 2 * Ulp[v]..v + 2 * Ulp[v] : s >= 0 /\ Double(s) = Double(v)}

\* Of those, what ECMAScript writes: the fewest digits, thus the most zeros, and then
\* the nearest to the double.
Shortest(v) ==
  {s \in Decimals(v) : \A t \in Decimals(v) :
     \/ Zeros[t] < Zeros[s]
     \/ Zeros[t] = Zeros[s] /\ Distance(s, Double(v)) <= Distance(t, Double(v))}

-----------------------------------------------------------------------------
\* _encode, for a number: the exact digits of an int, whatever its size.
Encode(x) ==
  IF IsInt(x) THEN Text("digits", x.value)
  ELSE IF IsSpecial(x) THEN Text(Special(x.special), x.special)
  ELSE Text(EncodeFloat(x), <<x.k, x.n>>)

\* What ECMAScript may write for a number.
EcmaScript(x) ==
  IF IsInt(x) THEN
    {Text(IF s < ExponentFrom THEN "digits" ELSE "exponent", s) : s \in Shortest(x.value)}
  ELSE IF IsSpecial(x) THEN {Text(Special(x.special), x.special)}
  ELSE {Text(EcmaScriptForm(x), <<x.k, x.n>>)}

VARIABLES
  number,   \* the number given to jcs_canonicalize
  text      \* what it is written as; NotYet before

Init == number \in Numbers /\ text = NotYet

Write == text = NotYet /\ text' = Encode(number) /\ UNCHANGED number

Done == text # NotYet /\ UNCHANGED <<number, text>>

Next == Write \/ Done

Spec == Init /\ [][Next]_<<number, text>>

\* The numbers jcs.py speaks for: floats, and ints "in the safe-integer range"
\* (jcs.py:14).
Claimed(x) == IsInt(x) => x.value < Significand

(***************************************************************************)
(* "Numbers are serialized via ... ECMAScript Number.toString semantics":  *)
(* what jcs.py writes for a number it speaks for is what any other JCS     *)
(* implementation writes (jcs.py:13-16, README.md:122).                    *)
(***************************************************************************)
AgreesWithEcmaScript ==
  text # NotYet /\ Claimed(number) => text \in EcmaScript(number)
=============================================================================
