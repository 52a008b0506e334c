------------------------------- MODULE Numbers -------------------------------
(***************************************************************************)
(* Int and Double primitives (internal/host/stdlib/num.go, math.go).       *)
(*                                                                         *)
(* Int is two's complement of IntBits bits (64 in the code): arithmetic    *)
(* wraps.  A Double is the sentinel NaN, PosInf or NegInf, or a record     *)
(* Fin(h) for the value h/2 whose absolute value has at most Mantissa      *)
(* significant bits (53 in the code), so that the largest Int is not       *)
(* representable, as in the code.  numA and numB are the operands the      *)
(* program holds; the Int a call returns becomes the next operand.         *)
(* Transcendental functions are left out.                                  *)
(***************************************************************************)
EXTENDS Integers, Sequences

CONSTANTS IntBits, Mantissa,
          Operands        \* the Ints of the program text
VARIABLES numA, numB

ASSUME WidthAssumption == IntBits \in Nat \ {0, 1} /\ Mantissa \in 1..(IntBits - 1)

MinInt == -(2 ^ (IntBits - 1))
MaxInt == 2 ^ (IntBits - 1) - 1
Ints == MinInt..MaxInt
Error == 2 ^ IntBits      \* outside Ints: the evaluation fails

(* The Int that has the low IntBits bits of x. *)
wrap(x) == ((x - MinInt) % (2 ^ IntBits)) + MinInt

abs(x) == IF x < 0 THEN -x ELSE x

(* Go's / and % truncate toward zero. *)
quot(x, y) == LET q == abs(x) \div abs(y) IN IF (x < 0) = (y < 0) THEN q ELSE -q
rem(x, y) == x - quot(x, y) * y

addInt(x, y) == wrap(x + y)
subInt(x, y) == wrap(x - y)
mulInt(x, y) == wrap(x * y)
negInt(x) == wrap(-x)
divInt(x, y) == IF y = 0 THEN Error ELSE wrap(quot(x, y))
modInt(x, y) == IF y = 0 THEN Error ELSE rem(x, y)

RECURSIVE gcdLoop(_, _)

gcdLoop(x, y) == IF y = 0 THEN x ELSE gcdLoop(y, rem(x, y))

(* The absolute values wrap too: -MinInt is MinInt. *)
gcd(x, y) == gcdLoop(wrap(abs(x)), wrap(abs(y)))

RECURSIVE powLoop(_, _, _)

powLoop(result, base, e) ==
  IF e = 0 THEN result
  ELSE powLoop(IF e % 2 = 1 THEN wrap(result * base) ELSE result, wrap(base * base), e \div 2)

powInt(base, e) == IF e < 0 THEN 0 ELSE powLoop(1, base, e)

(* Mutant: the divisor's sign is not looked at. *)
divModUnsigned(x, y) ==
  IF y = 0 THEN <<Error, Error>>
  ELSE IF rem(x, y) >= 0 THEN <<wrap(quot(x, y)), rem(x, y)>>
  ELSE <<wrap(quot(x, y) - 1), wrap(rem(x, y) + y)>>

(* The quotient is adjusted with d--, d++ and the remainder with +b, -b. *)
divMod(x, y) ==
  IF y = 0 THEN <<Error, Error>>
  ELSE LET d == wrap(quot(x, y))
           r == rem(x, y)
       IN  IF r >= 0 THEN <<d, r>>
           ELSE IF y > 0 THEN <<wrap(d - 1), wrap(r + y)>>
           ELSE <<wrap(d + 1), wrap(r - y)>>

clampInt(lo, hi, x) == IF x < lo THEN lo ELSE IF x > hi THEN hi ELSE x

bit(x, i) == (x \div (2 ^ i)) % 2
fromBits(Bit(_)) ==
  LET sum[i \in 0..IntBits] == IF i = 0 THEN 0 ELSE sum[i - 1] + Bit(i - 1) * 2 ^ (i - 1)
  IN  wrap(sum[IntBits])

bitAnd(x, y) == fromBits(LAMBDA i : bit(x, i) * bit(y, i))
bitOr(x, y) == fromBits(LAMBDA i : IF bit(x, i) + bit(y, i) > 0 THEN 1 ELSE 0)
bitXor(x, y) == fromBits(LAMBDA i : (bit(x, i) + bit(y, i)) % 2)
bitNot(x) == fromBits(LAMBDA i : 1 - bit(x, i))
popCount(x) == LET n[i \in 0..IntBits] == IF i = 0 THEN 0 ELSE n[i - 1] + bit(x, i - 1) IN n[IntBits]

shiftL(x, n) == IF n < 0 \/ n >= IntBits THEN 0 ELSE wrap(x * 2 ^ n)

shiftR(x, n) == IF n < 0 \/ n >= IntBits THEN (IF x < 0 THEN -1 ELSE 0) ELSE x \div (2 ^ n)

-----------------------------------------------------------------------------
(* Doubles. *)

Fin(h) == [kind |-> "finite", half |-> h]
NaN == [kind |-> "NaN"]
PosInf == [kind |-> "+Inf"]
NegInf == [kind |-> "-Inf"]
Finite(d) == d \notin {NaN, PosInf, NegInf}

RECURSIVE ulp(_)

(* The spacing of the doubles around n halves. *)
ulp(n) == IF abs(n) < 2 ^ Mantissa THEN 1 ELSE 2 * ulp(n \div 2)

(* Round n halves to the nearest multiple of the spacing, ties to even. *)
toDoubleHalf(n) ==
  LET u == ulp(abs(n))
      k == abs(n) \div u
      r == abs(n) % u
      up == IF 2 * r > u \/ (2 * r = u /\ k % 2 = 1) THEN k + 1 ELSE k
  IN  IF n < 0 THEN -(up * u) ELSE up * u

(* toDouble of an Int. *)
toDouble(n) == Fin(toDoubleHalf(2 * n))

roundToEven(h) == LET lo == h \div 2 IN IF h % 2 = 0 \/ lo % 2 = 0 THEN lo ELSE lo + 1
floorF(h) == h \div 2
ceilF(h) == -((-h) \div 2)
truncF(h) == quot(h, 2)

(* Go's conversion int64(f): exact in range; out of it the result depends  *)
(* on the machine, on amd64 it is MinInt.                                  *)
convert(n) == IF n \in Ints THEN n ELSE MinInt

(* floatToInt compares with float64(MaxInt64), which is not MaxInt64. *)
floatToInt(d, rounded) ==
  IF ~ Finite(d) THEN Error
  ELSE IF 2 * rounded > toDouble(MaxInt).half \/ 2 * rounded < toDouble(MinInt).half THEN Error
  ELSE convert(rounded)

half(d) == IF Finite(d) THEN d.half ELSE 0

round(d) == floatToInt(d, roundToEven(half(d)))
floor(d) == floatToInt(d, floorF(half(d)))
ceiling(d) == floatToInt(d, ceilF(half(d)))
truncate(d) == floatToInt(d, truncF(half(d)))

(* IEEE: comparisons with NaN are false, so cmpDouble says "equal" for it, *)
(* while eqDouble says it differs from itself.                             *)
lessF(x, y) ==
  CASE x = NaN \/ y = NaN -> FALSE
    [] x = y -> FALSE
    [] x = NegInf \/ y = PosInf -> TRUE
    [] x = PosInf \/ y = NegInf -> FALSE
    [] OTHER -> x.half < y.half

eqDouble(x, y) == x # NaN /\ x = y
cmpDouble(x, y) == IF lessF(x, y) THEN -1 ELSE IF lessF(y, x) THEN 1 ELSE 0
clampDouble(lo, hi, x) == IF lessF(x, lo) THEN lo ELSE IF lessF(hi, x) THEN hi ELSE x

-----------------------------------------------------------------------------
(* The program: it applies an Int primitive to its operands. *)

NumInit == numA \in Operands /\ numB \in Operands

Feed(r) == r # Error /\ numA' = r /\ numB' = numA

arith == \/ Feed(addInt(numA, numB)) \/ Feed(subInt(numA, numB)) \/ Feed(mulInt(numA, numB))
         \/ Feed(divInt(numA, numB)) \/ Feed(modInt(numA, numB)) \/ Feed(negInt(numA))

mathInt == \/ Feed(gcd(numA, numB)) \/ Feed(powInt(numA, numB)) \/ Feed(divMod(numA, numB)[2])
           \/ Feed(clampInt(0, numB, numA)) \/ Feed(shiftL(numA, numB)) \/ Feed(shiftR(numA, numB))

bitwise == \/ Feed(bitAnd(numA, numB)) \/ Feed(bitOr(numA, numB)) \/ Feed(bitXor(numA, numB))
           \/ Feed(bitNot(numA)) \/ Feed(popCount(numA))

convertInt == \/ Feed(round(toDouble(numA))) \/ Feed(ceiling(Fin(toDoubleHalf(numA))))
              \/ Feed(floor(Fin(toDoubleHalf(numA)))) \/ Feed(truncate(Fin(toDoubleHalf(numA))))

NumNext == arith \/ mathInt \/ bitwise \/ convertInt

-----------------------------------------------------------------------------
(* Division: div and mod recompose the dividend, divMod does too with a    *)
(* remainder in 0..|b|-1, whatever wraps, MinInt by -1 included (divInt,   *)
(* modInt, divModImpl).                                                    *)
DivisionRecomposes ==
  numB # 0 =>
    /\ wrap(divInt(numA, numB) * numB + modInt(numA, numB)) = numA
    /\ wrap(divMod(numA, numB)[1] * numB + divMod(numA, numB)[2]) = numA
    /\ divMod(numA, numB)[2] \in 0..(abs(numB) - 1)

power[base \in Ints, e \in 0..MaxInt] == IF e = 0 THEN 1 ELSE wrap(base * power[base, e - 1])

(* The loops and bit tricks compute what they should: powInt by repeated   *)
(* squaring is repeated wrapping multiplication; gcd divides both operands *)
(* and every common divisor divides it, and it is positive unless MinInt,  *)
(* whose negation wraps, is an operand; and/or/xor add up; a shift is a    *)
(* product or a floor division, also for counts outside the width          *)
(* (powIntImpl, gcdImpl, shiftLImpl, shiftRImpl, popCountImpl).            *)
IntAlgorithmsAgree ==
  LET g == gcd(numA, numB)
  IN  /\ numB >= 0 => powInt(numA, numB) = power[numA, numB]
      /\ IF numA = 0 /\ numB = 0 THEN g = 0
         ELSE /\ rem(numA, g) = 0 /\ rem(numB, g) = 0
              /\ \A d \in 1..MaxInt : rem(numA, d) = 0 /\ rem(numB, d) = 0 => rem(g, d) = 0
              /\ g > 0 \/ MinInt \in {numA, numB}
      /\ bitNot(numA) = wrap(-numA - 1)
      /\ wrap(bitAnd(numA, numB) + bitOr(numA, numB)) = addInt(numA, numB)
      /\ bitXor(numA, numB) = subInt(bitOr(numA, numB), bitAnd(numA, numB))
      /\ shiftR(bitNot(numA), numB) = bitNot(shiftR(numA, numB))
      /\ numB \in 0..(IntBits - 1) => shiftL(numA, numB) = mulInt(numA, powInt(2, numB))
      /\ popCount(numA) + popCount(bitNot(numA)) = IntBits

(* A conversion to Int gives the rounded value or an error: the error for  *)
(* NaN, the infinities and all that lies outside the Ints except the one   *)
(* double just above MaxInt, which float64(MaxInt64) rounds to, and which  *)
(* is let through.  An Int survives the way to Double and back when its    *)
(* value fits the mantissa.  cmpDouble is a total order on the doubles but *)
(* NaN, which it calls equal to everything while eqDouble does not.        *)
ConversionsExact ==
  /\ \A d \in {NaN, PosInf, NegInf} : round(d) = Error /\ floor(d) = Error
  /\ LET d == Fin(toDoubleHalf(numA * 2 + numB))
         Exact(r, n) == IF n \in Ints THEN r = n ELSE n = MaxInt + 1 \/ r = Error
     IN  /\ Exact(floor(d), floorF(d.half)) /\ Exact(ceiling(d), ceilF(d.half))
         /\ Exact(round(d), roundToEven(d.half)) /\ Exact(truncate(d), truncF(d.half))
         /\ 2 * roundToEven(d.half) - d.half \in -1..1
  /\ \A x, y \in {NaN, PosInf, NegInf, toDouble(numA), toDouble(numB)} :
       /\ cmpDouble(x, y) = -cmpDouble(y, x)
       /\ (cmpDouble(x, y) = 0) <=> (eqDouble(x, y) \/ NaN \in {x, y})
       /\ lessF(x, y) => clampDouble(x, y, toDouble(numA)) \in {x, y, toDouble(numA)}
                          /\ ~ lessF(clampDouble(x, y, toDouble(numA)), x)
  /\ abs(2 * numA) < 2 ^ Mantissa => truncate(toDouble(numA)) = numA

(* Arithmetic that wraps, the loops built on it and the conversions to and *)
(* from doubles agree with their definitions at every operand, the ends of *)
(* the range included (num.go, math.go).                                   *)
NumbersAgree == DivisionRecomposes /\ IntAlgorithmsAgree /\ ConversionsExact
=============================================================================
