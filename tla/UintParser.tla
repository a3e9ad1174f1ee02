------------------------------- MODULE UintParser ------------------------------
(***************************************************************************)
(* integer_parser for uint64_t (str_to_i.hpp).  It differs from the signed *)
(* one in what it does at its limits: the exponent may be as large as the  *)
(* table of powers (which has one more entry), the digit after the last is *)
(* looked at, and an ending neither of fraction nor exponent is no error.  *)
(***************************************************************************)
EXTENDS DecimalText

MaxUint    == 2^Width - 1
Places == PlacesOf(MaxUint)
Uint(n)  == Wrap(n, 0, Width)
Count(n) == Wrap(n, 0, CountWidth)

\* The largest value that a last digit c may still be appended to.
CompVals(c) == (MaxUint - DigitOf[c]) \div 10

InTable(n) == n \in 0..(Places - 1)         \* powerOfTenUint has an entry n
Multiply(v, n) == Uint(v * 10^n)
Divide(v, n)   == v \div 10^n

\* An exponent's digits wrap as lo says: parseExponent reads them into the
\* unsigned type, parseExponentPostFrac into int64_t.
Exponent(x, i, lo) ==
  LET j == IF At(x, i) \in Signs THEN i + 1 ELSE i
      k == DigitsEnd(x, j)
  IN [sign |-> IF At(x, i) = "-" THEN -1 ELSE 1, given |-> k > j,
      value |-> Read(x, j, k, lo, Width), at |-> k]

Scaled(v, e) ==
  CASE ~e.given \/ e.value >= Places          -> Null
    [] ~InTable(e.value)                      -> Unknown(e.at)
    [] e.sign > 0 /\ v > Divide(MaxUint, e.value) -> Null
    [] e.sign > 0 /\ v <= Divide(MaxUint, e.value) -> Answer(Multiply(v, e.value), e.at)
    [] OTHER                                  -> Answer(Divide(v, e.value), e.at)

ParseExponent(v, x, i) == Scaled(v, Exponent(x, i, 0))

ParseExponentPostFrac(v, x, i, frac, count) ==
  LET e     == Exponent(x, i, -2^(Width - 1))
      r     == Scaled(v, e)
      shift == e.sign * e.value - count
      power == IF shift > 0 THEN shift ELSE -shift
  IN CASE r.at = 0 \/ ~r.known -> r
       [] ~InTable(power)      -> Unknown(r.at)
       [] OTHER -> Answer(Uint(r.value + IF shift > 0 THEN Multiply(frac, power)
                                                      ELSE Divide(frac, power)), r.at)

ParseFraction(v, x, i) ==
  LET j == DigitsEnd(x, i)
  IN CASE j > i /\ At(x, j) \in ExpTable ->
            ParseExponentPostFrac(v, x, j + 1, Read(x, i, j, 0, Width), Count(j - i))
       [] ~(j > i /\ At(x, j) \in ExpTable) /\ At(x, j) \in ExpFracTable -> Null
       [] OTHER -> Answer(v, j)

FinishParse(v, x, i) ==
  CASE At(x, i) = "."        -> ParseFraction(v, x, i + 1)
    [] At(x, i) \in ExpTable -> ParseExponent(v, x, i + 1)
    [] OTHER                 -> Answer(v, i)

\* The unrolled steps: one digit each, and what ends them.
Unrolled(x, i, j) == FinishParse(Read(x, i, j, 0, Width), x, j)

\* The last digit there may be, and what must not follow it.
LastDigit(x, i) ==
  LET j == i + Places - 1
      v == Read(x, i, j, 0, Width)
  IN IF v > CompVals(x[j]) \/ At(x, j + 1) \in Digits \cup ExpFracTable
     THEN Null ELSE Answer(Uint(v * 10 + DigitOf[x[j]]), j + 1)

ParseInteger(x, i) ==
  LET j == DigitsEnd(x, i)
  IN CASE j = i                   -> Null
       [] j > i + 1 /\ x[i] = "0" -> Null
       [] (j = i + 1 \/ (j > i /\ x[i] # "0")) /\ j - i < Places -> Unrolled(x, i, j)
       [] OTHER                   -> LastDigit(x, i)

ParseInt(x) == IF ParseInteger(x, 1).at = 0 THEN Null ELSE ParseInteger(x, 1)
================================================================================
