------------------------------- MODULE IntParser -------------------------------
(***************************************************************************)
(* integer_parser for int64_t (str_to_i.hpp): the digits of an integer,    *)
(* then a fraction or an exponent, which an integer may have as long as a  *)
(* whole number results from truncating it.                                *)
(***************************************************************************)
EXTENDS DecimalText

MaxInt    == 2^(Width - 1) - 1
MinInt    == -2^(Width - 1)
Places == PlacesOf(MaxInt)
Signed(n) == Wrap(n, MinInt, Width)
Count(n)  == Wrap(n, -2^(CountWidth - 1), CountWidth)

\* Bug: the negative side has no value more than the positive one.
CompValsSymmetric(c, negative) == (MaxInt - DigitOf[c]) \div 10

\* The largest value that a last digit c may still be appended to.
CompVals(c, negative) == (MaxInt + (IF negative THEN 1 ELSE 0) - DigitOf[c]) \div 10

InTable(n) == n \in 0..(Places - 1)         \* powerOfTenInt has an entry n
Multiply(v, n) == Signed(v * 10^n)
Divide(v, n)   == IF v < 0 THEN -((-v) \div 10^n) ELSE v \div 10^n

Exponent(x, i) ==
  LET j == IF At(x, i) \in Signs THEN i + 1 ELSE i
      k == DigitsEnd(x, j)
  IN [sign |-> IF At(x, i) = "-" THEN -1 ELSE 1, given |-> k > j,
      value |-> Read(x, j, k, MinInt, Width), at |-> k]

ParseExponent(v, x, i) ==
  LET e == Exponent(x, i)
  IN CASE ~e.given \/ e.value >= Places                     -> Null
       [] ~InTable(e.value)                                 -> Unknown(e.at)
       [] e.sign > 0 /\ v > Divide(MaxInt, e.value)            -> Null
       [] e.sign > 0 /\ v <= Divide(MaxInt, e.value)           -> Answer(Multiply(v, e.value), e.at)
       [] OTHER                                             -> Answer(Divide(v, e.value), e.at)

\* Bug: the fraction is shifted as if the exponent were positive.
PostFracUnsigned(v, x, i, frac, count) ==
  LET scaled == ParseExponent(v, x, i)
      shift  == Exponent(x, i).value - count
  IN IF scaled.at = 0 \/ ~scaled.known THEN scaled
     ELSE Answer(Signed(scaled.value + IF shift > 0 THEN Multiply(frac, shift)
                                                     ELSE Divide(frac, -shift)), scaled.at)

\* frac: the fraction's digits as a number, count: how many, in CountWidth bits.
ParseExponentPostFrac(v, x, i, frac, count) ==
  LET scaled == ParseExponent(v, x, i)
      e      == Exponent(x, i)
      shift  == e.sign * e.value - count          \* the fraction's share of the value
      power  == IF shift > 0 THEN shift ELSE -shift
  IN CASE scaled.at = 0 \/ ~scaled.known -> scaled
       [] count + e.value < 0            -> scaled
       [] ~InTable(power)                -> Unknown(scaled.at)
       [] OTHER -> Answer(Signed(scaled.value + IF shift > 0 THEN Multiply(frac, power)
                                                          ELSE Divide(frac, power)), scaled.at)

ParseFraction(v, x, i) ==
  LET j == DigitsEnd(x, i)
  IN CASE j > i /\ At(x, j) \in ExpTable ->
            ParseExponentPostFrac(v, x, j + 1, Read(x, i, j, MinInt, Width), Count(j - i))
       [] ~(j > i /\ At(x, j) \in ExpTable) /\ At(x, j) \in ExpFracTable -> Null
       [] OTHER -> Answer(v, j)

FinishParse(v, x, i) ==
  CASE At(x, i) = "."       -> ParseFraction(v, x, i + 1)
    [] At(x, i) \in ExpTable -> ParseExponent(v, x, i + 1)
    [] OTHER                 -> Null

Negated(r, negative) == IF negative THEN [r EXCEPT !.value = Signed(-r.value)] ELSE r

\* The unrolled steps: one digit each, and what ends them.
Unrolled(negative, x, i, j) ==
  LET v == Read(x, i, j, MinInt, Width)
  IN Negated(IF At(x, j) \in ExpFracTable THEN FinishParse(v, x, j) ELSE Answer(v, j), negative)

\* The last digit there may be; nothing after it is looked at.
LastDigit(negative, x, i) ==
  LET j == i + Places - 1
      v == Read(x, i, j, MinInt, Width)
  IN IF v > CompVals(x[j], negative) THEN Null
     ELSE Negated(Answer(Signed(v * 10 + DigitOf[x[j]]), j + 1), negative)

ParseInteger(negative, x, i) ==
  LET j == DigitsEnd(x, i)
  IN CASE j = i                      -> Null
       [] j > i + 1 /\ x[i] = "0"    -> Null
       [] (j = i + 1 \/ (j > i /\ x[i] # "0")) /\ j - i < Places -> Unrolled(negative, x, i, j)
       [] OTHER                      -> LastDigit(negative, x, i)

ParseInt(x) ==
  LET negative == At(x, 1) = "-"
      r == ParseInteger(negative, x, IF negative THEN 2 ELSE 1)
  IN IF r.at = 0 THEN Null ELSE r
================================================================================
