------------------------------- MODULE FloatParser ------------------------------
(***************************************************************************)
(* parseFloat (str_to_d.hpp) up to the arithmetic: which characters are a  *)
(* number, the mantissa, exponent and tooManyDigits it hands to the        *)
(* conversion (fast_float.hpp), and that a number which the conversion     *)
(* rounds to infinity is refused.  The conversion itself is not modelled.  *)
(***************************************************************************)
EXTENDS DecimalText

CONSTANTS
  ExpCap,        \* an exponent grows no further from here on: 0x10000000
  InfiniteFrom   \* the least number that is rounded to infinity: 2^1024 - 2^970 for a double

\* Digits that a mantissa holds whatever they are: 19 of 64 bits.
MantissaDigits == PlacesOf(2^Width - 1) - 1
Mantissa(ds) == Read(ds, 1, Len(ds) + 1, 0, Width)

Refused == [at |-> 0, negative |-> FALSE, mantissa |-> 0, exponent |-> 0, tooMany |-> FALSE]

\* The digits of an exponent, from i on; it stops growing, not reading.
Capped(x, i) ==
  FoldLeft(LAMBDA v, c : IF v < ExpCap THEN 10 * v + DigitOf[c] ELSE v, 0,
           SubSeq(x, i, DigitsEnd(x, i) - 1))

\* Bug: the digits of an exponent are optional.
ExpNumberLoose(x, i) ==
  LET j == IF At(x, i + 1) \in Signs THEN i + 2 ELSE i + 1
  IN IF At(x, i) \notin ExpTable THEN [value |-> 0, at |-> i]
     ELSE [value |-> (IF At(x, i + 1) = "-" THEN -1 ELSE 1) * Capped(x, j), at |-> DigitsEnd(x, j)]

\* The exponent at i, if there is one: its value and where it ends (0: it has
\* no digits).
ExpNumber(x, i) ==
  LET j == IF At(x, i + 1) \in Signs THEN i + 2 ELSE i + 1
  IN CASE At(x, i) \notin ExpTable -> [value |-> 0, at |-> i]
       [] At(x, i) \in ExpTable /\ DigitsEnd(x, j) = j -> [value |-> 0, at |-> 0]
       [] OTHER -> [value |-> (IF At(x, i + 1) = "-" THEN -1 ELSE 1) * Capped(x, j),
                    at |-> DigitsEnd(x, j)]

DigitsOnly(x, i, j) == SelectSeq(SubSeq(x, i, j - 1), LAMBDA c : c # ".")
\* How many digits there are from the first that is not zero on.
Significant(x, i, j) ==
  LET ds == DigitsOnly(x, i, j)
      n  == SelectInSeq(ds, LAMBDA c : c # "0")
  IN IF n = 0 THEN 0 ELSE Len(ds) - n + 1

\* The first digits, until they make a mantissa of MantissaDigits digits.
Filled(x, i, j, m) ==
  LET full(k) == FoldLeft(LAMBDA v, c : v * 10 + DigitOf[c], m, SubSeq(x, i, k - 1))
      k == CHOOSE n \in i..j : /\ n = j \/ full(n) >= 10^(MantissaDigits - 1)
                               /\ \A l \in i..(n - 1) : full(l) < 10^(MantissaDigits - 1)
  IN [mantissa |-> full(k), at |-> k]

\* Bug: the exponent of a mantissa filled from the fraction is counted from the
\* decimal point.
TruncatedAtPoint(x, first, whole, end, expNumber) ==
  LET int  == Filled(x, first, whole, 0)
      frac == Filled(x, whole + 1, end, int.mantissa)
  IN IF int.mantissa >= 10^(MantissaDigits - 1)
     THEN [mantissa |-> int.mantissa, exponent |-> whole - int.at + expNumber]
     ELSE [mantissa |-> frac.mantissa, exponent |-> whole - frac.at + expNumber]

\* Too many digits: the first of them, and the exponent that makes up for
\* the rest.  The integer is at first..(whole - 1), the fraction at
\* (whole + 1)..(end - 1).
Truncated(x, first, whole, end, expNumber) ==
  LET int  == Filled(x, first, whole, 0)
      frac == Filled(x, whole + 1, end, int.mantissa)
  IN IF int.mantissa >= 10^(MantissaDigits - 1)
     THEN [mantissa |-> int.mantissa, exponent |-> whole - int.at + expNumber]
     ELSE [mantissa |-> frac.mantissa, exponent |-> whole + 1 - frac.at + expNumber]

\* The digits at first..(end - 1), times a power of ten, are rounded to
\* infinity: they make a number of more places than InfiniteFrom, or of as many
\* that is no less.
InfinitePower(x, first, end, exponent) ==
  LET ds     == DigitsOnly(x, first, end)
      n      == Significant(x, first, end)
      limit  == PlacesOf(InfiniteFrom)
      places == n + exponent
      padded == SubSeq(ds, Len(ds) - n + 1, Len(ds)) \o [i \in 1..limit |-> "0"]
      lead   == FoldLeft(LAMBDA v, c : v * 10 + DigitOf[c], 0, SubSeq(padded, 1, limit))
  IN n > 0 /\ (places > limit \/ (places = limit /\ lead >= InfiniteFrom))

ParseFloat(x) ==
  LET negative == At(x, 1) = "-"
      first == IF negative THEN 2 ELSE 1
      whole == DigitsEnd(x, first)
      point == At(x, whole) = "."
      end   == IF point THEN DigitsEnd(x, whole + 1) ELSE whole
      e     == ExpNumber(x, end)
      frac  == IF point THEN end - (whole + 1) ELSE 0
      many  == /\ whole - first + frac > MantissaDigits
               /\ Significant(x, first, end) > MantissaDigits
      r     == IF many THEN Truncated(x, first, whole, end, e.value)
               ELSE [mantissa |-> Mantissa(DigitsOnly(x, first, end)),
                     exponent |-> e.value - frac]
  IN IF \/ whole = first \/ (x[first] = "0" /\ whole > first + 1)
        \/ point /\ frac = 0
        \/ e.at = 0
        \/ InfinitePower(x, first, end, e.value - frac)
     THEN Refused
     ELSE [at |-> e.at, negative |-> negative, mantissa |-> r.mantissa,
           exponent |-> r.exponent, tooMany |-> many]
=================================================================================
