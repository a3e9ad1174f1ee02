------------------------------- MODULE IntPrinter -------------------------------
(***************************************************************************)
(* to_chars for integers (i_to_str.hpp): the number of digits is found     *)
(* first, then groups of digits are copied from tables.  In the code a     *)
(* group has four digits; here GroupSize.  The multiplications that stand  *)
(* for divisions by a power of ten are modelled as those divisions.        *)
(***************************************************************************)
EXTENDS DecimalText

CONSTANT GroupSize   \* digits of an entry of the largest table: 4

Base == 10^GroupSize

\* The table entry of n digits for v; an index past the table is no entry.
Table(n, v) ==
  IF v < 10^n THEN [i \in 1..n |-> ToString((v \div 10^(n - i)) % 10)]
              ELSE [i \in 1..n |-> "outside"]

\* At most one group, at most two, at most four, at most five.
OneGroup(n, v) == Table(n, v)
TwoGroups(n, v) ==
  LET a == v \div Base
  IN Table(n - GroupSize, a) \o Table(GroupSize, v - a * Base)
FourGroups(n, v) ==
  LET high == v \div Base^2
      low  == v - high * Base^2
  IN (IF n - 2 * GroupSize <= GroupSize THEN OneGroup(n - 2 * GroupSize, high)
                                        ELSE TwoGroups(n - 2 * GroupSize, high))
     \o TwoGroups(2 * GroupSize, low)
FiveGroups(n, v) ==
  LET high == v \div Base^2
      low  == v - high * Base^2
      top  == high \div Base^2
  IN OneGroup(n - 4 * GroupSize, top) \o TwoGroups(2 * GroupSize, high - top * Base^2)
                                      \o TwoGroups(2 * GroupSize, low)

\* Bug: a power of ten is taken for a number of one digit less.
SizeShort(v) == IF v <= 10 THEN 1 ELSE CHOOSE n \in 2..(5 * GroupSize) : (v - 1) \div 10^(n - 1) \in 1..9

\* The ladder of comparisons that finds the number of digits.
Size(v) == IF v < 10 THEN 1 ELSE CHOOSE n \in 2..(5 * GroupSize) : v \div 10^(n - 1) \in 1..9

ToChars(v) ==
  LET n == Size(v)
  IN CASE n <= GroupSize                           -> OneGroup(n, v)
       [] n \in (GroupSize + 1)..(2 * GroupSize)     -> TwoGroups(n, v)
       [] n \in (2 * GroupSize + 1)..(4 * GroupSize) -> FourGroups(n, v)
       [] n > 4 * GroupSize                        -> FiveGroups(n, v)

\* value ^ (value >> 63) - (value >> 63), in unsigned arithmetic, is the
\* absolute value, that of the least value included.
Absolute(v) == Wrap(IF v < 0 THEN -v ELSE v, 0, Width)
SignedToChars(v) == IF v < 0 THEN <<"-">> \o ToChars(Absolute(v)) ELSE ToChars(Absolute(v))
=================================================================================
