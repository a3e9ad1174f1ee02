------------------------------ MODULE NumberReaders -----------------------------
(***************************************************************************)
(* The readers and the printer of numbers as the parser and the serializer *)
(* call them: each call reads one text, or prints one value.  What they    *)
(* should answer is stated from the grammar of RFC 8259 and from decimal   *)
(* arithmetic on sequences of digits.                                      *)
(***************************************************************************)
EXTENDS Integers, Sequences, SequencesExt

CONSTANTS
  Width, CountWidth, ExpCap, InfiniteFrom, GroupSize,   \* see the modules instantiated here
  Texts,    \* what may stand where a number is expected, with what follows it
  Values    \* integers to print

ASSUME WidthAssumption == {Width, CountWidth, ExpCap, InfiniteFrom, GroupSize} \subseteq Nat \ {0}

I == INSTANCE IntParser
U == INSTANCE UintParser
F == INSTANCE FloatParser
P == INSTANCE IntPrinter

VARIABLES
  reader,   \* which of them was called, "none" before
  text,     \* the text it read or wrote
  answer    \* what it answered, or the value printed

vars == <<reader, text, answer>>

Init == reader = "none" /\ text = <<>> /\ answer = I!Null

ReadInt   == /\ reader = "none" /\ reader' = "int"
             /\ \E x \in Texts : text' = x /\ answer' = I!ParseInt(x)
ReadUint  == /\ reader = "none" /\ reader' = "uint"
             /\ \E x \in Texts : text' = x /\ answer' = U!ParseInt(x)
ReadFloat == /\ reader = "none" /\ reader' = "float"
             /\ \E x \in Texts : text' = x /\ answer' = F!ParseFloat(x)
PrintInt  == /\ reader = "none" /\ reader' = "print int"
             /\ \E v \in I!MinInt..I!MaxInt :
                  text' = P!SignedToChars(v) /\ answer' = I!Answer(v, 0)
PrintUint == /\ reader = "none" /\ reader' = "print"
             /\ \E v \in Values : text' = P!ToChars(v) /\ answer' = I!Answer(v, 0)

Next == ReadInt \/ ReadUint \/ ReadFloat \/ PrintInt \/ PrintUint
Spec == Init /\ [][Next]_vars

-----------------------------------------------------------------------------
(* The grammar of a number, and its digits.                                *)

Body(x) == IF x # <<>> /\ Last(x) \in {"}", ","} THEN Front(x) ELSE x
Unsigned(y) == IF y # <<>> /\ y[1] = "-" THEN Tail(y) ELSE y

IsDigits(s) == s # <<>> /\ \A i \in 1..Len(s) : s[i] \in I!Digits
IsInteger(s) == IsDigits(s) /\ (s[1] = "0" => Len(s) = 1)
IsFraction(s) == s = <<>> \/ (s[1] = "." /\ IsDigits(Tail(s)))
IsExponent(s) == \/ s = <<>>
                 \/ /\ s[1] \in {"e", "E"}
                    /\ \/ IsDigits(Tail(s))
                       \/ Len(s) > 1 /\ s[2] \in {"-", "+"} /\ IsDigits(Tail(Tail(s)))
Splits(y, i, j) ==
  LET u == Unsigned(y)
  IN IsInteger(SubSeq(u, 1, i)) /\ IsFraction(SubSeq(u, i + 1, j)) /\ IsExponent(SubSeq(u, j + 1, Len(u)))
IsNumber(y) == \E j \in 0..Len(Unsigned(y)) : \E i \in 0..j : Splits(y, i, j)

ValueOf(ds) == FoldLeft(LAMBDA v, c : v * 10 + I!DigitOf[c], 0, ds)

\* The parts of a number.
Parts(y) ==
  LET u == Unsigned(y)
      c == CHOOSE c \in (0..Len(u)) \X (0..Len(u)) : c[1] <= c[2] /\ Splits(y, c[1], c[2])
      e == SubSeq(u, c[2] + 1, Len(u))
      signed == Len(e) > 1 /\ e[2] \in {"-", "+"}
  IN [negative |-> u # y,
      whole    |-> SubSeq(u, 1, c[1]),
      frac     |-> IF c[2] > c[1] THEN SubSeq(u, c[1] + 2, c[2]) ELSE <<>>,
      scaled   |-> e # <<>>,
      exp      |-> IF e = <<>> THEN 0
                   ELSE (IF signed /\ e[2] = "-" THEN -1 ELSE 1)
                        * ValueOf(SubSeq(e, IF signed THEN 3 ELSE 2, Len(e)))]

\* The number without its fraction and sign, exact up to Huge.
Huge == 1000000
Whole(n) ==
  LET ds   == n.whole \o n.frac
      many == Len(n.whole) + n.exp
      pad  == many - Len(ds)
      zeros == [i \in 1..(IF pad > 7 THEN 7 ELSE pad) |-> "0"]
  IN CASE many <= 0          -> 0
       [] many \in 1..Len(ds) -> FoldLeft(LAMBDA v, c : IF v >= Huge THEN Huge ELSE v * 10 + I!DigitOf[c],
                                         0, SubSeq(ds, 1, many))
       [] OTHER -> FoldLeft(LAMBDA v, c : IF v >= Huge THEN Huge ELSE v * 10 + I!DigitOf[c], 0, ds \o zeros)

-----------------------------------------------------------------------------
(* What the two integer types can hold and how many digits they have.      *)

IsInt  == reader = "int"
Reads  == reader \in {"int", "uint"}
Largest(n) == IF IsInt THEN I!MaxInt + (IF n.negative THEN 1 ELSE 0) ELSE U!MaxUint
Places == IF IsInt THEN I!Places ELSE U!Places
SignOk(n)  == IsInt \/ ~n.negative
\* Accepted: the reader stopped where a value may end.
Accepted == answer.at # 0 /\ I!At(text, answer.at) \in {"nul", "}", ","}
Exact(n) == answer.known /\ answer.value = (IF n.negative THEN -1 ELSE 1) * Whole(n)

\* An integer is read exactly if it fits its type, and refused if it does
\* not, at the last digit and the one after it too (CompVals, LastDigit).
IntegersExact ==
  Reads /\ IsNumber(Body(text)) =>
    LET n == Parts(Body(text))
    IN n.frac = <<>> /\ ~n.scaled =>
         /\ Accepted <=> SignOk(n) /\ Whole(n) <= Largest(n)
         /\ Accepted => Exact(n)

\* The numbers with a fraction or exponent that integer_parser has an answer
\* for: as many digits as its loops and tables are made for.
Ordinary(n) ==
  /\ Len(n.whole) < Places /\ n.exp \in (1 - Places)..(Places - 1)
  /\ Len(n.frac) + (IF n.exp < 0 THEN -n.exp ELSE 0) < Places
\* The integer part alone fits when scaled, the sum with the fraction does not.
FractionOverflows(n) == Whole(n) > (IF IsInt THEN I!MaxInt ELSE U!MaxUint)

\* A fraction is cut off and an exponent applied first: 1.25e1 is 12.  An
\* ordinary number is accepted when its integer part fits, and then exact but
\* for a fraction that makes it too large (parseExponentPostFrac).
DecimalsTruncate ==
  Reads /\ IsNumber(Body(text)) =>
    LET n == Parts(Body(text))
    IN (n.frac # <<>> \/ n.scaled) /\ Ordinary(n) =>
         /\ Accepted <=> SignOk(n) /\ Whole([n EXCEPT !.frac = <<>>]) <= (IF IsInt THEN I!MaxInt ELSE U!MaxUint)
         /\ Accepted /\ ~FractionOverflows(n) => Exact(n)

\* What is read as a number is a number of the grammar; an integer may also end
\* in its decimal point.  A float is read exactly if it is one that is not
\* rounded to infinity, at the last number below that, too.
OnlyNumbers ==
  /\ Reads /\ Accepted => \/ IsNumber(Body(text))
                          \/ Last(Body(text)) = "." /\ IsInteger(Unsigned(Front(Body(text))))
  /\ reader = "float" =>
       (Accepted <=> IsNumber(Body(text)) /\ Whole(Parts(Body(text))) < InfiniteFrom)

\* The mantissa and exponent parseFloat hands on are the number, or, when it
\* has more digits than a mantissa holds, its first significant ones.
FloatDigits ==
  reader = "float" /\ Accepted =>
    LET n    == Parts(Body(text))
        ds   == n.whole \o n.frac
        lead == SelectInSeq(ds, LAMBDA c : c # "0")     \* 0: they are all zero
        more == lead # 0 /\ Len(ds) - lead + 1 > F!MantissaDigits
        last == lead + F!MantissaDigits - 1
    IN /\ answer.tooMany <=> more
       /\ answer.negative <=> n.negative
       /\ answer.mantissa = ValueOf(IF lead = 0 THEN <<>>
                                    ELSE SubSeq(ds, lead, IF more THEN last ELSE Len(ds)))
       /\ n.exp \in (1 - ExpCap)..(ExpCap - 1) =>
            answer.exponent = n.exp + (IF more THEN Len(n.whole) - last ELSE -Len(n.frac))

\* What is printed is the value's decimal form without a leading zero, and
\* integer_parser reads it back.
PrintsBack ==
  reader \in {"print", "print int"} =>
    /\ IsInteger(Unsigned(text))
    /\ ValueOf(Unsigned(text)) = (IF answer.value < 0 THEN -answer.value ELSE answer.value)
    /\ reader = "print int" => I!ParseInt(text) = I!Answer(answer.value, Len(text) + 1)
=================================================================================
