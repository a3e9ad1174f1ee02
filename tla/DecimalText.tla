------------------------------ MODULE DecimalText ------------------------------
(***************************************************************************)
(* The text of a number, character by character, as integer_parser and     *)
(* parseFloat read it, and the fixed width arithmetic they read it with.   *)
(* Texts are terminated: a read at the end finds "nul".                    *)
(*                                                                         *)
(* The code is written for 64 bits; here the width is a parameter.  What   *)
(* the code writes as 19 and 20 digits is the number of digits of the      *)
(* largest value (Places), and its tables of powers have as many entries.  *)
(***************************************************************************)
EXTENDS Integers, Sequences, SequencesExt

CONSTANTS
  Width,       \* bits of the widest integers: 64 in the code
  CountWidth   \* bits of the counter of fraction digits (get_int_type): 8

DigitOf == [c \in {"0", "1", "2", "3", "4", "5", "6", "7", "8", "9"} |->
              CHOOSE n \in 0..9 : ToString(n) = c]
Digits  == DOMAIN DigitOf
ExpTable     == {"e", "E"}
ExpFracTable == {".", "e", "E"}
Signs        == {"-", "+"}

At(x, i) == IF i <= Len(x) THEN x[i] ELSE "nul"
\* The loop  while (JSONIFIER_IS_DIGIT(*iter)) ++iter  from i on.
DigitsEnd(x, i) ==
  CHOOSE j \in i..(Len(x) + 1) : /\ \A k \in i..(j - 1) : x[k] \in Digits
                                 /\ At(x, j) \notin Digits

\* Two's complement of w bits, signed from lo = -2^(w-1), unsigned from lo = 0.
Wrap(n, lo, w) == ((n - lo) % 2^w) + lo
\* The digits at i..(j - 1) as a number of that type; the builds wrap where
\* a signed type overflows.
Read(x, i, j, lo, w) ==
  FoldLeft(LAMBDA v, c : Wrap(v * 10 + DigitOf[c], lo, w), 0, SubSeq(x, i, j - 1))

PlacesOf(max) == CHOOSE n \in 1..Width : 10^(n - 1) <= max /\ max < 10^n

\* What a parser answers: a null pointer (at = 0), or where it stopped and the
\* value; known is FALSE when it read outside its table of powers, so that
\* the answer is whatever the memory there gives.
Null         == [at |-> 0, value |-> 0, known |-> TRUE]
Answer(v, i) == [at |-> i, value |-> v, known |-> TRUE]
Unknown(i)   == [at |-> i, value |-> 0, known |-> FALSE]
================================================================================
