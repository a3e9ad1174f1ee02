--------------------------------- MODULE MCTape ---------------------------------
(***************************************************************************)
(* Instances of TapeBuilder for TLC: blocks of four characters, two to a   *)
(* step.  The first document of a run has every text of three classes      *)
(* somewhere in a uniform text of eleven characters, so that it crosses    *)
(* the edges of blocks, of the step and of the remainder, or spells a document *)
(* of lexemes; the second, one of a few, comes while the reader still      *)
(* holds what the first left.                                              *)
(***************************************************************************)
EXTENDS ParserTape

Fill(c, n) == [i \in 1..n |-> c]

Windows == {<<a, b, c>> : a, b, c \in Classes}

Placed(w, at, c, n) == Fill(c, at) \o w \o Fill(c, n - at - Len(w))

MCKeys == {"a"}
Lexemes_ == {"}", "]", ":", "a", "num", "null", "junk", "ws"}
MCLexed == {<<"{", "a", ":">> \o <<x, y, z>> : x, y \in Lexemes_, z \in {"open", "num", ","}}

First  == {Placed(w, at, c, 11) : w \in Windows, at \in 0..8, c \in Classes}
          \cup UNION {[1..n -> Classes] : n \in 0..4}
          \cup {Spelled(x) : x \in MCLexed}
Second == {<<>>, <<"quote", "op", "quote">>, Fill("other", 8), Fill("op", 4) \o Fill("ws", 4),
           Placed(<<"quote", "esc", "quote">>, 5, "other", 14)}

MCTexts == <<First, Second>>

\* The subtraction of masks is that of the numbers they are.
Number(m) == MapThenSumSet(LAMBDA i : 2^i, m)

ASSUME MinusAssumption ==
  \A m, n \in SUBSET Bits :
    Number(Minus(m, n)) = (Number(m) - Number(n)) % 2^Width

===============================================================================
