------------------------------- MODULE ParserTape -------------------------------
(***************************************************************************)
(* Where Stage 1 meets the walks over its tape.  They read documents of    *)
(* lexemes: JsonParse assumes of a tape that it lists the lexemes IsEntry  *)
(* names (TapeOk), Formatter that it lists those of LexemeTape.  Here such *)
(* a document is spelled out in characters, TapeBuilder scans them, and    *)
(* its tape is compared with both.                                         *)
(***************************************************************************)
EXTENDS TapeBuilder, LexemeTape

CONSTANTS
  Keys,    \* the quoted strings of JsonIterator
  Lexed    \* documents of lexemes, an unclosed string only at the end

\* Only the constant-level IsEntry of the iterator is used.
Iterator == INSTANCE JsonIterator WITH MaxDepth <- 0, doc <- Lexed, opts <- Lexed, it <- Lexed

\* A string has an escaped quote, an escaped backslash and a bracket in it.
Characters(x) ==
  CASE x \in {"{", "}", "[", "]", ":", ","} -> <<"op">>
    [] x \in Keys -> <<"quote", "esc", "quote", "op", "esc", "esc", "quote">>
    [] x = "open" -> <<"quote", "op", "ws">>
    [] x = "ws"   -> <<"ws", "ws">>
    [] x \in {"num", "true", "null", "junk"} -> <<"other", "other", "other">>

Spelled(x) == FlattenSeq([i \in 1..Len(x) |-> Characters(x[i])])

\* Where the entries of the lexemes begin in the characters.
PlacesOf(x) ==
  [i \in 1..Len(Entries(x, minified)) |->
     Len(Spelled(SubSeq(x, 1, Entries(x, minified)[i] - 1)))]

Spellings == [x \in Lexed |-> Spelled(x)]

Padded(x) == \E p \in 1..Len(x) : x[p] = "ws"

\* The tape of a document is the one the walks take it to be: every structural
\* character and every value begins an entry, nothing inside a string does, and
\* a scalar with something touching it is one entry.  Scanned as minified, that
\* is also what the parser assumes only of a document without whitespace
\* (simd.hpp:199-217, json_iterator.hpp:1557).
ParserTapeOk ==
  loads > 0 /\ ~scanning =>
    \A x \in {y \in Lexed : Spellings[y] = text} :
      /\ Tape = PlacesOf(x)
      /\ (minified => ~Padded(x)) =>
           \A p \in 1..Len(x) : Entry(x, p, minified) = Iterator!IsEntry(x, p)
===============================================================================
