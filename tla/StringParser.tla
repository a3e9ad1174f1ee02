------------------------------ MODULE StringParser ------------------------------
(***************************************************************************)
(* string_parser: what stands between two quotes is copied to the string   *)
(* buffer a register at a time, by registers of smaller and smaller width, *)
(* and character by character at the end of the document, with its escapes *)
(* replaced.  One action is one turn of one of those loops.  Bytes are     *)
(* numbers; src and Len(out) are the offsets of string1Start and string2.  *)
(***************************************************************************)
EXTENDS Utf8Check

CONSTANTS
  Widths,    \* bytes of the registers, wide to narrow: 64, 32 and 16 or less of them
  Texts,     \* documents from after an opening quote to their end
  Before     \* what lies before the digit tables, by the byte that reads it

Invalid == -1     \* 0xFFFFFFFF
CodePoints == {n \in Nat : n <= 1114111}

ASSUME WidthsAssumption == Widths \in Seq(Nat) \ {<<>>} /\ \A i \in DOMAIN Widths : Widths[i] >= 3
ASSUME TextsAssumption == Texts \subseteq Seq(0..255)
\* Words that are no code point are refused alike, so they are one.
ASSUME BeforeAssumption == Before \in [128..255 -> CodePoints \cup {Invalid}]

VARIABLES
  text, validateUtf8,   \* the input and the option
  step,                 \* the register width in use; one more for shortImpl
  src,                  \* bytes consumed
  out,                  \* the buffer up to string2
  stored,               \* how far into the buffer bytes were stored
  validator,            \* utf8_register_validator with its utf8_validation_state
  tailStart,            \* savedTailStart
  answer                \* "none", "refused", or "done"

vars == <<text, validateUtf8, step, src, out, stored, validator, tailStart, answer>>

Quote == 34
Backslash == 92
u == 117

\* A document is terminated by a zero.
At(i) == IF i < Len(text) THEN text[i + 1] ELSE 0
Load(n) == [i \in 1..n |-> At(src + i - 1)]
SourceEnd == Len(text)

escapeMap == [b \in {34, 92, 47, 98, 102, 110, 114, 116} |->
                CASE b = 98 -> 8 [] b = 102 -> 12 [] b = 110 -> 10 [] b = 114 -> 13 [] b = 116 -> 9
                  [] OTHER -> b]

Hex == [b \in (48..57) \cup (65..70) \cup (97..102) |->
          CASE b <= 57 -> b - 48 [] b \in 65..70 -> b - 55 [] OTHER -> b - 87]
\* The word for the digit of the unit 4096, 256, 16 or 1: there is a table for
\* each unit, one behind the other, and a char is signed, so that the bytes
\* from 128 on read the table of the unit below and find its digits a to f for
\* 143 to 148, or for the last digit read what is before the tables.
digitToVal32(unit, b) ==
  IF b \in DOMAIN Hex THEN Hex[b] * unit
  ELSE IF unit > 1 /\ b \in 143..148 THEN (b - 133) * (unit \div 16)
  ELSE IF unit = 1 /\ b \in 128..255 THEN Before[b]
  ELSE Invalid

\* Bitwise or.
Or[a \in Nat, b \in Nat] ==
  IF a = 0 THEN b ELSE IF b = 0 THEN a
  ELSE 2 * Or[a \div 2, b \div 2] + (IF a % 2 = 1 \/ b % 2 = 1 THEN 1 ELSE 0)

\* The words are or-ed, which adds those of four digits up.
hexToU32NoCheck(i) ==
  LET a == digitToVal32(4096, At(i))
      b == digitToVal32(256, At(i + 1))
      c == digitToVal32(16, At(i + 2))
      d == digitToVal32(1, At(i + 3))
  IN IF \A k \in i..(i + 3) : At(k) \in DOMAIN Hex THEN a + b + c + d
     ELSE IF Invalid \in {a, b, c, d} THEN Invalid
     ELSE Or[Or[a, b], Or[c, d]]

\* The bytes of a character: a mark with the bits above unit, and six bits from unit on.
Lead(mark, cp, unit) == mark + (cp \div unit)
Continuation(cp, unit) == 128 + ((cp \div unit) % 64)
codePointToUtf8(cp) ==
  IF cp \notin CodePoints THEN <<>>
  ELSE IF cp <= 127 THEN <<cp>>
  ELSE IF cp <= 2047 THEN <<Lead(192, cp, 64), Continuation(cp, 1)>>
  ELSE IF cp <= 65535 THEN <<Lead(224, cp, 4096), Continuation(cp, 64), Continuation(cp, 1)>>
  ELSE <<Lead(240, cp, 262144), Continuation(cp, 4096), Continuation(cp, 64), Continuation(cp, 1)>>

\* The escape at i: how many bytes it takes and what it stands for, none when
\* it is refused.
Refused == [length |-> 0, bytes |-> <<>>]
\* Bug: a code point is written and the source is not moved past it.
EscapeStays(n, bytes) == IF bytes = <<>> THEN Refused ELSE [length |-> 0, bytes |-> bytes]
Escape(n, bytes) == IF bytes = <<>> THEN Refused ELSE [length |-> n, bytes |-> bytes]
\* The two halves of a surrogate pair, and the second behind the first.
HighSurrogates == 55296..56319
LowSurrogates  == 56320..57343
\* Bug: it may be anything.
LowFollowsAny(i, low) == i + 12 <= SourceEnd /\ low >= 0
LowFollows(i, low) ==
  i + 12 <= SourceEnd /\ At(i + 6) = Backslash /\ At(i + 7) = u /\ low \in LowSurrogates
handleUnicodeCodePoint(i) ==
  LET cp  == hexToU32NoCheck(i + 2)
      low == hexToU32NoCheck(i + 8)
  IN IF i + 6 > SourceEnd \/ cp \in LowSurrogates THEN Refused
     ELSE IF cp \notin HighSurrogates THEN Escape(6, codePointToUtf8(cp))
     ELSE IF LowFollows(i, low)
     THEN Escape(12, codePointToUtf8(65536 + (cp - 55296) * 1024 + (low - 56320)))
     ELSE Refused

EscapeAt(i) ==
  IF At(i + 1) = u THEN handleUnicodeCodePoint(i)
  ELSE IF At(i + 1) \in DOMAIN escapeMap THEN Escape(2, <<escapeMap[At(i + 1)]>>)
  ELSE Refused

-----------------------------------------------------------------------------
\* impl is called for a string, at the registers of the first width.
Init ==
  /\ text \in Texts /\ validateUtf8 \in BOOLEAN
  /\ step = 1 /\ src = 0 /\ out = <<>> /\ stored = 0
  /\ validator = NewChecker /\ tailStart = 0 /\ answer = "none"

Running == answer = "none"
Stores(n) == stored' = IF Len(out) + n > stored THEN Len(out) + n ELSE stored
Answers(a) == answer' = a
Validates(v) == validator' = IF validateUtf8 THEN v ELSE validator

(* string_parse_step: the loop over registers of one width.                *)
Width == Widths[step]
\* Bug: the loop runs while any byte is left.
InRegistersOver == Running /\ step <= Len(Widths) /\ src < SourceEnd
InRegisters == Running /\ step <= Len(Widths) /\ src < SourceEnd - Width
\* findParse: the bytes before the first quote or backslash.
Plain == SelectInSeq(Load(Width), LAMBDA b : b \in {Quote, Backslash}) - 1
Found(b) == Plain >= 0 /\ At(src + Plain) = b
PlainBytes == Load(Plain)
Partial == checkPartial(validator, PlainBytes, Width)

CloseQuote ==
  /\ InRegisters /\ Found(Quote) /\ Stores(Width)
  /\ src' = src + Plain /\ out' = out \o PlainBytes
  /\ Validates(Partial)
  /\ Answers(IF validateUtf8 /\ errors(Partial) THEN "refused" ELSE "done")
  /\ UNCHANGED <<text, validateUtf8, step, tailStart>>

TakeEscape ==
  /\ InRegisters /\ Found(Backslash) /\ Stores(Width)
  /\ LET e == EscapeAt(src + Plain)
     IN IF e = Refused THEN Answers("refused") /\ UNCHANGED <<src, out>>
        ELSE /\ src' = src + Plain + e.length /\ out' = out \o PlainBytes \o e.bytes
             /\ UNCHANGED answer
  /\ Validates(Partial)
  /\ UNCHANGED <<text, validateUtf8, step, tailStart>>

TakeRegister ==
  /\ InRegisters /\ Plain = -1 /\ Stores(Width)
  /\ IF \E i \in 1..Width : Load(Width)[i] < 32
     THEN Answers("refused") /\ UNCHANGED <<src, out, validator>>
     ELSE /\ src' = src + Width /\ out' = out \o Load(Width)
          /\ Validates(checkRegister(validator, Load(Width))) /\ UNCHANGED answer
  /\ UNCHANGED <<text, validateUtf8, step, tailStart>>

\* Fewer bytes are left than a register holds: on to the next width.
NextWidth ==
  /\ Running /\ step <= Len(Widths) /\ ~InRegisters
  /\ step' = step + 1 /\ tailStart' = src
  /\ Validates(flush(validator))
  /\ UNCHANGED <<text, validateUtf8, src, out, stored, answer>>

(* shortImpl: the end of the document, character by character.             *)
InTail == Running /\ step > Len(Widths) /\ src <= SourceEnd
Narrowest == Widths[Len(Widths)]

CloseQuoteInTail ==
  /\ InTail /\ At(src) = Quote /\ Stores(1)
  /\ LET tail == checkPartial(validator, SubSeq(text, tailStart + 1, src), Narrowest)
     IN /\ Validates(tail)
        /\ Answers(IF validateUtf8 /\ errors(tail) THEN "refused" ELSE "done")
  /\ UNCHANGED <<text, validateUtf8, step, src, out, tailStart>>

TakeEscapeInTail ==
  /\ InTail /\ At(src) = Backslash /\ Stores(1)
  /\ LET e == EscapeAt(src)
     IN IF e = Refused THEN Answers("refused") /\ UNCHANGED <<src, out>>
        ELSE src' = src + e.length /\ out' = out \o e.bytes /\ UNCHANGED answer
  /\ UNCHANGED <<text, validateUtf8, step, validator, tailStart>>

TakeByteInTail ==
  /\ InTail /\ At(src) \notin {Quote, Backslash} /\ Stores(1)
  /\ IF At(src) < 32 THEN Answers("refused") /\ UNCHANGED <<src, out>>
     ELSE src' = src + 1 /\ out' = Append(out, At(src)) /\ UNCHANGED answer
  /\ UNCHANGED <<text, validateUtf8, step, validator, tailStart>>

Next == \/ CloseQuote \/ TakeEscape \/ TakeRegister \/ NextWidth
        \/ CloseQuoteInTail \/ TakeEscapeInTail \/ TakeByteInTail
Spec == Init /\ [][Next]_vars

---------------------------------------------------------------------------------
\* Whole registers are stored, yet never past the buffer, which parseJson
\* makes as long as the document.
BufferFits == stored <= SourceEnd + 1 /\ Len(out) <= src

\* The loops end for every text: each turn consumes something, goes on to the
\* next width, or answers.
EveryTurnAdvances == [][text' # text \/ src' > src \/ step' > step \/ answer' # "none"]_vars
=================================================================================
