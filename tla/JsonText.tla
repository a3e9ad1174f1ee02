-------------------------------- MODULE JsonText --------------------------------
(***************************************************************************)
(* What reads and writes the text of strings: the check of a whole buffer  *)
(* (validateUtf8), the parser on a document, and the serializer followed   *)
(* by the parser on what it wrote.                                         *)
(***************************************************************************)
EXTENDS StringParser

CONSTANTS
  StepBytes,      \* bytes of a step of the loop of validateUtf8
  Steps,          \* what a full step can hold
  Tails,          \* what can be left over: shorter sequences, and the empty one
  Values,         \* strings to write
  Rests           \* what may follow a string in the document it is written to

ASSUME StepsAssumption ==
  /\ StepBytes \in Nat /\ StepBytes >= 3
  /\ \A s \in Steps : s \in Seq(0..255) /\ Len(s) = StepBytes
  /\ \A t \in Tails : t \in Seq(0..255) /\ Len(t) < StepBytes
ASSUME ValuesAssumption == Values \subseteq Seq(0..255) /\ Rests \subseteq Seq(0..255)

VARIABLES
  phase,          \* "check", "parse", "serialize"
  checker,        \* the registers of utf8_checker_new
  expects,        \* what Table 3-7 allows next: a sequence of ranges, or Bad
  verdict,        \* "valid" or "invalid" (validateUtf8 returned), "none" before
  value, width, read, written   \* the serializer

parserVars     == vars
checkerVars    == <<checker, expects, verdict>>
serializerVars == <<value, width, read, written>>
allVars == <<phase, parserVars, checkerVars, serializerVars>>

Writer  == INSTANCE StringSerializer

-----------------------------------------------------------------------------
(***************************************************************************)
(* validateUtf8: a buffer of any length is checked step by step, the last  *)
(* step filled up with 'A'.  The bytes are chosen as the steps go, and a   *)
(* reader of UTF-8 by the table of the Unicode standard (Table 3-7) reads  *)
(* the same bytes, so the two are compared on every sequence of bytes.     *)
(***************************************************************************)
CheckerInit == checker = NewChecker /\ expects = <<>> /\ verdict = "none"

\* A loop turn of validateUtf8.  An error that was found stays (it is or-ed
\* to), so what follows it is not explored.
CheckStep ==
  /\ verdict = "none" /\ ~checker.error
  /\ \E block \in Steps : /\ checker' = checkStepImpl(checker, block)
                          /\ expects' = ReadsAll(expects, block)
  /\ UNCHANGED verdict

\* The end: the bytes left over, if any, in a step filled up with 'A'.
Finish ==
  /\ verdict = "none"
  /\ \E tail \in Tails :
       LET last == IF tail = <<>> THEN checker
                   ELSE checkStepImpl(checker, tail \o Padding(StepBytes - Len(tail)))
       IN /\ checker' = last
          /\ expects' = ReadsAll(expects, tail)
          /\ verdict' = IF errors(last) THEN "invalid" ELSE "valid"

CheckerNext == CheckStep \/ Finish

-----------------------------------------------------------------------------
(* The three together.                                                     *)

IdleWriter  == value = <<>> /\ width = 0 /\ read = 0 /\ written = <<>>
IdleParser  == /\ text = <<>> /\ validateUtf8 = FALSE /\ step = 1 /\ src = 0 /\ out = <<>>
               /\ stored = 0 /\ validator = NewChecker /\ tailStart = 0 /\ answer = "none"

JsonTextInit ==
  \/ phase = "check"     /\ CheckerInit /\ IdleParser /\ IdleWriter
  \/ phase = "parse"     /\ Init /\ CheckerInit /\ IdleWriter
  \/ phase = "serialize" /\ Writer!Init /\ CheckerInit /\ IdleParser

Check     == phase = "check" /\ CheckerNext /\ UNCHANGED <<phase, parserVars, serializerVars>>
Parse     == phase = "parse" /\ Next /\ UNCHANGED <<phase, checkerVars, serializerVars>>
Serialize == phase = "serialize" /\ Writer!Next /\ UNCHANGED <<phase, checkerVars, parserVars>>

\* The string that was written is parsed, in a document that goes on.
ReadBack ==
  /\ phase = "serialize" /\ Writer!Done
  /\ phase' = "parse"
  /\ \E rest \in Rests, v \in BOOLEAN : text' = Tail(written) \o rest /\ validateUtf8' = v
  /\ UNCHANGED <<step, src, out, stored, validator, tailStart, answer, checkerVars, serializerVars>>

Stopped == (answer # "none" \/ verdict # "none") /\ UNCHANGED allVars

JsonTextNext == Check \/ Parse \/ Serialize \/ ReadBack \/ Stopped
JsonTextSpec == JsonTextInit /\ [][JsonTextNext]_allVars

-----------------------------------------------------------------------------
(***************************************************************************)
(* What a JSON string means (RFC 8259, section 7), and what string_parser  *)
(* makes of it.                                                            *)
(***************************************************************************)
(* The characters of a string, from a position (counted from 0) on.        *)

ShortEscape == [b \in {34, 47, 92, 98, 102, 110, 114, 116} |->
                  CASE b \in {34, 47, 92} -> b [] b = 98 -> 8 [] b = 102 -> 12 [] b = 110 -> 10
                    [] b = 114 -> 13 [] b = 116 -> 9]
FourHex(i) == \A k \in i..(i + 3) : At(k) \in DOMAIN Hex
IsUnicode(i) == At(i) = Backslash /\ At(i + 1) = u /\ FourHex(i + 2)
Unit(i) == ((Hex[At(i + 2)] * 16 + Hex[At(i + 3)]) * 16 + Hex[At(i + 4)]) * 16 + Hex[At(i + 5)]
IsHigh(i) == IsUnicode(i) /\ Unit(i) \in 55296..56319
IsLow(i)  == IsUnicode(i) /\ Unit(i) \in 56320..57343

\* The UTF-8 of a code point: Table 3-6 of the Unicode standard.
Six(n) == 128 + (n % 64)
Utf8Of(cp) ==
  CASE cp < 128 -> <<cp>>
    [] 128 <= cp /\ cp < 2048 -> <<192 + (cp \div 64), Six(cp)>>
    [] 2048 <= cp /\ cp < 65536 -> <<224 + (cp \div 4096), Six(cp \div 64), Six(cp)>>
    [] OTHER -> <<240 + (cp \div 262144), Six(cp \div 4096), Six(cp \div 64), Six(cp)>>

Char(n, bytes) == [length |-> n, bytes |-> bytes]
NoChar == Char(0, <<>>)

CharAt(i) ==
  CASE i >= SourceEnd -> NoChar
    [] i < SourceEnd /\ At(i) # Backslash -> Char(1, <<At(i)>>)
    [] At(i) = Backslash /\ At(i + 1) \in DOMAIN ShortEscape -> Char(2, <<ShortEscape[At(i + 1)]>>)
    [] IsHigh(i) /\ IsLow(i + 6) ->
         Char(12, Utf8Of(65536 + (Unit(i) - 55296) * 1024 + (Unit(i + 6) - 56320)))
    [] IsUnicode(i) /\ ~IsHigh(i) /\ ~IsLow(i) -> Char(6, Utf8Of(Unit(i)))
    [] OTHER -> NoChar

\* The string from i on: its characters' bytes, and the source bytes that are
\* not escapes, up to the closing quote, or to where no character can be read.
\* A control character is read like any other here (RFC 8259 refuses it).
NoString(i) == [ok |-> FALSE, end |-> i, value |-> <<>>, plain |-> <<>>]
StringEnd(i) == [ok |-> TRUE, end |-> i, value |-> <<>>, plain |-> <<>>]
Extended(c, rest) ==
  [ok |-> rest.ok, end |-> rest.end, value |-> c.bytes \o rest.value,
   plain |-> IF c.length = 1 THEN c.bytes \o rest.plain ELSE rest.plain]
MeaningFrom(from) ==
  LET m[i \in 0..(SourceEnd + 12)] ==
        CASE At(i) = Quote -> StringEnd(i)
          [] At(i) # Quote /\ CharAt(i) = NoChar -> NoString(i)
          [] OTHER -> Extended(CharAt(i), m[i + CharAt(i).length])
  IN m[from]
Meaning == MeaningFrom(0)

-----------------------------------------------------------------------------
(* Properties.                                                              *)

Source(m) == SubSeq(text, 1, m.end)
HasControl(m) == \E i \in 1..m.end : text[i] < 32

\* Bytes that a table for another place, or what is before the tables, may
\* make a digit of, and an escape with such bytes, alone or as the second of
\* a pair: what becomes of it is the build's choice.
LooksHex(i, place) ==
  \/ At(i) \in DOMAIN Hex
  \/ IF place = 3 THEN At(i) \in 128..255 ELSE At(i) \in 143..148
StrayDigits(i) == ~FourHex(i) /\ \A place \in 0..3 : LooksHex(i + place, place)
IsStray(i) ==
  /\ At(i) = Backslash /\ At(i + 1) = u
  /\ \/ StrayDigits(i + 2)
     \/ IsHigh(i) /\ At(i + 6) = Backslash /\ At(i + 7) = u /\ StrayDigits(i + 8)
\* The string cannot be read any further because of one.
Stray == ~Meaning.ok /\ IsStray(Meaning.end)

\* A quote or a backslash lies behind the byte, nearer than a register is wide.
MarkNear(i) == \E j \in DOMAIN Widths : \E k \in (i + 1)..(i + Widths[j] - 1) : At(k) \in {Quote, Backslash}

\* A text that is accepted and does not stop at a stray escape has a closing
\* quote, only escapes of RFC 8259, ends at that quote and is what its
\* characters mean, wherever they lie in the registers.  It is a string of
\* RFC 8259 but for control characters: they are only looked for in registers
\* without a quote or a backslash, and in the tail, so each that is let
\* through has one of those near behind it.
Decodes ==
  answer = "done" /\ ~Stray =>
    LET m == Meaning
    IN /\ m.ok /\ src = m.end /\ out = m.value
       /\ \A i \in 0..(m.end - 1) : At(i) < 32 => MarkNear(i)

\* One that is refused is no string, has a control character, or is not UTF-8
\* where that was asked for.
RefusesOnlyBad ==
  answer = "refused" =>
    LET m == Meaning IN ~m.ok \/ HasControl(m) \/ (validateUtf8 /\ ~WellFormed(Source(m)))

\* With validateUtf8, what an accepted string holds besides its escapes is
\* well-formed UTF-8 (the string is, too, but for a character cut by an
\* escape: checkPartial of no bytes checks nothing).
ValidatesUtf8 == answer = "done" /\ validateUtf8 /\ ~Stray => WellFormed(Meaning.plain)

\* A buffer passes exactly if it is well-formed by Table 3-7, wherever its
\* characters lie in the registers and steps.
ExactlyUtf8 == verdict # "none" => (verdict = "valid" <=> expects = <<>>)

\* Bytes that are not written as JSON: \a and \v are no escapes of it, and
\* 0 is dropped or stands as it is.
NotEscaped == {0, 7, 11}

\* What string_serializer writes is read back by string_parser as the same
\* bytes, whatever follows it and wherever the registers of either end.
StringsReadBack ==
  /\ value # <<>> /\ answer # "none" /\ (validateUtf8 => WellFormed(value))
  /\ \A i \in DOMAIN value : value[i] \notin NotEscaped
  => answer = "done" /\ out = value
=================================================================================
