---------------------------- MODULE StringSerializer ----------------------------
(***************************************************************************)
(* string_serializer: a string is written between quotes a register at a   *)
(* time, then byte by byte, with what needs it escaped from a table.       *)
(***************************************************************************)
EXTENDS Integers, Sequences, SequencesExt

CONSTANTS
  Widths,    \* bytes of the registers, wide to narrow
  Values     \* strings to write, as bytes

VARIABLES
  value,     \* the string being written
  width,     \* the register width in use; one more for shortImpl, two when done
  read,      \* bytes consumed
  written    \* the buffer from the opening quote to string2

vars == <<value, width, read, written>>

Quote == 34
Backslash == 92

\* Escapes of one letter; \a and \v are none of JSON's.
Letters == [b \in {7, 8, 9, 10, 11, 12, 13, 34, 92} |->
              CASE b = 7 -> 97 [] b = 8 -> 98 [] b = 9 -> 116 [] b = 10 -> 110 [] b = 11 -> 118
                [] b = 12 -> 102 [] b = 13 -> 114 [] OTHER -> b]
HexDigit(n) == IF n < 10 THEN 48 + n ELSE 55 + n
\* Bug: the table ends before the last two control characters.
escapeTableShort(b) ==
  CASE b \in DOMAIN Letters -> <<Backslash, Letters[b]>>
    [] b \in 1..29 \ DOMAIN Letters -> <<Backslash, 117, 48, 48, 48 + (b \div 16), HexDigit(b % 16)>>
    [] OTHER -> <<>>
\* What stands for a byte, nothing for one that is written as it is, and for 0.
escapeTable(b) ==
  CASE b \in DOMAIN Letters -> <<Backslash, Letters[b]>>
    [] b \in 1..31 \ DOMAIN Letters -> <<Backslash, 117, 48, 48, 48 + (b \div 16), HexDigit(b % 16)>>
    [] OTHER -> <<>>

-----------------------------------------------------------------------------
Init == value \in Values /\ width = 1 /\ read = 0 /\ written = <<Quote>>

Done == width = Len(Widths) + 2
Bytes(n) == SubSeq(value, read + 1, read + n)

(* string_serialize_step                                                   *)
InRegisters == width <= Len(Widths) /\ read < Len(value) - Widths[width]
\* findSerialize: the bytes before the first that is escaped, or -1.
Plain == SelectInSeq(Bytes(Widths[width]), LAMBDA b : b < 32 \/ b \in {Quote, Backslash}) - 1

WriteRegister ==
  /\ InRegisters /\ Plain = -1
  /\ read' = read + Widths[width] /\ written' = written \o Bytes(Widths[width])
  /\ UNCHANGED <<value, width>>

WriteEscape ==
  /\ InRegisters /\ Plain >= 0
  /\ read' = read + Plain + 1
  /\ written' = written \o Bytes(Plain) \o escapeTable(value[read + Plain + 1])
  /\ UNCHANGED <<value, width>>

NextWidth ==
  /\ width <= Len(Widths) /\ ~InRegisters
  /\ width' = width + 1 /\ UNCHANGED <<value, read, written>>

(* shortImpl                                                               *)
WriteByte ==
  /\ width = Len(Widths) + 1 /\ read < Len(value)
  /\ read' = read + 1
  /\ written' = LET b == value[read + 1]
                IN written \o (IF escapeTable(b) = <<>> THEN <<b>> ELSE escapeTable(b))
  /\ UNCHANGED <<value, width>>

CloseString ==
  /\ width = Len(Widths) + 1 /\ read = Len(value)
  /\ written' = Append(written, Quote) /\ width' = width + 1
  /\ UNCHANGED <<value, read>>

Next == WriteRegister \/ WriteEscape \/ NextWidth \/ WriteByte \/ CloseString
Spec == Init /\ [][Next]_vars
=================================================================================
