------------------------------- MODULE Utf8Check --------------------------------
(***************************************************************************)
(* The UTF-8 check of one byte against the three before it, and of a       *)
(* register, shared by the checker of whole buffers (utf8_checker_new) and *)
(* the one inside the string parser (utf8_register_validator).  A byte's   *)
(* error bits are a set of names; tooLarge1000 and overLong4 are one bit   *)
(* in the code, so one name here.                                          *)
(***************************************************************************)
EXTENDS Integers, Sequences, SequencesExt

carry == {"tooShort", "tooLong", "twoConts"}

\* Tables by the high half of the byte before, its low half, and the high
\* half of the byte: index 1 is nibble 0.
byte1HighTable ==
  [n \in 1..16 |->
     CASE n <= 8  -> {"tooLong"}
       [] n \in 9..12 -> {"twoConts"}
       [] n = 13  -> {"tooShort", "overLong2"}
       [] n = 14  -> {"tooShort"}
       [] n = 15  -> {"tooShort", "overLong3", "surrogate"}
       [] n = 16  -> {"tooShort", "tooLarge", "overLong4"}]

byte1LowTable ==
  [n \in 1..16 |-> carry \cup
     CASE n = 1 -> {"overLong3", "overLong2", "overLong4"}
       [] n = 2 -> {"overLong2"}
       [] n \in 3..4 -> {}
       [] n = 5 -> {"tooLarge"}
       [] n = 14 -> {"tooLarge", "overLong4", "surrogate"}
       [] OTHER -> {"tooLarge", "overLong4"}]

byte2HighTable ==
  [n \in 1..16 |->
     CASE n = 9  -> {"tooLong", "overLong2", "twoConts", "overLong3", "overLong4"}
       [] n = 10 -> {"tooLong", "overLong2", "twoConts", "overLong3", "tooLarge"}
       [] n \in 11..12 -> {"tooLong", "overLong2", "twoConts", "surrogate", "tooLarge"}
       [] OTHER  -> {"tooShort"}]

checkSpecialCases(b, p1) ==
  byte1HighTable[(p1 \div 16) + 1] \cap byte1LowTable[(p1 % 16) + 1]
    \cap byte2HighTable[(b \div 16) + 1]

\* Bug: characters of four bytes are forgotten.
mustBe2Continuation(p2, p3) == p2 >= 224
mustBe23Continuation(p2, p3) == p2 >= 224 \/ p3 >= 240

\* A continuation after a continuation is an error (twoConts) exactly where no
\* longer character asks for one: the xor of the two.
checkMultibyteLengths(b, p1, p2, p3) ==
  LET sc == checkSpecialCases(b, p1)
  IN IF mustBe23Continuation(p2, p3)
     THEN IF "twoConts" \in sc THEN sc \ {"twoConts"} ELSE sc \cup {"twoConts"}
     ELSE sc

isAscii(bytes) == \A i \in DOMAIN bytes : bytes[i] < 128
LastThree(bytes) == SubSeq(bytes, Len(bytes) - 2, Len(bytes))

\* The register ends inside a character (isIncompleteMax).
\* Bug: only the last byte is compared.
checkIncompleteLast(bytes) == Last(bytes) >= 192
checkIncomplete(bytes) ==
  LET t == LastThree(bytes) IN t[1] >= 240 \/ t[2] >= 224 \/ t[3] >= 192

\* Some byte of the register, which follows the three bytes prev, is wrong.
WrongByte(bytes, prev) ==
  LET all == prev \o bytes
  IN \E i \in 4..Len(all) : checkMultibyteLengths(all[i], all[i - 1], all[i - 2], all[i - 3]) # {}

-----------------------------------------------------------------------------
(* A checker: what is kept of the input before, and of the errors.         *)

NewChecker == [prevInput |-> <<0, 0, 0>>, prevIncomplete |-> FALSE, error |-> FALSE]

\* One block of registers, ASCII or not.  The three bytes before a later
\* register of the block are the earlier one's, so the block is one sequence.
\* Bug: an ASCII block does not look at what the block before left open.
checkStepAscii(checker, block) ==
  IF isAscii(block)
  THEN [checker EXCEPT !.prevInput = LastThree(block), !.prevIncomplete = FALSE]
  ELSE [prevInput      |-> LastThree(block),
        prevIncomplete |-> checkIncomplete(block),
        error          |-> checker.error \/ WrongByte(block, checker.prevInput)]
checkStepImpl(checker, block) ==
  IF isAscii(block)
  THEN [prevInput      |-> LastThree(block),
        prevIncomplete |-> FALSE,
        error          |-> checker.error \/ checker.prevIncomplete]
  ELSE [prevInput      |-> LastThree(block),
        prevIncomplete |-> checkIncomplete(block),
        error          |-> checker.error \/ WrongByte(block, checker.prevInput)]

errors(checker) == checker.error \/ checker.prevIncomplete

Padding(n) == [i \in 1..n |-> 65]     \* 0x41

\* The validator of a string: one register of `size` bytes, or fewer with
\* padding.  Nothing at all happens when there are none.
checkRegister(validator, bytes) == checkStepImpl(validator, bytes)
checkPartial(validator, bytes, size) ==
  IF bytes = <<>> THEN validator
  ELSE checkRegister(validator, bytes \o Padding(size - Len(bytes)))

\* Bug: what is left open is not handed to the registers of the next width.
flushForgets(validator) == [validator EXCEPT !.prevIncomplete = FALSE]
\* The state handed to the registers of the next width.
flush(validator) == [validator EXCEPT !.prevIncomplete = checkIncomplete(validator.prevInput)]

-----------------------------------------------------------------------------
(***************************************************************************)
(* Well-formed UTF-8 by Table 3-7 of the Unicode standard, read byte by    *)
(* byte: what the checkers are compared with.                              *)
(***************************************************************************)
\* The ranges of the bytes that follow each first byte.
Bad  == <<{}>>
Cont == 128..191
After(b) ==
  CASE b < 128 -> <<>>
    [] b \in 194..223 -> <<Cont>>
    [] b = 224 -> <<160..191, Cont>>
    [] b = 237 -> <<128..159, Cont>>
    [] b \in 225..239 \ {237} -> <<Cont, Cont>>
    [] b = 240 -> <<144..191, Cont, Cont>>
    [] b \in 241..243 -> <<Cont, Cont, Cont>>
    [] b = 244 -> <<128..143, Cont, Cont>>
    [] OTHER -> Bad
ReadsByte(e, b) ==
  CASE e = <<>> -> After(b)
    [] e # <<>> /\ b \in e[1] -> Tail(e)
    [] OTHER -> Bad
ReadsAll(e, bytes) ==
  LET r[i \in 0..Len(bytes)] == IF i = 0 THEN e ELSE ReadsByte(r[i - 1], bytes[i])
  IN r[Len(bytes)]
WellFormed(bytes) == ReadsAll(<<>>, bytes) = <<>>
=================================================================================
