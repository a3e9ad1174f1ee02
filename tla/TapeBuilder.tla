------------------------------ MODULE TapeBuilder ------------------------------
(***************************************************************************)
(* Stage 1: simd_string_reader of                                          *)
(* include/jsonifier-incl/utilities/simd.hpp, with the rope_detector of    *)
(* simd/avx_stage1.hpp and the drain of simd/add_tape_values.hpp.          *)
(*                                                                         *)
(* The document is read in steps of BlocksPerStep blocks of Width          *)
(* characters (64 in the code, one bit of a mask each).  Three carries go  *)
(* from a block to the next: an escape that is pending, an open string and *)
(* a run of other characters.  What is left after the last whole step is   *)
(* copied to a step's length of spaces and scanned like the rest; entries  *)
(* the padding gave are dropped again.                                     *)
(*                                                                         *)
(* A mask is the set of its bits, and a number by the places of its ones.  *)
(* Characters are the classes of TapeSpec.                                 *)
(***************************************************************************)
EXTENDS Integers, Sequences, FiniteSets, SequencesExt, FiniteSetsExt

CONSTANTS
  Width,          \* bits of a mask: 64, and the shifts of PrefixXor make no more
  BlocksPerStep,  \* simdBlocksPerStep
  TapeStep,       \* simdTapeStep: entries written at a time
  Slack,          \* entries reserved beyond 8 per 10 characters: 64
  InitialTape,    \* initialTapeSize
  Texts           \* Texts[n]: the documents that may be the n-th

Classes == {"esc", "quote", "op", "ws", "other"}

ASSUME SizesAssumption ==
  /\ {Width, BlocksPerStep, TapeStep} \subseteq Nat \ {0} /\ Width <= 64
  /\ InitialTape \in Nat /\ Slack \in Nat /\ Slack > TapeStep
ASSUME TextsAssumption == Texts \in Seq(SUBSET Seq(Classes))

VARIABLES
  text,           \* the document
  minified,       \* the reset is for minified input
  index,          \* string_block_reader::index
  carry,          \* nextIsEscaped, prevInString, prevScalar
  tape,           \* the memory of the tape, by index
  tapeCount,
  capacity,
  reach,          \* history: one past the last entry written since the reset
  scanning,       \* between reset and begin
  loads           \* documents begun

vars == <<text, minified, index, carry, tape, tapeCount, capacity, reach, scanning, loads>>

Bits      == 0..(Width - 1)
StepBytes == Width * BlocksPerStep
length    == Len(text)

NoCarry == [nextIsEscaped |-> FALSE, prevInString |-> FALSE, prevScalar |-> FALSE]

-------------------------------------------------------------------------------
(***************************************************************************)
(* Masks.                                                                  *)
(***************************************************************************)
ShiftLeft(m, n) == {i + n : i \in m} \cap Bits
Xor(m, n)       == (m \ n) \cup (n \ m)
Low(b)          == IF b THEN {0} ELSE {}
High(m)         == Width - 1 \in m

\* m - n modulo 2^Width: a one of n above none of m borrows from the places behind
\* it, up to the next that has a one to spare.
Minus(m, n) ==
  Xor(Xor(m, n), {i \in Bits : \E j \in n \ m : j < i /\ \A k \in m \ n : k < j \/ k >= i})

Spread(m, n) == Xor(m, ShiftLeft(m, n))

PrefixXor(m) == Spread(Spread(Spread(Spread(Spread(Spread(m, 1), 2), 4), 8), 16), 32)

OddBits == {i \in Bits : i % 2 = 1}

EscapeAndTerminalCode(potential) ==
  Xor(Minus(ShiftLeft(potential, 1) \cup OddBits, potential), OddBits)

\* Bug: an escape pending from the block before is forgotten.
EscapedInTorn(backslash, c) ==
  LET code == EscapeAndTerminalCode(backslash)
  IN [mask |-> Xor(code, backslash), next |-> High(code \cap backslash)]

\* nextEscapeAndTerminalCode: the escaped characters, and whether the first of
\* the next block is.
EscapedIn(backslash, c) ==
  LET code == EscapeAndTerminalCode(backslash \ Low(c))
  IN IF backslash = {} THEN [mask |-> Low(c), next |-> FALSE]
     ELSE [mask |-> Xor(code, backslash \cup Low(c)), next |-> High(code \cap backslash)]

Of(chars, class) == {i \in Bits : chars[i] = class}

\* Where a string is open once the character there has been read.
InString(quotes, c) ==
  Xor(IF quotes = {} THEN {} ELSE PrefixXor(quotes), IF c.prevInString THEN Bits ELSE {})

Scalar(chars, quotes) ==
  Bits \ (Of(chars, "op") \cup quotes \cup (IF minified THEN {} ELSE Of(chars, "ws")))

\* getStructurals and processBlocksImpl: the entries and the carries after them.
Structurals(c, op, quotes, inString, scalar, nextIsEscaped) ==
  LET follows == ShiftLeft(scalar, 1) \cup Low(c.prevScalar)
  IN [bits  |-> (op \cup quotes \cup (scalar \ follows)) \ Xor(inString, quotes),
      carry |-> [nextIsEscaped |-> nextIsEscaped,
                 prevInString  |-> IF quotes = {} THEN c.prevInString ELSE High(inString),
                 prevScalar    |-> High(scalar)]]

\* One block, from its characters (rope_detector::next).
Block(chars, c) ==
  LET esc    == EscapedIn(Of(chars, "esc"), c.nextIsEscaped)
      quotes == Of(chars, "quote") \ esc.mask
  IN Structurals(c, Of(chars, "op"), quotes, InString(quotes, c), Scalar(chars, quotes), esc.next)

-------------------------------------------------------------------------------
(***************************************************************************)
(* One step: every block's mask, then the drain of all of them.            *)
(***************************************************************************)
\* fullBlock, or getRemainder with its padding of spaces.
Chars(n) == [i \in Bits |-> LET p == index + (n - 1) * Width + i
                            IN IF p < length THEN text[p + 1] ELSE "ws"]

\* The entries of the step's blocks in turn, each with the carry of the one before.
Blocks[n \in 0..BlocksPerStep] ==
  IF n = 0 THEN [bits |-> {}, carry |-> carry] ELSE Block(Chars(n), Blocks[n - 1].carry)

Groups(count) == IF count = 0 THEN 1 ELSE (count + TapeStep - 1) \div TapeStep

\* tzcnt, which answers Width for an empty mask, and blsr.
Lowest(m)    == IF m = {} THEN Width ELSE Min(m)
Remaining(m) == m \ {Lowest(m)}

\* drainLane writes whole groups of TapeStep entries, the first one always; past
\* the last bit set it writes what tzcnt answers for an empty mask.
Lane(at, base, bits) ==
  LET size == Groups(Cardinality(bits)) * TapeStep
      left[k \in 0..size] == IF k = 0 THEN bits ELSE Remaining(left[k - 1])
  IN [i \in at..(at + size - 1) |-> base + Lowest(left[i - at])]

Over(f, g) == [i \in DOMAIN f \cup DOMAIN g |-> IF i \in DOMAIN g THEN g[i] ELSE f[i]]

\* A block's lane comes behind the entries there are.
Laned(d, base, bits) ==
  [tape  |-> Over(d.tape, Lane(d.count, base, bits)),
   reach |-> d.count + Groups(Cardinality(bits)) * TapeStep,
   count |-> d.count + Cardinality(bits)]

\* add_tape_values::impl, and the tapeCount it leaves.
Drained[n \in 0..BlocksPerStep] ==
  IF n = 0 THEN [tape |-> tape, count |-> tapeCount, reach |-> reach]
  ELSE Laned(Drained[n - 1], index + (n - 1) * Width, Blocks[n].bits)

HasFullBlock == index < length - StepBytes

-------------------------------------------------------------------------------
Init ==
  /\ text = <<>> /\ minified \in BOOLEAN /\ index = 0 /\ carry = NoCarry
  /\ tape = [i \in {} |-> 0] /\ tapeCount = 0 /\ capacity = InitialTape
  /\ reach = 0 /\ scanning = FALSE /\ loads = 0

Needed(n) == (n * 8) \div 10 + Slack

\* The next document of the caller, and the block reader's own reset.
Begins ==
  /\ ~scanning /\ loads < Len(Texts)
  /\ loads' = loads + 1 /\ scanning' = TRUE
  /\ text' \in Texts[loads'] /\ minified' \in BOOLEAN
  /\ index' = 0 /\ tapeCount' = 0 /\ reach' = 0

\* Bug: the carries of the document before are kept.
ResetKeepsCarry ==
  /\ Begins
  /\ IF Needed(Len(text')) > capacity
       THEN capacity' = Needed(Len(text')) /\ tape' = [i \in {} |-> 0]
       ELSE UNCHANGED <<capacity, tape>>
  /\ UNCHANGED carry

\* Bug: the tape is never reserved anew.
ResetKeepsTape == Begins /\ carry' = NoCarry /\ UNCHANGED <<capacity, tape>>

\* reset, up to resetImpl.
Reset ==
  /\ Begins
  /\ carry' = NoCarry
  /\ IF Needed(Len(text')) > capacity
       THEN capacity' = Needed(Len(text')) /\ tape' = [i \in {} |-> 0]
       ELSE UNCHANGED <<capacity, tape>>

Leave(d) == tape' = d.tape /\ tapeCount' = d.count /\ reach' = d.reach

\* A whole step of resetImpl.
ProcessFull ==
  /\ scanning /\ HasFullBlock
  /\ Leave(Drained[BlocksPerStep]) /\ carry' = Blocks[BlocksPerStep].carry
  /\ index' = index + StepBytes
  /\ UNCHANGED <<text, minified, capacity, scanning, loads>>

\* The entries left once the trailing ones at or past the end are dropped.
TrimmedNot(t, count) == count    \* bug

Trimmed(t, count) == Max({0} \cup {n \in 1..count : t[n - 1] < length})

\* begin(): the terminating entry.
Begun(d, count) == [d EXCEPT !.tape  = Over(@, [i \in {count} |-> length]),
                             !.count = count,
                             !.reach = Max({@, count + 1})]

\* The remainder if there is one, the trimming, and begin().
ProcessRemainder ==
  /\ scanning /\ ~HasFullBlock
  /\ IF index = length
     THEN Leave(Begun(Drained[0], tapeCount)) /\ UNCHANGED carry
     ELSE LET d == Drained[BlocksPerStep]
          IN Leave(Begun(d, Trimmed(d.tape, d.count))) /\ carry' = Blocks[BlocksPerStep].carry
  /\ scanning' = FALSE
  /\ UNCHANGED <<text, minified, index, capacity, loads>>

Next == Reset \/ ProcessFull \/ ProcessRemainder

Spec == Init /\ [][Next]_vars

-------------------------------------------------------------------------------
Tape == [i \in 1..tapeCount |-> tape[i - 1]]

\* The blocks, masks and carries implement the scan from front to back.
Stage1 == INSTANCE TapeSpec WITH scanned <- IF scanning THEN index ELSE length,
                                 entries <- Tape

\* One step after the other gives the tape one character after the other would:
\* no escape, string or run is torn at the edge of a block or of a step, whatever
\* the document before left behind (simd.hpp:183-292).
IsScan == Stage1!Spec

\* Every write is inside the allocation, the ones past the last entry of a lane
\* and the terminating one included, as long as no more than 8 of 10 characters
\* are entries (simd.hpp:129).
TapeFits ==
  10 * tapeCount <= 8 * length => reach <= capacity

\* The iterator may read one entry past the last: it is the document's length,
\* where the terminator stands, and no entry before it is (simd.hpp:162-193).
Terminated ==
  ~scanning /\ loads > 0 =>
    /\ tape[tapeCount] = length
    /\ \A i \in 1..tapeCount : Tape[i] < length
===============================================================================
