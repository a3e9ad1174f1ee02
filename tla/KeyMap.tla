--------------------------------- MODULE KeyMap ---------------------------------
(***************************************************************************)
(* The table a registered type's keys are compiled into and the search of  *)
(* the key at the parser's position in it (include/jsonifier-incl/utilities *)
(* /hash_map.hpp, with the sorted views of core/core.hpp), and the choice  *)
(* of the member to parse made with both (parsing/parse_impl.hpp).         *)
(*                                                                         *)
(* A key is a sequence of bytes, positions in it count from 0 as in the    *)
(* code.  Keys are shorter than 255 bytes, all of them below 128, and need *)
(* no escape.                                                              *)
(***************************************************************************)
EXTENDS Integers, Sequences, SequencesExt, FiniteSets

CONSTANTS
  KeyLists,      \* the keys of the registered types, in the order of createValue
  Following,     \* what may stand behind the closing quote of a key in a document
  Spellings,     \* the keys documents use, registered or not
  SimdBytes,     \* simdBytesPerRegister
  StorageSize,   \* storageSize of collectMapConstructionData
  SeedsPerLength \* seeds tried for each length of collectSimdFullLengthHashMapData

Quote == 34

\* What a key has: no escape, so that it is written as it is.
KeyBytes == (32..127) \ {Quote, 92}

ASSUME KeysAssumption ==
  /\ KeyLists \subseteq Seq(Seq(KeyBytes))
  /\ \A ks \in KeyLists : IsInjective(ks) /\ Len(ks) < 255 /\ \A i \in DOMAIN ks : Len(ks[i]) < 255
ASSUME TextsAssumption == Spellings \subseteq Seq(0..255) /\ Following \subseteq Seq(0..255)
ASSUME SizesAssumption == SimdBytes \in {16, 32, 64} /\ StorageSize = 2048 /\ SeedsPerLength \in Nat

VARIABLES
  keys,      \* the keys of the type
  table,     \* hashData of the type
  text,      \* the document from the byte behind a key's opening quote on
  expected,  \* antiHashStatesNew at the member's place in the document
  member     \* the member that is parsed, Skipped when the value is skipped

vars == <<keys, table, text, expected, member>>

NoText   == <<>>
NoTable  == [type |-> "none"]
Skipped   == -1
Undecided == -2
NoColumn == -1       \* std::numeric_limits<uint64_t>::max()

---------------------------------------------------------------------------------
(***************************************************************************)
(* The hash of a key (hash.hpp) in 64-bit arithmetic: a word is its eight  *)
(* bytes, the lowest first.                                                *)
(***************************************************************************)
Nibbles == 0..15
\* The exclusive or of two nibbles, in a table.
NibbleXor == [a \in Nibbles, b \in Nibbles |->
  LET bit(n) == IF (a \div n) % 2 # (b \div n) % 2 THEN n ELSE 0
  IN  bit(1) + bit(2) + bit(4) + bit(8)]

ByteXor(a, b) == 16 * NibbleXor[a \div 16, b \div 16] + NibbleXor[a % 16, b % 16]
WordXor(a, b) == [i \in 1..8 |-> ByteXor(a[i], b[i])]

\* a * b % 2^64: the products of each place and what the places below carry.
Product(a, b) ==
  LET place == [k \in 1..8 |-> FoldLeft(LAMBDA sum, i : sum + a[i] * b[k + 1 - i],
                                        0, [i \in 1..k |-> i])]
      carry[k \in 0..8] == IF k = 0 THEN 0 ELSE (place[k] + carry[k - 1]) \div 256
  IN  [k \in 1..8 |-> (place[k] + carry[k - 1]) % 256]

Multiplier == <<135, 202, 235, 133, 177, 121, 55, 158>>

\* The lengths of the pieces that n bytes are read in.
Pieces(n) ==
  [i \in 1..(n \div 8) |-> 8] \o
  (IF n % 8 >= 4 THEN <<4>> ELSE <<>>) \o
  (IF n % 4 >= 2 THEN <<2>> ELSE <<>>) \o
  (IF n % 2 = 1 THEN <<1>> ELSE <<>>)

\* readBitsCt: the bytes from <from> on, in a word.
ReadBits(bytes, from, n) == [i \in 1..8 |-> IF i <= n THEN bytes[from + i] ELSE 0]

\* What a piece of the key does to the word, in a table that is filled while
\* compiling and in one that is searched.
CtMix(word, piece) == Product(WordXor(word, piece), Multiplier)
RtMix(word, piece, size) ==
  WordXor(word, IF size = 1 THEN piece ELSE Product(piece, Multiplier))

\* The first n bytes folded into the seed.
Mixed(compiling, seed, bytes, n) ==
  LET mix(h, size) == LET piece == ReadBits(bytes, h.at, size)
                      IN  IF compiling THEN CtMix(h.word, piece) ELSE RtMix(h.word, piece, size)
      read == FoldLeft(LAMBDA h, size : [word |-> mix(h, size), at |-> h.at + size],
                       [word |-> seed, at |-> 0], Pieces(n))
  IN  WordXor(read.word, [i \in 1..8 |-> IF i <= 4 THEN read.word[i + 4] ELSE 0])

\* ct_key_hasher::hashKeyCt, with which the table is filled while compiling.
HashKeyCt(seed, bytes, n) == Mixed(TRUE, seed, bytes, n)

\* rt_key_hasher::hashKeyRt, with which the table is searched.
HashKeyRt(seed, bytes, n) == Mixed(FALSE, seed, bytes, n)

\* prns: ct_key_hasher starts with the first and takes the next for each attempt.
Prns == <<
  <<216, 81, 236, 6, 15, 24, 87, 14>>,
  <<245, 179, 245, 154, 37, 135, 1, 37>>,
  <<55, 192, 198, 172, 112, 196, 35, 54>>,
  <<162, 139, 66, 106, 100, 254, 137, 58>>,
  <<215, 114, 48, 192, 110, 207, 10, 82>>,
  <<25, 15, 44, 32, 89, 34, 54, 94>>,
  <<167, 151, 196, 180, 246, 86, 139, 98>>,
  <<25, 39, 90, 118, 178, 27, 181, 112>>,
  <<148, 169, 42, 158, 10, 119, 109, 125>>,
  <<229, 237, 116, 105, 244, 91, 243, 205>>,
  <<148, 177, 241, 66, 222, 108, 183, 39>>,
  <<71, 49, 52, 47, 203, 167, 226, 43>>,
  <<57, 171, 129, 139, 12, 91, 115, 65>>,
  <<35, 172, 55, 148, 103, 215, 129, 7>>,
  <<36, 160, 129, 119, 22, 244, 47, 85>>,
  <<153, 108, 38, 73, 186, 165, 236, 101>>,
  <<196, 44, 104, 242, 51, 185, 157, 117>>,
  <<64, 43, 177, 221, 152, 132, 183, 134>>,
  <<206, 210, 49, 179, 129, 75, 38, 182>>,
  <<123, 15, 32, 81, 33, 40, 190, 40>>,
  <<160, 145, 110, 226, 175, 28, 136, 46>>,
  <<106, 20, 49, 117, 127, 131, 151, 64>>,
  <<198, 82, 250, 173, 222, 245, 98, 70>>,
  <<112, 183, 101, 60, 86, 4, 243, 87>>,
  <<46, 138, 238, 197, 64, 223, 23, 98>>,
  <<214, 181, 146, 179, 65, 223, 212, 120>>,
  <<148, 95, 14, 11, 12, 70, 56, 130>>,
  <<220, 243, 75, 55, 246, 223, 120, 223>>,
  <<255, 14, 156, 81, 233, 186, 2, 39>>,
  <<64, 253, 135, 158, 121, 17, 91, 45>>,
  <<181, 121, 186, 28, 21, 87, 128, 57>>,
  <<213, 237, 8, 71, 125, 17, 175, 77>>,
  <<209, 177, 143, 96, 123, 218, 169, 84>>,
  <<44, 127, 5, 2, 134, 175, 100, 108>>,
  <<160, 160, 118, 48, 4, 102, 181, 113>>,
  <<194, 168, 194, 125, 38, 15, 183, 128>>,
  <<214, 122, 209, 239, 229, 236, 120, 16>>,
  <<99, 208, 33, 136, 247, 176, 106, 3>>,
  <<32, 139, 15, 104, 247, 121, 232, 50>>,
  <<29, 94, 188, 93, 40, 144, 67, 68>>,
  <<191, 79, 57, 90, 18, 62, 23, 78>>,
  <<122, 84, 102, 111, 134, 145, 92, 89>>,
  <<90, 90, 252, 235, 252, 214, 62, 97>>,
  <<196, 232, 107, 65, 126, 93, 31, 121>>,
  <<221, 69, 99, 197, 94, 26, 114, 132>>,
  <<250, 20, 246, 85, 64, 96, 173, 247>>,
  <<48, 250, 12, 173, 198, 100, 18, 34>>,
  <<11, 190, 137, 62, 246, 41, 23, 45>>,
  <<69, 173, 209, 200, 252, 149, 77, 66>> >>

---------------------------------------------------------------------------------
\* tupleReferences of core.hpp: the keys with the index of their member.
TupleReferences == [i \in DOMAIN keys |-> [key |-> keys[i], oldIndex |-> i - 1]]

At(key, column) == key[column + 1]
Sizes(refs)     == {Len(refs[i].key) : i \in DOMAIN refs}
MinLength(refs) == Min(Sizes(refs))
MaxLength(refs) == Max(Sizes(refs))

\* The first column from start on, before maxIndex, in which all keys differ.
FindUniqueColumnIndex(refs, maxIndex, start) ==
  LET unique == {c \in start..(maxIndex - 1) :
                   IsInjective([i \in DOMAIN refs |-> At(refs[i].key, c)])}
  IN  IF unique = {} THEN NoColumn ELSE Min(unique)

UniqueIndex(refs) == FindUniqueColumnIndex(refs, MinLength(refs), 0)

FirstByte(ref) == ref.key[1]
Length(ref)    == Len(ref.key)
FirstBytes(refs) == [i \in DOMAIN refs |-> FirstByte(refs[i])]
Lengths(refs)    == [i \in DOMAIN refs |-> Length(refs[i])]

\* sortTupleRefsByFirstByte, sortTupleRefsByLength: from high to low, equals stay in order.
Before(refs, rank, i) == {j \in DOMAIN refs : rank[j] > rank[i] \/ (rank[j] = rank[i] /\ j < i)}
SortTupleRefs(refs, rank) ==
  [p \in DOMAIN refs |-> refs[CHOOSE i \in DOMAIN refs : Cardinality(Before(refs, rank, i)) = p - 1]]

(***************************************************************************)
(* collectFirstBytes and collectLengths: for each class as many references *)
(* as are in it, from the first one of the class on; they are those of the *)
(* class only where these stand together in refs.                          *)
(***************************************************************************)
Members(refs, class, c) == {i \in DOMAIN refs : class[i] = c}
Collect(refs, class) ==
  [c \in {class[i] : i \in DOMAIN refs} |->
     LET first == Min(Members(refs, class, c))
     IN  SubSeq(refs, first, first + Cardinality(Members(refs, class, c)) - 1)]
---------------------------------------------------------------------------------
(***************************************************************************)
(* Building the table, each way going on to the next when its own fails.   *)
(***************************************************************************)
\* Every attempt fills the slots of a group from its first one on.
SlotsFit(slots, bucketSize) ==
  /\ IsInjective([i \in DOMAIN slots |-> <<slots[i].group, slots[i].ctrl>>])
  /\ \A i \in DOMAIN slots :
       /\ slots[i].ctrl # 255      \* what a free slot holds
       /\ Cardinality({j \in DOMAIN slots : slots[j].group = slots[i].group}) <= bucketSize

Slot(hash) == [group |-> hash[2] % (StorageSize \div SimdBytes), ctrl |-> hash[1]]

CollectSimdFullLength(refs) ==
  LET lengths  == MaxLength(refs) - MinLength(refs) + 1
      length(a) == MinLength(refs) + a \div SeedsPerLength
      seed(a)   == Prns[a + 2]
      slots(a)  == [i \in DOMAIN refs |->
                      Slot(HashKeyCt(seed(a), refs[i].key, Min({length(a), Length(refs[i])})))]
      fit == {a \in 0..(lengths * SeedsPerLength - 1) : SlotsFit(slots(a), SimdBytes)}
  IN  IF fit = {} THEN [type |-> "unset"]
      ELSE [type |-> "simd_full_length", uniqueIndex |-> length(Min(fit)), seed |-> seed(Min(fit)),
            slots |-> slots(Min(fit))]

\* The lengths are collected from the references in declaration order.
CollectUniquePerLength(refs) ==
  LET results == Collect(refs, Lengths(refs))
      columns == [n \in DOMAIN results |-> UniqueIndex(results[n])]
  IN  IF \E n \in DOMAIN results : columns[n] = NoColumn THEN CollectSimdFullLength(refs)
      ELSE [type |-> "unique_per_length", columns |-> columns]

ByteAndLength(byte, length) == ByteXor(byte, length) % StorageSize

CollectUniqueByteAndLength(refs) ==
  LET apart == {c \in 0..(MinLength(refs) - 1) :
                  IsInjective([i \in DOMAIN refs |->
                                 ByteAndLength(At(refs[i].key, c), Length(refs[i]))])}
  IN  IF apart = {} THEN CollectUniquePerLength(refs)
      ELSE [type |-> "unique_byte_and_length", uniqueIndex |-> Min(apart)]

\* canUseFirstByteAndUniqueIndex, then the columns of the references sorted by first byte.
CollectFirstByteAndUniqueIndex(refs) ==
  IF MinLength(refs) = 0 THEN CollectUniqueByteAndLength(refs)
  ELSE LET sorted  == SortTupleRefs(refs, FirstBytes(refs))
           results == Collect(sorted, FirstBytes(sorted))
           columns == [b \in DOMAIN results |-> UniqueIndex(results[b])]
       IN  IF \E b \in DOMAIN results : columns[b] = NoColumn
           THEN CollectUniqueByteAndLength(refs)
           ELSE [type |-> "first_byte_and_unique_index", columns |-> columns]

CollectSingleByte(refs) == [type |-> "single_byte", uniqueIndex |-> UniqueIndex(refs)]

\* The condition of collectTripleElementHashMapData compares 0 & 3 with 2: it never holds.
CollectTripleElement(refs) == CollectSingleByte(refs)

\* The low bits of the two keys must be the indices of their members.
CollectDoubleElement(refs) ==
  LET fit == {c \in 0..(MinLength(refs) - 1) :
                /\ At(refs[1].key, c) # At(refs[2].key, c)
                /\ At(refs[1].key, c) % 2 = 0 /\ At(refs[2].key, c) % 2 = 1}
  IN  IF fit = {} THEN CollectSingleByte(refs)
      ELSE [type |-> "double_element", uniqueIndex |-> Min(fit)]

CollectMapConstructionData(refs) ==
  CASE Len(refs) = 0 -> [type |-> "empty"]
    [] Len(refs) = 1 -> [type |-> "single_element"]
    [] Len(refs) > 1 /\ UniqueIndex(refs) = NoColumn -> CollectFirstByteAndUniqueIndex(refs)
    [] Len(refs) = 2 /\ UniqueIndex(refs) # NoColumn -> CollectDoubleElement(refs)
    [] Len(refs) = 3 /\ UniqueIndex(refs) # NoColumn -> CollectTripleElement(refs)
    [] Len(refs) > 3 /\ UniqueIndex(refs) # NoColumn -> CollectSingleByte(refs)
---------------------------------------------------------------------------------
(***************************************************************************)
(* Searching it.                                                           *)
(***************************************************************************)
NotFound == StorageSize

\* Of the references that would go to one cell of an array, the last one stays.
LastOf(refs, found) == IF found = {} THEN NotFound ELSE refs[Max(found)].oldIndex

\* checkForEnd
Inside(distance) == distance < Len(text)

(***************************************************************************)
(* memchar of compare.hpp, for a quote in the n bytes from <from> on.  It  *)
(* halves the width as long as it can; a byte that is left alone at the    *)
(* end is answered with the place behind it.                               *)
(***************************************************************************)
Memchar(from, n) ==
  LET quotes == {i \in from..(from + n - 1) : At(text, i) = Quote}
  IN  IF quotes = {} THEN NoColumn
      ELSE IF n % 2 = 1 /\ Min(quotes) = from + n - 1 THEN from + n
      ELSE Min(quotes)

\* Bug: the quote behind the longest key is left out of the window.
BoundedQuoteScanShort(refs) ==
  LET spread    == MaxLength(refs) - MinLength(refs)
      skipped   == IF spread >= SimdBytes THEN MinLength(refs) ELSE 0
      window    == IF spread >= SimdBytes THEN spread ELSE MaxLength(refs)
      remaining == Len(text) - skipped
  IN  IF remaining <= 0 THEN NoColumn ELSE Memchar(skipped, Min({remaining, window}))

\* The length of the key in the document: its quote is sought where keys can end.
BoundedQuoteScan(refs) ==
  LET spread    == MaxLength(refs) - MinLength(refs)
      skipped   == IF spread >= SimdBytes THEN MinLength(refs) ELSE 0
      window    == (IF spread >= SimdBytes THEN spread ELSE MaxLength(refs)) + 2
      remaining == Len(text) - skipped
  IN  IF remaining <= 0 THEN NoColumn ELSE Memchar(skipped, Min({remaining, window}))

FindByColumn(refs) ==
  IF ~Inside(table.uniqueIndex) THEN NotFound
  ELSE LastOf(refs, {i \in DOMAIN refs :
                      At(refs[i].key, table.uniqueIndex) = At(text, table.uniqueIndex)})

\* buildFirstByteArrays
FindByFirstByte(refs) ==
  LET byte   == At(text, 0)
      column == IF byte \in DOMAIN table.columns THEN table.columns[byte] ELSE NoColumn
  IN  IF Inside(0) /\ column # NoColumn /\ Inside(column)
      THEN LastOf(refs, {i \in DOMAIN refs :
                   FirstByte(refs[i]) = byte /\ At(refs[i].key, column) = At(text, column)})
      ELSE NotFound

FindByByteAndLength(refs) ==
  LET length == BoundedQuoteScan(refs)
  IN  IF length = NoColumn \/ ~Inside(table.uniqueIndex) THEN NotFound
      ELSE LET hash == ByteAndLength(At(text, table.uniqueIndex), length)
           IN  LastOf(refs, {i \in DOMAIN refs :
                 ByteAndLength(At(refs[i].key, table.uniqueIndex), Length(refs[i])) = hash})

\* generateMappingsForLengths fills the array in the order of tupleReferencesByLength.
FindByLength(refs) ==
  LET length == BoundedQuoteScan(refs)
      column == IF length \in DOMAIN table.columns THEN table.columns[length] ELSE NoColumn
  IN  IF column = NoColumn \/ ~Inside(column) THEN NotFound
      ELSE LET sorted == SortTupleRefs(refs, Lengths(refs))
           IN  LastOf(sorted, {i \in DOMAIN sorted :
                 /\ Length(sorted[i]) = length /\ column < length
                 /\ At(sorted[i].key, column) = At(text, column)})

\* The first slot of the group with the control byte, by the hash of the running program.
FindByHash(refs) ==
  LET length == BoundedQuoteScan(refs)
      hashed == Min({length, table.uniqueIndex, Len(text)})
  IN  IF length = NoColumn \/ ~Inside(hashed) THEN NotFound
      ELSE LET slot    == Slot(HashKeyRt(table.seed, text, hashed))
               matches == {i \in DOMAIN refs : table.slots[i] = slot}
           IN  IF matches = {} THEN NotFound ELSE refs[Min(matches)].oldIndex

FindIndex(refs) ==
  CASE table.type = "empty"                       -> NotFound
    [] table.type = "single_element"              -> 0
    [] table.type = "double_element"              ->
         IF Inside(table.uniqueIndex) THEN At(text, table.uniqueIndex) % 2 ELSE NotFound
    [] table.type = "single_byte"                 -> FindByColumn(refs)
    [] table.type = "first_byte_and_unique_index" -> FindByFirstByte(refs)
    [] table.type = "unique_byte_and_length"      -> FindByByteAndLength(refs)
    [] table.type = "unique_per_length"           -> FindByLength(refs)
    [] table.type = "simd_full_length"            -> FindByHash(refs)

\* Bug: the closing quote is not compared.
SpelledPrefix(key) ==
  /\ Len(key) + 1 < Len(text)
  /\ SubSeq(text, 1, Len(key)) = key

\* string_literal_comparitor: the quoted key stands here, and the document goes on behind it.
Spelled(key) ==
  /\ Len(key) + 1 < Len(text)
  /\ SubSeq(text, 1, Len(key) + 1) = Append(key, Quote)

\* One round of the object's loop: the expected member, then the one that is found.
ProcessIndex ==
  LET found == FindIndex(TupleReferences)
  IN  IF Len(keys) > 0 /\ Spelled(keys[expected + 1]) THEN expected
      ELSE IF Len(keys) > 1 /\ found < Len(keys) /\ Spelled(keys[found + 1]) THEN found
      ELSE Skipped
---------------------------------------------------------------------------------
Init ==
  /\ keys \in KeyLists
  /\ table = NoTable /\ text = NoText /\ expected = 0 /\ member = Undecided

Compile ==
  /\ table = NoTable
  /\ table' = CollectMapConstructionData(TupleReferences)
  /\ UNCHANGED <<keys, text, expected, member>>

\* The parser stands at some key of some document, whatever it expects there.
MeetKey ==
  /\ table.type \notin {"none", "unset"} /\ text = NoText
  /\ \E s \in Spellings, f \in Following : text' = s \o <<Quote>> \o f
  /\ expected' \in {0} \cup 0..(Len(keys) - 1)
  /\ UNCHANGED <<keys, table, member>>

ChooseMember ==
  /\ text # NoText /\ member = Undecided
  /\ member' = ProcessIndex
  /\ UNCHANGED <<keys, table, text, expected>>

Next == Compile \/ MeetKey \/ ChooseMember
Spec == Init /\ [][Next]_vars

-----------------------------------------------------------------------------
(***************************************************************************)
(* What the search for a key must answer, whichever table the type has.    *)
(***************************************************************************)
Decided == member # Undecided

\* Members whose keys are equally long are declared one after the other.
LengthsTogether ==
  \A i, j, k \in DOMAIN keys : i < j /\ j < k /\ Len(keys[i]) = Len(keys[k]) => Len(keys[j]) = Len(keys[i])

FindsTheKey ==
  Decided => \A i \in DOMAIN keys : Spelled(keys[i]) => member = i - 1

(***************************************************************************)
(* A key of the type is found wherever it stands in the object, whatever   *)
(* member was expected there and whatever follows: its value is stored.    *)
(* Two tables are left out, KeyIsFound says why: the hashed one, and the   *)
(* one by length of a type that mixes the lengths of its keys.             *)
(***************************************************************************)
SoundTableFindsTheKey ==
  (/\ table.type # "simd_full_length"
   /\ table.type = "unique_per_length" => LengthsTogether) => FindsTheKey

\* Known_Order.md says this of every type: "always handles arbitrary orders correctly".
KeyIsFound == FindsTheKey

\* A key that is not one of the type's takes no member, however alike it is to one.
OtherKeysAreSkipped ==
  Decided /\ member # Skipped =>
    \E i \in DOMAIN keys : i - 1 = member /\ SubSeq(text, 1, Len(keys[i]) + 1) = keys[i] \o <<Quote>>
=================================================================================
