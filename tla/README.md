# Jsonifier in TLA+

Specifications of the run-time core of Jsonifier (C++ JSON library, headers
under `src/include/jsonifier-incl/`), the TLC models that check them, and proofs
for the TLA+ proof system. Paths below are relative to that directory unless
they begin with `documentation/` (that is `src/documentation/`).

The library is a set of synchronous, single-threaded walks over a document. What
makes it hard is therefore not interleaving. It is

* four specialisations of one iterator that are meant to answer alike (characters
  or a tape of structural indices, with or without skipping whitespace);
* answers that travel by two channels, a returned bool and an error list;
* two depth counters that are opened in one place and closed in many;
* state that outlives a call: the tables Known Order learns, the tape's memory
  and carries, the error list and buffer of a `jsonifier_core`, thread-local
  temporaries;
* scans that work on a register of characters at a time and must give what a scan of one
  character at a time would;
* arithmetic that must stop exactly where a number no longer fits.

## 1. Inventory

| component | source | state it keeps | operations | correct when |
|---|---|---|---|---|
| typed parser | `parsing/parser.hpp`, `parsing/parse_impl.hpp` | the C++ call stack, the object being filled, thread-local `antiHashStatesNew`, `valueTemp`, `getKeyNew` | `parseJson`; one `parse_impl` per kind of C++ type | it accepts only JSON, accepts what has the type's shape, stores each value in the member its key names, never recurses past `maxDepth`, returns |
| iterator | `utilities/json_iterator.hpp` | cursor, end, `currentObjectDepth`, `currentArrayDepth`, error list | `incrementIfEquals`, `collectSeparator`, `collectColon`, `iterateX`, `skipValue`, `skipString`, `checkIfDone`, in four specialisations | FALSE comes with an error and TRUE without, counters follow the brackets |
| Known Order | `parsing/parse_impl.hpp:135-270` | `antiHashStatesNew` per type and thread | `tryKnownOrder`, learning in `processIndex` | learning changes speed, never what is stored; it converges |
| Stage 1 | `utilities/simd.hpp`, `simd/avx_stage1.hpp`, `simd/add_tape_values.hpp` | tape memory and capacity, block index, three carry bits | `reset`, full steps, remainder, `drain`, trimming, `begin` | the tape is that of a plain scan, inside its allocation, terminated |
| validator | `parsing/validator.hpp`, `parsing/validate_impl.hpp` | iterator, depth counters | `validateJson`, one `validate_impl` per kind of value | JSON passes, what passes is JSON |
| minifier | `serializing/minifier.hpp` | shared buffer and error list, iterator one entry ahead | `minifyJson` | only whitespace goes |
| prettifier | `serializing/prettifier.hpp` | the same, indent, depth | `prettifyJson` | only whitespace comes; indent follows nesting |
| string parser | `utilities/string_utils.hpp` | carry of a pending backslash | `string_parser`, `string_serializer`, `codePointToUtf8` | escapes decode to the bytes they denote; serialise and parse are inverse |
| UTF-8 | `simd/utf8_validation.hpp` | previous block, incomplete tail | block check | same verdict as the byte grammar |
| integers | `utilities/str_to_i.hpp`, `utilities/i_to_str.hpp` | none | parse, print | inverse; out of range is refused |
| floats | `utilities/str_to_d.hpp`, `fast_float.hpp`, `zmij.hpp`, `d_to_str.hpp` | none | parse, print | inverse |
| serializer | `serializing/serializer.hpp`, `serialize_impl.hpp` | buffer, index | `serializeJson`, one `serialize_impl` per kind | what is written parses to what was serialised; buffer never overrun |
| raw JSON | `utilities/raw_json_data.hpp` | dynamic value, nested parser | construct, access, convert | errors of the nested parser reach the caller |
| key hash map | `utilities/hash_map.hpp`, `hash.hpp`, `compare.hpp` | compile-time tables | construct, find | finds exactly the registered keys |
| string buffer | `utilities/string.hpp`, `containers/allocator.hpp` | pointer, size, capacity | construction, assignment, growth, editing | it is the sequence its user wrote; memory is given back as it was taken |
| other containers | `containers/*.hpp` | fixed contents | - | - |
| `jsonifier_core` | `core/jsonifier_core.hpp`, `core/config.hpp` | string buffer, Stage 1 reader and error list shared by all of the above | one entry point per operation | a call depends on its own input only |
| reflection | `utilities/reflection.hpp`, `concepts.hpp`, ... | none (compile time) | lists a type's members | - |
| SIMD wrappers | `simd/avx.hpp`, `neon.hpp`, `fallback.hpp`, ... | none | single instructions | - |

How they interact: `jsonifier_core` owns a buffer, a Stage 1 reader and an error
list and inherits every operation. With `partialRead`, and for the validator and
the two formatters, a call first has Stage 1 scan the input into the tape; the
iterator then walks tape entries. Without it the iterator walks the characters.
The typed parser calls the iterator for every token and itself for every nested
type; the minifier, prettifier and validator have walks of their own. Everything
reports to the one error list, cleared when a call begins. There are no threads,
messages, timers or files; per-thread state is never shared.

## 2. The models

### 2.1 What a document is

In the models of the parser, validator, formatters and serializer a document is a sequence
of *lexemes* (JsonIterator): structural characters, quoted strings drawn from `Keys`, an
unclosed string, number, literal, null, a maximal run of whitespace, a maximal run of anything
else. Two lexemes touch unless `"ws"` stands between them, so `truex` is
`<<"true", "junk">>`. Literal `true` stands for `false`, too. Only input with a terminator is
modelled. What a lexeme hides has models of its own: the digits of a number are in
`NumberReaders`, the bytes of a string in `JsonText`, the bytes of a key in `KeyMap`, and the
characters from which Stage 1 makes the tape in `TapeBuilder`.

### 2.2 The walks over a document

| module | what it is | how it corresponds to the code |
|---|---|---|
| `JsonIterator` | the iterator's operations, as operators from iterator state to answer and state | `opts` chooses among the four specialisations; `Limit`, `Pos` and `Cur` hide whether the cursor is on a character or a tape entry. `it` holds the mutable members. |
| `JsonParse` | state machine of `parseJson` and the `parse_impl` specialisations | `stack` is the C++ call stack, one frame per active container parser; `ctl` the point of execution; scalars answer in one step. One action per loop turn or return point: `ObjectSlot`, `ObjectKey`, `MemberParsed` are the parts of `processIndex`, `RemainingKey` and `RemainingSkipped` those of `skipRemainingObject`, `SkipValue`, `SkipBracketed` and `SkipScalar` those of `skipValue`. `antiHash` survives from call to call. `stored` is history: path in the object and place in the text of each value. A `Use` says which documents, options and types a thread's calls have, and how many there are. |
| `JsonGrammar` | JSON's grammar, when a document has the shape of a type, and what it then stores | written from the grammar, without iterator, depth counter or tape: the yardstick of parser, validator and serializer |
| `ParseMeaning` | `JsonParse` against `JsonGrammar` | properties only |
| `JsonParse_proofs` | theorems about `JsonParse` (section 4) | |
| `VectorTemp` | how elements reach a `std::vector`: the loops over the thread-local `valueTemp`, the move or copy out of it, and what calls leave in it, with its proof | `Reuse` and `EmplaceBack` are the two loops, `Ended` and `Failed` their exits; `Copied` are the members whose move leaves the source as it was. `JsonParse` has the control of the same function and not this memory. |
| `Validator` | `validateJson`; `stack` is the recursion of `validate_impl` | uses `JsonIterator` in its structural, whitespace-skipping form |
| `LexemeTape`, `Formatter` | `minifyJson` and `prettifyJson`, one action per turn of each loop, on the tape of a document of lexemes | `before` is history of the last two calls |
| `JsonifierCore`, `JsonifierCore_proofs` | one `jsonifier_core`: formatter and validator over one error list and buffer, each called on documents and on what the other was given and wrote | composes `Formatter` and `Validator`; `errors` is the list both share |
| `CoreMeaning` | what the answers of validator and formatters, and what those write, say of a document by the grammar | properties only |
| `Serializer`, `SerializeMeaning` | `serializeJson`, with its proof; `stack` is the recursion of `serialize_impl` | a frame has the value it writes and the item it is at; `context.indent` is `indent`. Its text is read with `JsonGrammar`. |

### 2.3 Beneath the lexemes

| module | what it is | how it corresponds to the code |
|---|---|---|
| `TapeSpec` | abstract Stage 1: no blocks, masks or carries. A place is an entry according to how many backslashes and quotes stand before it, and the tape lists the entries in order | what the tape is documented to be |
| `TapeBuilder`, `TapeBuilder_proofs` | Stage 1: blocks, masks, carries, drain, trimming, reallocation | characters are five classes; a mask is the set of its bits. `Minus` is the subtraction of masks by the places that borrow; `MCTape` has TLC compare it, on all pairs of masks, with subtraction modulo `2^Width`. Refines `TapeSpec`. |
| `ParserTape` | the tape that `JsonParse`, `Validator` and `Formatter` assume is the one `TapeBuilder` makes | |
| `DecimalText`, `IntParser`, `UintParser`, `FloatParser`, `IntPrinter` | `integer_parser` of either sign, `parseFloat` up to the conversion to binary, `to_chars` | functions, as in the code; `Width` is the width of the integers, `CountWidth` that of the digit counts, `ExpCap` where an exponent is no longer added up, `GroupSize` the digits of one table |
| `NumberReaders` | one call of a reader or of the printer, and what it should answer from decimal arithmetic on digits | an action per function called |
| `Utf8Check` | the error classes of the vectorised UTF-8 check, the tables byte by byte, and well-formedness from the ranges of Unicode's Table 3-7 | |
| `StringParser` | `string_parser`: the registers of each width, the loop over bytes, escapes and surrogates | one action per turn of a loop; `out` is the buffer, `stored` how far whole registers were written into it |
| `StringSerializer` | `string_serializer` with its escape table | |
| `JsonText`, `JsonText_proofs` | `validateUtf8` on a whole buffer: steps of `StepBytes` and a tail, with what is carried; the parse of a string; what is serialised then parsed; the strings of RFC 8259 | composes the three above |
| `KeyMap`, `KeyMap_proofs` | the hash on 64 bits; the choice of a table for a type's keys and the search of a key in each; the choice of a member by an object's loop | `Compile` is what the compiler does, `MeetKey` any key at any point of an object, `ChooseMember` the round of the loop |
| `StringSpec` | abstract string: a sequence of characters and the operations on it | what a user of `jsonifier::string` expects |
| `StringCells`, `HeapString`, `InlineString`, `Strings`, `Strings_proofs` | `string_base` on the heap and inline, cell by cell, with what is allocated and freed | one action per group of operations; refines `StringSpec` |
| `MC...` | instances for TLC | |

`JsonParse` is deterministic but for the arguments of a call and one thing: a vector that runs
into the end of its input fails with one of two codes depending on how many elements an earlier
call left in `valueTemp`, which is `VectorTemp`'s.

## 3. What the runs check

The passing runs, each with what it puts together and why that is enough:

**parse** (`MCParse`). Twenty types and five uses of a thread. *Objects*: a flat type, one with an
excluded key, one with a skipped member, a map, on four seed documents. *Arrays and tuples*,
variants and vectors of variants on three. *Scalars* at the root. A *recursive type* with
`MaxDepth` 3 on documents of depth 2 to 5. *Known Order*: a type of three members, three documents
in a row, keys permuted, missing or unknown. Every use takes its seeds with every single
deletion, truncation, replacement and insertion, but Known Order its own list, which is of well-formed documents only: that the
minified Known Order path, which folds the comma into the literal it compares, refuses a comma too many or too few is not checked.

* `AcceptedIsJson`: an accepted document is JSON, although colons, commas and brackets are
  collected in a dozen places. It exempts documents from which a value was skipped (`skipValue`
  counts brackets without matching them), variants (`[1,]` is accepted into a vector of variants),
  and what touches a literal on the tape (`[truex]` is accepted with `partialRead`, refused without).
* `ConformingIsAccepted`: what has the shape of the type, no deeper than `maxDepth`, is accepted, in every
  mode. It exempts a number or bool that is the whole document and has whitespace around it: that is refused.
* `StoresWhatItMeans`: each member holds the value of its key, wherever the key came and
  whatever was learned before, and nothing else is stored.
* `DepthCounts`: until an error, the counters are the active object and array parsers.
* `NestingBounded`: no document recurses past `maxDepth` (with `ConformingIsAccepted` it pins `checkCurrentDepth`).
* `ErrorsAgree`: a nested parser answers FALSE exactly when an error is on the list, which an object's
  `rootImpl` relies on; `TypeOK`: among others, the unsigned counters are never decremented below zero.
* `TableConverges`: a document parsed again right after itself never reaches the hash map.
* `Terminates`: every call returns.

One call depends on an earlier one only through `antiHash`, so one call is enough but for Known
Order, where three let a table be learned from one shape, used on a second and met again. An
edit of a seed reaches every error exit at every nesting level the seeds have. Depth 3 has an object
in an array in an object, so both counters matter at the limit.

**core** (`MCCore`). Formatting: all texts of up to three lexemes, and objects and arrays two
deep with whitespace at any one place; two calls in a row, the second also on what the first
wrote. Validating: documents of every kind and what one or two edits make of them, what a formatting
call wrote, and then what it was given. `MinifyKeepsTokens` (objects and arrays lose their
whitespace, nothing else), `RoundTrip` (minify undoes prettify), `AnswerMatchesErrors` (the shared list speaks
of the last call only), `WellFormedPasses` (JSON passes, except that a root number never does),
`AcceptedHasShape` (what passes is JSON up to the inside of its scalars),
`FormattingKeepsValidity` (what a formatter was given and is valid still is once formatted). The calls share
an iterator, a buffer and an error list, all reset by each of them; two calls show what a missing
reset would do. Junk and a scalar that is cut are not handed on to the validator.

**tape** (`MCTape`). `IsScan`, the refinement of `TapeSpec`: blocks, steps and what the document
before left behind tear nothing. `TapeFits`: every write, including those past the
last entry, is inside the allocation (assuming what the reserve in `simd.hpp:129` does: no more than 8 of 10
characters are entries). `Terminated`: the entry after the last is the
length, no entry before it is. `ParserTapeOk`: the tape is the one the lexeme models
assume. Masks are 4 bits, two blocks a step, two entries a write, 4 entries slack; a
three-character window moves through every place of an eleven-character text, so
it meets each edge of block, step and remainder; a second document follows. Everything crosses an edge
through the three carries only, and the window is long enough to set all three on either side of one.

**numbers** (`MCNumbers`). Integers of ten bits; texts that combine every sign, whole part, fraction
and exponent at the limits of those; the printer on every signed value and around every power of
ten. `IntegersExact`: an integer is read exactly if it fits and is refused if it does not.
`DecimalsTruncate`: an exponent applies before the fraction is cut off (only where digits and
exponent stay within the tables). `OnlyNumbers`: what is read is a number, or an integer with its
point; a float is read exactly if it is a number that is not rounded to infinity, which the code refuses
(`str_to_d.hpp:225`). The least number that is, `InfiniteFrom`, is 102400 here, 2^1024 - 2^970 for a double: the run has texts on
both sides of it, with and without exponent and fraction. `FloatDigits`: mantissa and exponent are those of the first significant digits, leading zeros not counted.
`PrintsBack`: print and parse are inverse. The width is a parameter: the tables of
limits are computed from it as the code's literals are from 64, and three and four digits are enough for a last
digit, the one before it and the one too many to be different things.

**text** (`MCJsonText`). Strings with up to three tokens (a letter, a raw control character, good
and bad escapes, surrogates, escapes with stray digits in each of the four places, characters of two to four bytes, cut ones) at different places of
registers of five and three bytes; the limits of Table 3-7 in two steps and a tail; strings
to serialise with every kind of escape. `Decodes`: what is
accepted ends at its closing quote, has only the escapes of RFC 8259, is decoded to what its characters mean, and has no
control characters but those the code lets through (each with a quote or backslash within a register's
width behind it); it exempts strings that stop at a *stray* escape (section 5). `RefusesOnlyBad`: what is refused is no string, has
a control character or bad UTF-8. `ValidatesUtf8`: with validation what is accepted is UTF-8 besides its escapes, with the same exemption as `Decodes`. `BufferFits`:
whole registers are stored, never past the buffer. `EveryTurnAdvances`: no loop turns without consuming.
`ExactlyUtf8`: the vectorised check gives the verdict of the byte ranges. `StringsReadBack`: what is serialised parses to what it was.

**serialize** (`MCSerialize`). Values of every kind, three deep where the indent table has two
levels, every subset of members excluded. `MeansTheValue`: the text is JSON, says what the value is and has the
shape that the parser of the type accepts (`ConformingIsAccepted`).
`IndentFollowsNesting`: every line is indented by the brackets around it. `IndentCounts`: while a
value is written, the indent is that of the open containers. The first two exempt what `serialize_json` shows.

**keys** (`MCKeys`). Every list of up to three keys over two letters, and longer lists that come to
each kind of table; every key, alike or not, with something behind it or not.
`SoundTableFindsTheKey`: a key of the type is found. It exempts the two tables `keys_found` is about.
`OtherKeysAreSkipped`: no other key takes a member. `SeedsPerLength` bounds the seeds tried.

**strings** (`MCStrings`). One object through every sequence of operations, up to four characters.
An alignment of 2 cells, huge pages of 4 and a threshold of 8 stand for 32 bytes, 2 MiB and 4 MiB.
`Implements`: it is the sequence `StringSpec` says. `Fits`: characters and terminator stay inside its
cells. `FreedAsAllocated`: what was allocated is given back as it was. `TerminatorFollows`: what
changes the length leaves a NUL behind the last character.

Four runs refute a sentence of the documentation; each counterexample is short.

| run | property | shows |
|---|---|---|
| `pretty_padded` | `NothingDropped` | the prettifier, given input with whitespace, stops at the first space that is an entry and answers TRUE |
| `serialize_json` | `ProducesJson` | an object whose last member is excluded ends in a comma; a prettified tuple begins with two brackets |
| `keys_found` | `KeyIsFound` | a type whose keys of mixed lengths are declared out of order gets a table in which one of its keys is never found |
| `vectors_fresh` | `MissingIsUntouched` | a member that an element of an array leaves out gets what an earlier document, a rejected one included, had there: `[{"a":1,"b":2},x]` is rejected, then `[{"a":3},{}]` gives the first element 3 and 2 |

**Specifications.** `core` and `pretty_padded` use `CoreSpec`, `text` uses `JsonTextSpec`, the others `Spec`.
`CHECK_DEADLOCK FALSE` is set where a session is cut after a bounded number of calls and then stops
(`parse`, `core`, `tape`, `numbers`, `serialize`, `keys`); in the others there is always a next step.

**Fairness.** Only `JsonParse` states one, `WF_vars(Parsing)`: once `parseJson` has been entered its
thread runs until it returns; nothing blocks. A call is never forced to begin. That the
loops of the string parser end is a safety property (`EveryTurnAdvances`).

**Assumptions**, evaluated by TLC and used by the proofs. About the instance: `UsesAssumption`,
`TypesAssumption`, `DepthAssumption`, `LexemesAssumption` and `DocumentsAssumption` (what a core
is given is made of the lexemes of 2.1, its tape the one of `LexemeTape`), `KeysAssumption` (keys are no structural lexemes, and, in `KeyMap`,
below 128, different, shorter than 255 bytes and written without an escape), `ArgumentsAssumption`, `IndentAssumption`,
`TextsAssumption` (documents are sequences of bytes, or of the classes of `TapeBuilder`), `SizesAssumption` (in `TapeBuilder` a mask has at most 64 bits, and the reserve beyond
8 of 10 characters, 64, is more than the entries of one write, at most 8), `WidthAssumption`, `WidthsAssumption` (no register
is narrower than 3 bytes, and there is at least one), `StepsAssumption`, `ValuesAssumption`, `KnownAssumption` (`Utf8Of` gives the known encodings
of ten code points), `BeforeAssumption` (what lies before the digit tables is any word; all that are no code point are one), `OrAddsAssumption` (for the words the instance meets, or-ing those of four
digits is adding them, as `hexToU32NoCheck` has it), `CellsAssumption`, `BuffersAssumption`, `AllocatorAssumption` (the threshold is whole huge
pages). A caller who sets `minified` keeps his promise that the document has no whitespace.

**Bounds**, all named: `calls` of a `Use` and `MaxCalls` (calls in a session), `MaxElements`
(`VectorTemp`), `MaxLength` (`Strings`), `SeedsPerLength` (`KeyMap`), `Huge` (`NumberReaders`: where exact
arithmetic stops, above every limit, `InfiniteFrom` included); the sets of documents, texts and values of the MC modules.

## 4. What is proved

`JsonParse_proofs`, for every set of uses, keys, types and every `maxDepth`:

| theorem | |
|---|---|
| `TypeCorrect` | `Spec => []TypeOK` |
| `ErrorsAgreeAlways` | `Spec => []ErrorsAgree` |
| `DepthCountsAlways` | `Spec => []DepthCounts` |
| `NestingBoundedAlways` | `Spec => []NestingBounded` |

All four follow from `Invariant == Spec => []IInv`. None is inductive alone. That the
counters never go below zero needs that the parser that closes a level is on the
stack and was counted; that needs the counters to be the number of frames of each kind
(`Counted`); that holds only while no error is recorded, so it needs to know when
an error is recorded (`ErrorsAgree`), which a parser learns from the answer of the
nested one. `FramesOk` says a frame's slot is one of its type's members where the code
indexes with it, `KeyOk` and `IdleOk` where a map's key is parsed and when
the stack is empty, `SkipOk` that `skipValue`'s local count is zero only
in front of its first bracket (it is unsigned, too).

The argument has three layers. Lemmas on iterator operations: each leaves the iterator
*sound* (in range, no error) at the same level or one up or down, or *broken*
(an error recorded), and its answer says which. `OutcomeKeeps`: a step whose
effect on stack and iterator is one of four `Moves` (stay, break, push, pop) and
that then goes on, calls or answers accordingly keeps `IInv`. One lemma per action: its step has such an outcome.

`JsonifierCore_proofs`, for all documents, keys, numbers of calls, indent sizes and depths: `AnswerMatchesErrorsAlways`,
`CoreSpec => []AnswerMatchesErrors`, and `ValidatorNests`: the validator never recurses past `maxDepth`, while it walks its two
counters are the objects and arrays in progress, and both are zero when it answers TRUE. `AnswerMatchesErrors` alone says nothing of a call
that is not over. `CoreInv` adds that nothing is on the list while a call runs (`Answers` for a formatter, `Quiet` for the validator), that
the iterator is in range and of the one kind the validator uses, and that the brackets in progress are what was counted: without that, the
answer TRUE would not follow from an empty stack, since `validateJson` also looks at the counters. `validations` tells whose errors the list has.

The same module proves what the calls do to a document, by the grammar: `MinifyKeepsTokensAlways`, `RoundTripAlways`, `WellFormedPassesAlways`,
`AcceptedHasShapeAlways`, each `CoreSpec => []P`. The grammar is a recursive function over the places of a text (`Ends`); that it exists and unfolds
rests on the values after a place not depending on those before (`FollowSame`). Well-formed documents are reached by a set that is closed under
the grammar's rules (`ClosedIn`): so a well-formed document has no junk, no two scalars that touch, and never more brackets closed than open.
For the formatters, `FInv` says what has been written when a call is at an entry: the document's tokens before it, without whitespace (`Minified`), or with some (`Written`), and
of the indent that it has one step for each open bracket or more (`Indented`), so that the prettifier does not give up. For the validator, `SInv` says of
the stack and the place that what is *left* of the document is as it should be: after an item in each of the open containers comes what the grammar
has there (`AfterAll`). A step of the walk goes on only to what is left when the step before it was (`Stepped`), in both directions if the document is
JSON and no deeper than `maxDepth`, where `ValidatorNests` has the counters be the nesting. At the start what is left is the document; at the end it is the answer.

`Serializer`, for every type, value and indent size: `IndentCountsAlways`,
`Spec => []IndentCounts`. What serializeJson subtracts from its unsigned indent it has added before, whichever way a container is left.
The invariant adds only that the stack is a sequence.

`VectorTemp`, for all members, values and numbers of elements: `VectorHasTheArray`,
`Spec => [](HasTheArray /\ MoveFits)`. However long `valueTemp` is and whatever earlier calls left in it,
an accepted array's elements have the members the array gave, and moving all of
`valueTemp` out stays within the vector. It needs `Filled`: while an array is read, `valueTemp` is as long
as the larger of what was read and what it was, and its first `newSize` elements have what the array gave.
What the array does *not* give is the subject of `vectors_fresh`.

`TapeBuilder_proofs`, for every mask width up to 64 bits, blocks per step, entries per write, reserve and list of documents:
`TapeFitsAlways`, `Spec => []TapeFits`; `TerminatedAlways`, `Spec => []Terminated`; and `IsScanAlways`, `Spec => IsScan`,
the refinement of `TapeSpec`. A block writes its entries in whole
groups, so `reach`, how far anything was stored, is what matters and not the count: the invariant has `reach <= tapeCount + TapeStep + 1`,
the slack the allocation must have (`SizesAssumption`), and that a capacity once grown stays enough for the document being
scanned, whichever came before. For `Terminated` it has that the entries rise (`Rising`). The last step is padded with what gives no entry
unless a string is open or an operand runs on, so that at most one entry is behind the document's end, and trimming drops it.

`IsScanAlways` has an invariant of its own, `ScanInv`: in terms of three sets of places (where the character is escaped, where a
string is open, where an operand runs on) which the text determines one character after the other (`Reading`), each carry says whether the next place is
in its set, and the tape has the entries before it. A step preserves it because the borrows of the
subtraction are the runs of backslashes that end at an odd place (`MinusIs`, `EscapedIs`), the six shifts of the prefix xor are the
parity of the quotes (`SpreadIs` doubles the reach of each bit, six times for 64 bits: the only place that needs
the width's limit), a block then reads as its characters do (`BlockReads`, `BlocksFind`), a lane lists every bit of its block (`LeftTakesAll`, `LanedValues`) and trimming drops
none before the end (`TrimmedValues`). That the sets are those of `TapeSpec` (`SpecReads`) is a statement about counting backslashes and quotes.
Boolean-valued recursive functions and `^` are beyond the provers, so `TapeSpec` counts where it might recurse and `Minus` is not written with powers of two.

`KeyMap_proofs`, for all lists of keys, documents and register widths: `SoundTableFindsTheKeyAlways` and
`OtherKeysAreSkippedAlways`. The invariant is short (the state is typed, and both properties); what is long is why the choice of a member
preserves it, because it is about the tables. `TableIs` says what tells the keys apart in a table of each type: a column in
which all differ, the lowest bit of one, the first byte with a column for each, a byte with the length, the length with a column for each. For
each there is a lemma that the search comes to the key that stands there (`FoundBy...`). They rest on three facts:
sorting the references is a permutation that leaves the members of a class next to one another (`SortedIs`, `SortedTogether`), so that
the group collected from it is the whole class (`CollectIs`); the column that is chosen for a group tells its keys apart (`CollectApart`); and the scan for
the quote, in windows of a register and then an odd one, finds it at the key's length (`ScanIs`). The group is the class only if the
classes stand together, which the grouping by length takes from the order of declaration: that is the exemption `LengthsTogether`,
and `keys_found` shows it is needed. For `OtherKeysAreSkipped` it is enough that the search gives a number, even with the hashed table.

`JsonText_proofs`, for all texts, documents, strings to write, register widths and steps: every property the run checks, under `JsonTextSpec`.
That specification is the parser on a document that was there, on one the serializer wrote, and the check of a whole buffer.

| theorem | |
|---|---|
| `BufferFitsAlways`, `EveryTurnAdvancesAlways` | `JsonTextSpec => []BufferFits`, `JsonTextSpec => EveryTurnAdvances` |
| `ExactlyUtf8Always` | `JsonTextSpec => []ExactlyUtf8` |
| `DecodesAlways`, `RefusesOnlyBadAlways`, `ValidatesUtf8Always` | `JsonTextSpec => []Decodes`, `... []RefusesOnlyBad`, `... []ValidatesUtf8` |
| `StringsReadBackAlways` | `JsonTextSpec => []StringsReadBack` |

*The buffer.* The invariant `InDocument` says that the source is inside the document and the
output is not ahead of it, so that a whole register stored at the output's end stays within a buffer of the document's length. It is kept because no
escape gives more bytes than it takes (`EscapeAtTakes`: 2 for 1, 6 for at most 4, 12 for at most 4), because
`\u` looks no further than the end, and because a zero behind the document is no character the loops would step over. That a document the
serializer wrote consists of bytes is `WriterInv`.

*UTF-8.* The vectorised check takes the error class of a byte from three tables that are indexed by halves of bytes, and from the bytes two and three before.
`TablesAre`, `SpecialIs` and `RightIs` say what these come to, `Expects` what a reader of Table 3-7 asks for after any three bytes, and `ExpectsNext` that
the fourth changes that as the table says. The invariant (`Checks`, `CheckerInv`) is that, without an error, the reader is where
the last bytes the checker carries put him; the shortcut for a step of ASCII leaves him there (`AsciiIs`), and an 'A' behind the end closes nothing
that is open (`PaddingReads`).

*Decoding.* What is proved of an accepted text is `Decodes` as it stands, with both of its reservations: it says nothing of a text that
cannot be read past a stray escape, whatever the table gives for it, and it allows a control character where a quote or backslash is near. What a text means is defined from its end backwards, so that it exists and unfolds is a lemma (`MeaningExists`, `FromIs`);
an escape the code takes is the character the grammar has there, and one it refuses is none (`EscapeIsChar`, over the digits and both surrogates). `Sound` then says for every
place in either loop: what the text means is what is in the buffer followed by what the rest means (`Continues`), so that accepting and refusing only need what happens
at one place; and that each control character consumed so far has such a mark near (`Marked`), since a register
without one is searched for them, as is the tail. `ParseInv` is that `Sound` holds or the text has a stray escape, which is said of the text alone: a
step from a sound state either is sound or took a stray escape (`SoundStep`). For the UTF-8 check (`Anchored`) it relates the checker to two readers of Table 3-7. One reads the source with its escapes, and the checker reports nothing that he
does not (`Trusts`): for what is refused. One reads what is not an escape, and the checker has found an error or stands where he does, as far as whole registers went (`Sees`): for
what is accepted. They part where a register ends inside a character and an escape begins. There the code misses an error, and so
`ValidatesUtf8` speaks of the bytes between the escapes.

*Reading back.* `Encodes` is the least relation between a string and its text that is closed under "one byte more", so what the serializer has written encodes what it has read
(`WritesInv`, with registers of any width and the escapes of its table), and every text so related means the string (`Says`, `SaysByte`), by one character at a
time (`EncodedChar`). A whole document means it, too, if the closing quote follows, whatever comes then; `BackInv` keeps that the document is one, and `Decodes` and `RefusesOnlyBad` do the rest (`BackReads`).

`Strings_proofs`, for all texts, sizes, capacities, `MaxSize`, `BufferSize` and template arguments:

| theorem | |
|---|---|
| `FitsAlways` | `Spec => [](Fits /\ TypeOK)` |
| `FreedAlways` | `Spec => []FreedAsAllocated` |
| `TerminatorAlways` | `Spec => TerminatorFollows` |
| `ImplementsStringSpec` | `Spec => Implements` |

A string's characters and its terminator lie in the cells it owns, whatever was reserved,
resized, moved out or received before, in either kind. The invariant adds to `Fits` that each cell holds a character, NUL
or nothing. One lemma per operation rests on two facts: `reserve` returns at least the capacity it is asked for
(`HeapReserve`), and each operation that grows an object asks for what it writes (`HeapGrown`, `HeapRoom`), or, inline, leaves a cell
free. `WrittenCells` is about the model: a write is never what makes the cells more, so a length beyond the
capacity would be what is wrong, and that is what `Fits` excludes. `FreedAsAllocated` needs the
divisibility of the allocator's sizes (`AllocatorAssumption`): two roundings give the same number of pages only then.
`ImplementsStringSpec` is the refinement, step by step: the initial object maps to the empty text, and each action of each kind to
the operation of `StringSpec` of that name with the same arguments. What the cells hold after a write is determined cell by cell
(`BetweenCells`, `WrittenApart`), and `Content` of it is the sequence the abstract operation names.

Three modules need the least number of a set, or induction over the naturals. The library's theorems of induction take an operator, so
`LeastNat` is derived from the well-foundedness of the strict subsets of finite sets, and induction is over the set of the numbers for which a statement holds.

Only model-checked: what compares the typed parser and the serializer with the grammar (`AcceptedIsJson`, `ConformingIsAccepted`, `StoresWhatItMeans`,
`MeansTheValue`, the last by operators that are recursive over documents); what compares two whole walks (`FormattingKeepsValidity`, `IndentFollowsNesting`,
`ParserTapeOk`); what is computed from digits (`numbers`); Known Order's convergence; termination,
which is liveness.

## 5. What is left out, and what the models found in the code

### Left out

* `raw_json` (`raw_json_data.hpp`): a value parsed by the parsers above. What is its own is lifetime: a number keeps a
  view of a string that is local to the parser (`:36`), and accessors of the wrong type throw inside `noexcept` functions.
* Vectors that contain vectors of their own type (`struct node { vector<node> }`): both use one `valueTemp`
  and references into it are held while it grows. `JsonParse` has the recursion, not that memory.
* `char` and `enum` types. Positions and texts of errors (an error is its code; `error.hpp:213-233` computes line
  and column from at most 16 characters behind the error, not those before it). Input without a terminator.
* Conversion of floats to and from binary (`fast_float.hpp`, `zmij.hpp`, `d_to_str.hpp`: vendored arithmetic beyond a model checker), SIMD wrappers, reflection, and
  containers whose contents do not change.
* Stage 1: the AVX-512 drain, which writes nothing for an empty lane where the others write a whole
  group; inputs denser than the reserve assumes.
* Formatters: buffer sizes, the vector `state` that is written and never read, the indent character. A run
  of junk begins with no character that begins a value.
* Serializer: growth of its buffer and the text of scalars.
* Keys of 255 bytes and more, with escapes or outside ASCII; more than 64 keys that begin alike.
* The string values of 16 bytes or less that the iterator reads inline; lifetimes and iterators of a string.
* A parser and serializer in `JsonifierCore`; copying a `jsonifier_core`, which copies the error list alone.

### What the models have because the code has it

Behaviour that a reader may not expect. It is in the models as it is in the code, and where a property
would fail for it the property says that it is exempt.

* Validator: an unclosed string and what touches a literal pass; a root number does not; FALSE comes without an error in some places (`[1,]`).
* Minifier: the last entry is written as one character, right for a bracket, not for a scalar that is the whole document.
  Prettifier: it reads its input as if it were minified; an empty object adds an indent that nothing takes back.
* Integers: `1.` is one; a fraction is added after the limit was tested and may overflow (undefined for signed types); with
  19 or more digits and exponent together the tables are indexed past their end; an integer narrower than 64 bits takes the low bits of what was read.
* Strings: a raw control character is accepted if a quote or backslash follows in its register, for only registers without one are searched
  (`string_utils.hpp:442-450`), and refused elsewhere. `UTF8_Validation.md:59` and `Errors.md:101` say such characters are rejected, and the tests `fail25` and
  `fail27` (`conformance.hpp:100`, `:104`) expect `invalid_string_characters`: that holds only of a string longer than a register, or at the document's end.
* Escapes: the four tables of digits stand one behind the other and are indexed with a signed `char` (`string_utils.hpp:105-108`). In the first
  three places the bytes 143 to 148 read the digits a to f of the next table and so pass as digits; in the fourth place bytes from 128 on
  read what lies before the tables, which is the build's choice (`Before`, any word for any byte). An escape with such bytes is *stray*: what is
  accepted for it, the properties leave open. A build whose `char` is unsigned refuses these bytes, and the properties hold there without exemption.
* Floats: a number that is rounded to infinity is refused like a text that is none (`str_to_d.hpp:225`). That the conversion decides this
  exactly, `2^1024 - 2^970` and above, is taken from IEEE rounding, as the conversion itself is not modelled.
* Strings: a UTF-8 character that is cut where a register ends and an escape begins passes the
  check; `\a`, `\v` and NUL are serialised as no parser reads them; a `string_view` that serialising answers is of the shared buffer.
* `parseJson` with `partialRead` sizes its string buffer from the byte at the end of the input (`parser.hpp:109`).
* Keys: a quote in the last byte of an odd window is answered one place late, harmlessly; the table for three keys is never chosen; the seed of a hashed table
  is found with one function and used with another (`hash.hpp:115`, `:146`).
* `jsonifier::string`: a new one holds 17 NULs (its template argument); `insert` of one character and `resize(0)` leave no terminator;
  a moved-from one has no cells, and `erase` then works on nothing; `at` throws inside `noexcept`; move assignment copies;
  the constructor from an array of characters (`string.hpp:113-118`) writes before it allocates and is left out; a capacity of exactly the huge-page threshold less the alignment is freed the other way than it was
  allocated, and one of whole huge pages is unmapped one page short.

## 6. Plan

Modelled, in this order: iterator and parser, Known Order, their proofs; Stage 1; formatters and
validator; strings and UTF-8; numbers; serializer and its proof; keys; the string buffer; `jsonifier_core`;
`valueTemp` and its proof; the proofs of the string buffer, Stage 1's memory, keys, the text of strings, and `jsonifier_core` against the grammar. Next:

1. `JsonifierCore` with parser and serializer, and their round trip: parse what was serialised, serialise what was parsed.
2. Nested use of one `valueTemp`, with the references that its growth invalidates as a state of their own.
3. `RawJson` with its accessors; the AVX-512 drain as a variant of `TapeBuilder`.
4. A property of its own for `skipValue`: what it takes where a value is missing or mismatched.

Theorems to come: `FormattingKeepsValidity`, which needs the shape of documents the validator accepts and the grammar does not; the
limits of `IntParser`.

## 7. Running

    tlc -workers 2 -config parse.cfg MCParse
    tlc -workers 2 -config core.cfg MCCore                   (and pretty_padded.cfg)
    tlc -workers 2 -config tape.cfg MCTape
    tlc -workers 2 -config numbers.cfg MCNumbers
    tlc -workers 2 -config text.cfg MCJsonText
    tlc -workers 2 -config serialize.cfg MCSerialize         (and serialize_json.cfg)
    tlc -workers 2 -config keys.cfg MCKeys                   (and keys_found.cfg)
    tlc -workers 2 -config strings.cfg MCStrings
    tlc -workers 2 -config vectors_fresh.cfg VectorTemp
    tlapm JsonParse_proofs.tla
    tlapm JsonifierCore_proofs.tla          (some ten minutes)
    tlapm Serializer.tla
    tlapm VectorTemp.tla
    tlapm TapeBuilder_proofs.tla
    tlapm JsonText_proofs.tla               (some ten minutes)
    tlapm KeyMap_proofs.tla
    tlapm Strings_proofs.tla

`PROJECT.json` names, for each definition, the lines of code it stands for, and for each property a
variant of a definition (a comment in its module says what is wrong with it) under which the
property fails.
