----------------------------- MODULE JsonIterator -----------------------------
(***************************************************************************)
(* The cursor every typed parser drives: json_iterator of                  *)
(* include/jsonifier-incl/utilities/json_iterator.hpp.  The header has     *)
(* four specialisations of one interface, chosen by the parse options:     *)
(*                                                                         *)
(*   direct      partialRead = FALSE   walks the characters of the input   *)
(*   structural  partialRead = TRUE    walks the tape Stage 1 recorded     *)
(*                                                                         *)
(* each with and without whitespace skipping (minified).  The operators    *)
(* below are the four at once: opts tells them apart.                      *)
(*                                                                         *)
(* A document is a sequence of lexemes.  A lexeme is a member of a small   *)
(* set: the six structural characters, a quoted string ("a", "b", ... of   *)
(* Keys), a string that is never closed ("open"), a number, the literal    *)
(* true (it stands for false too), null, a maximal run of whitespace       *)
(* ("ws") and a maximal run of other characters ("junk").  Two lexemes     *)
(* with no "ws" between them touch, so <<"true", "junk">> is truex.  The   *)
(* terminator the code reads one past the end is the lexeme "end".         *)
(***************************************************************************)
EXTENDS Integers, Sequences, FiniteSets

CONSTANTS
  Keys,       \* the quoted strings a document may contain
  MaxDepth    \* parse_options::maxDepth

VARIABLES
  doc,        \* [text |-> lexemes, tape |-> positions of tape entries]
  opts,       \* [partialRead, minified, knownOrder |-> BOOLEAN]
  it          \* [iter, obj, arr, errors]: the iterator's mutable members

Marks == {"{", "}", "[", "]", ":", ",", "open", "num", "true", "null", "ws", "junk"}
Lexemes == Keys \cup Marks

ASSUME KeysAssumption == Keys \cap Marks = {} /\ "end" \notin Keys

ParseStatuses ==
  {"missing_key_start", "missing_object_start", "missing_array_start",
   "invalid_string_characters", "missing_colon", "missing_comma",
   "invalid_number_value", "invalid_null_value", "invalid_bool_value",
   "no_input", "unfinished_input", "unexpected_string_end",
   "unexpected_end_of_input", "exceeded_max_depth", "unexpected_token"}

Structural == opts.partialRead

\* The positions Stage 1 records: structural characters, opening quotes and the
\* first character of each run of other characters that are not whitespace.
IsEntry(text, p) ==
  /\ text[p] # "ws"
  /\ text[p] \in {"num", "true", "null", "junk"} =>
       p = 1 \/ text[p - 1] \notin {"num", "true", "null", "junk"}

(***************************************************************************)
(* Reading.                                                                *)
(***************************************************************************)
Lex(p) == IF p \in 1..Len(doc.text) THEN doc.text[p] ELSE "end"

\* Number of positions of the iterator; the one after the last is endIter.
Limit == IF Structural THEN Len(doc.tape) ELSE Len(doc.text)

NotAtEndPre(s) == s.iter <= Limit

\* currentPtr: where in the text the iterator stands (endIter is the end).
Pos(s) == IF ~Structural THEN s.iter
          ELSE IF s.iter \in 1..Len(doc.tape) THEN doc.tape[s.iter]
          ELSE Len(doc.text) + 1

Cur(s) == Lex(Pos(s))

(***************************************************************************)
(* Moving and failing.  An operation that the code writes as a bool        *)
(* function with side effects is an operator that returns the bool and     *)
(* the iterator it leaves behind.                                          *)
(***************************************************************************)
Pass(s) == [ok |-> TRUE,  s |-> s]
Fail(s) == [ok |-> FALSE, s |-> s]

Advance(s) == [s EXCEPT !.iter = @ + 1]

Reject(s, status) == [s EXCEPT !.errors = Append(@, status)]

SkipWhitespace(s) ==
  IF ~Structural /\ ~opts.minified /\ Cur(s) = "ws" THEN Advance(s) ELSE s

\* Bugs: the budget of objects only; one level too few.
DepthOkObjects(s) == s.obj < MaxDepth
DepthOkShort(s)   == s.obj + s.arr + 1 < MaxDepth

\* checkCurrentDepth.
DepthOk(s) == s.obj + s.arr < MaxDepth

\* Bug: an object's opening bracket is not counted.
NestUncounted(s, c) ==
  CASE c = "[" -> [s EXCEPT !.arr = @ + 1]
    [] c = "}" -> [s EXCEPT !.obj = @ - 1]
    [] c = "]" -> [s EXCEPT !.arr = @ - 1]
    [] OTHER   -> s

\* ++ of the depth counter a bracket opens, -- of the one it closes.
Nest(s, c) ==
  CASE c = "{" -> [s EXCEPT !.obj = @ + 1]
    [] c = "[" -> [s EXCEPT !.arr = @ + 1]
    [] c = "}" -> [s EXCEPT !.obj = @ - 1]
    [] c = "]" -> [s EXCEPT !.arr = @ - 1]
    [] OTHER   -> s

\* incrementIfEquals<c>, with the checkChar and checkCharUnsafe it calls: an
\* opening bracket is tried only while the depth budget lasts.
IncrementIfEquals(c, s0) ==
  LET s == SkipWhitespace(s0) IN
    IF c \in {"{", "["} /\ ~DepthOk(s) THEN Fail(Reject(s, "exceeded_max_depth"))
    ELSE IF Cur(s) = c THEN Pass(Advance(Nest(s, c)))
    ELSE Fail(s)

Expect(c, status, s0) ==
  LET r == IncrementIfEquals(c, s0) IN
    IF r.ok THEN r ELSE Fail(Reject(r.s, status))

ObjectStart(s)   == Expect("{", "missing_object_start", s)
ArrayStart(s)    == Expect("[", "missing_array_start", s)
\* Bug: the colon is optional.
CollectColonAny(s) == Pass(IncrementIfEquals(":", s).s)

CollectColon(s)  == Expect(":", "missing_colon", s)
CollectComma(s)  == Expect(",", "missing_comma", s)
ObjectMaybeEnd(s) == IncrementIfEquals("}", s)
ArrayMaybeEnd(s)  == IncrementIfEquals("]", s)

\* Bugs: the closed level is not counted back; the whitespace after a comma is
\* left for the caller.
CollectSeparatorLeaky(close, s0) ==
  LET s == SkipWhitespace(s0) IN
    IF Cur(s) = "," THEN [sep |-> "cont", s |-> SkipWhitespace(Advance(s))]
    ELSE IF Cur(s) = close THEN [sep |-> "ended", s |-> Advance(s)]
    ELSE [sep |-> "error", s |-> Reject(s, "missing_comma")]
CollectSeparatorAtSpace(close, s0) ==
  LET s == SkipWhitespace(s0) IN
    IF Cur(s) = "," THEN [sep |-> "cont", s |-> Advance(s)]
    ELSE IF Cur(s) = close THEN [sep |-> "ended", s |-> Advance(Nest(s, close))]
    ELSE [sep |-> "error", s |-> Reject(s, "missing_comma")]

\* collectObjectSeparator (close = "}") and collectArraySeparator ("]").
CollectSeparator(close, s0) ==
  LET s == SkipWhitespace(s0) IN
    IF Cur(s) = ","
      THEN [sep |-> "cont", s |-> SkipWhitespace(Advance(s))]
    ELSE IF Cur(s) = close
      THEN [sep |-> "ended", s |-> Advance(Nest(s, close))]
    ELSE [sep |-> "error", s |-> Reject(s, "missing_comma")]

\* A quote under the cursor: of a closed string or of one that never closes.
AtQuote(s) == Cur(s) \in Keys \cup {"open"}

\* skipString.  The structural form steps to the next tape entry and never
\* looks for the closing quote.
SkipString(s) ==
  IF Structural \/ Cur(s) \in Keys THEN Pass(Advance(s))
  ELSE Fail(Reject(Advance(s), "unexpected_string_end"))

(***************************************************************************)
(* Primitives.                                                             *)
(***************************************************************************)
\* What may follow a number's last digit (validPostPrimitiveTable).
PostPrimitiveNoEnd == {",", "ws", "end"}   \* bug: no closing bracket

PostPrimitive == {",", "}", "]", "ws", "end"}

NumberOfText(s) == Pass(Advance(s))
NumberOfTape(s) ==
  IF Lex(Pos(s) + 1) \in PostPrimitive THEN Pass(Advance(s)) ELSE Fail(Reject(s, "missing_comma"))

IterateNumber(s0) ==
  LET s == SkipWhitespace(s0) IN
    IF Cur(s) # "num" THEN Fail(Reject(s, "invalid_number_value"))
    ELSE IF Structural THEN NumberOfTape(s) ELSE NumberOfText(s)

\* The document ends right after the lexeme at p, whitespace allowed or not.
EndsAfter(p) == p = Len(doc.text)
EndsAfterWs(p) ==
  \/ EndsAfter(p)
  \/ ~opts.minified /\ Lex(p + 1) = "ws" /\ EndsAfter(p + 1)

\* iterateRootNumber.  The direct form may answer FALSE without an error;
\* parseJson ignores the answer and leaves it to checkIfDone.
IterateRootNumber(s) ==
  IF Cur(s) # "num" THEN Fail(Reject(s, "invalid_number_value"))
  ELSE IF Structural
    THEN IF EndsAfterWs(Pos(s)) THEN Pass(Advance(s))
         ELSE Fail(Reject(Advance(s), "unfinished_input"))
    ELSE [ok |-> EndsAfter(Pos(s)), s |-> SkipWhitespace(Advance(s))]

IterateBool(s0) ==
  LET s == SkipWhitespace(s0) IN
    IF Cur(s) = "true" THEN Pass(Advance(s))
    ELSE Fail(Reject(s, "invalid_bool_value"))

\* iterateRootBool compares the length of what is left with 4 (or 5).
IterateRootBool(s) ==
  IF Cur(s) = "true" /\ EndsAfter(Pos(s)) THEN Pass(Advance(s))
  ELSE Fail(Reject(s, "invalid_bool_value"))

IterateNull(s0) ==
  LET s == SkipWhitespace(s0) IN
    IF Cur(s) = "null" THEN Pass(Advance(s))
    ELSE Fail(Reject(s, "invalid_null_value"))

\* parse_impl of a string: checkChar<'"'>, then iterateString.
IterateString(s0) ==
  LET s == SkipWhitespace(s0) IN
    IF Cur(s) \in Keys THEN Pass(Advance(s))
    ELSE Fail(Reject(s, "invalid_string_characters"))

(***************************************************************************)
(* checkIfDone, called once when the root type's parser has returned.      *)
(***************************************************************************)
\* Bug: what follows the value is not looked at.
CheckIfDoneDepth(s) ==
  IF s.obj = 0 /\ s.arr = 0 THEN s ELSE Reject(s, "unfinished_input")

CheckIfDone(s0) ==
  LET s == SkipWhitespace(s0) IN
    IF s.obj = 0 /\ s.arr = 0 /\ ~NotAtEndPre(s) THEN s
    ELSE Reject(s, "unfinished_input")
===============================================================================
