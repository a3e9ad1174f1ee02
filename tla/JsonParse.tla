------------------------------- MODULE JsonParse -------------------------------
(***************************************************************************)
(* Parsing a document into a C++ type: parser::parseJson and the           *)
(* parse_impl specialisations it recurses through                          *)
(* (include/jsonifier-incl/parsing/parser.hpp and parse_impl.hpp).         *)
(*                                                                         *)
(* The C++ call stack is the variable stack.  A frame is one activation of *)
(* a container's rootImpl; the parsers of scalars have no frame, they      *)
(* answer at once.  ctl says what runs next:                               *)
(*                                                                         *)
(*   idle     no call of parseJson is in progress                          *)
(*   root     parse<>::rootImpl of the type callee is entered              *)
(*   call     parse<>::impl of the type callee is entered                  *)
(*   return   the activation that was on top has answered ret              *)
(*   object   the object activation on top continues at its stage          *)
(*   array    the array activation on top goes on to its next element      *)
(*   skip     skipValue is inside a bracketed value, depth brackets deep   *)
(*   scan     skipValue is inside a scalar                                 *)
(*                                                                         *)
(* The parser is one thread: Next is deterministic but for the document,   *)
(* options and type each call of parseJson is given and for one error code *)
(* (see VectorElement).  What survives from one call to the next is       *)
(* antiHash, the thread_local table Known Order learns.                    *)
(***************************************************************************)
EXTENDS JsonIterator

CONSTANTS
  Types,       \* the C++ types, by name
  Schema,      \* what each type is, see TypeRecords
  Uses         \* what a thread may parse, see UsesAssumption

VARIABLES
  stack,       \* activations, outermost first
  ctl,         \* what runs next
  callee,      \* the type being entered while ctl = "call"
  ret,         \* the answer while ctl = "return"
  depth,       \* skipValue's local bracket count
  antiHash,    \* antiHashStatesNew, per object type
  target,      \* history: the type of the call in progress, or of the last one
  stored,      \* history: where each value stored in the object came from
  skipped,     \* history: skipValue has run during this call
  hashed,      \* history: the hash map has found a member during this call
  prior,       \* history: [text, target, opts, ok] of the call before this one
  result,      \* what the last call of parseJson answered
  parses       \* calls begun so far

vars == <<doc, opts, it, stack, ctl, callee, ret, depth, antiHash, target,
          stored, skipped, hashed, prior, result, parses>>

Kinds == {"object", "map", "vector", "array", "tuple", "string", "num", "bool",
          "null", "optional", "variant", "skip"}

Stages == {"slot", "key", "member", "unknown", "rest", "remaining",
           "mapkey", "mapvalue", "element", "extra"}

Skip == "skip_t"     \* callee: context.skipValue() itself
Key  == "key_t"      \* callee: the key of a map

(***************************************************************************)
(* members: the registered entities of an object, in order, or the types   *)
(* of a tuple; elem: the element, mapped or wrapped type; size: the        *)
(* extent of a raw array; alts: the alternatives of a variant, in order;   *)
(* excluded: the keys jsonifierExcludedKeys holds.                         *)
(***************************************************************************)
TypeRecords == [kind : Kinds, members : Seq([key : Keys, type : Types]),
                elem : Types, size : Nat, alts : Seq(Types), excluded : SUBSET Keys]

Kind(t)     == Schema[t].kind
Members(t)  == Schema[t].members
KeyOf(t, i) == Members(t)[i].key

\* What the parser relies on: a tape is the ordered list of the positions at
\* which Stage 1 finds an entry.
TapeOk(d) ==
  /\ {d.tape[i] : i \in 1..Len(d.tape)} = {p \in 1..Len(d.text) : IsEntry(d.text, p)}
  /\ \A i, j \in 1..Len(d.tape) : i < j => d.tape[i] < d.tape[j]

Options == [partialRead : BOOLEAN, minified : BOOLEAN, knownOrder : BOOLEAN]

(***************************************************************************)
(* A use of the parser is one thread that calls parseJson again and again: *)
(* with documents (each with its Stage 1 tape), options and types of these *)
(* sets, at most that many times.                                          *)
(***************************************************************************)
ASSUME UsesAssumption ==
  \A u \in Uses :
    /\ u.options \subseteq Options /\ u.types \subseteq Types /\ u.calls \in Nat
    /\ \A d \in u.documents : /\ d.text \in Seq(Lexemes)
                              /\ d.tape \in Seq(Nat)
                              /\ TapeOk(d)
ASSUME DepthAssumption == MaxDepth \in Nat
ASSUME TypesAssumption ==
  /\ Schema \in [Types -> TypeRecords]
  /\ Skip \notin Types /\ Key \notin Types

ObjectTypes == {t \in Types : Kind(t) = "object"}

-------------------------------------------------------------------------------
(***************************************************************************)
(* Activations.  slot counts the members or elements begun; learn is the   *)
(* member the slot will remember once its value is parsed, 0 for none;     *)
(* label is history, which value is now parsed: the index of the member or *)
(* element, or where in the text the key of a map stands.                  *)
(***************************************************************************)
Top  == stack[Len(stack)]
Rest == SubSeq(stack, 1, Len(stack) - 1)

NewFrame(t, stage) == [type |-> t, stage |-> stage, slot |-> 1, label |-> 0,
                       learn |-> 0]

Retop(f) == Append(Rest, f)

\* The way to the value now parsed, as stored records it.
Path(fs) == [i \in 1..Len(fs) |-> fs[i].label]

Call(t, s) ==
  /\ it' = s /\ ctl' = "call" /\ callee' = t
  /\ UNCHANGED ret

Return(ok, s) ==
  /\ it' = s /\ ctl' = "return" /\ ret' = ok
  /\ UNCHANGED callee

Continue(where, s) ==
  /\ it' = s /\ ctl' = where
  /\ UNCHANGED <<callee, ret>>

\* A parser of this kind is entered.
Entering(k) ==
  ctl \in {"root", "call"} /\ callee \in Types /\ Kind(callee) = k

\* A return from the top activation.
PopReturn(ok, s) == stack' = Rest /\ Return(ok, s)

callVars == <<doc, opts, target, prior, result, parses>>
static   == <<callVars, antiHash, hashed>>

\* The iterator as it is constructed.
Begun(errors) == [iter |-> 1, obj |-> 0, arr |-> 0, errors |-> errors]

-------------------------------------------------------------------------------
(***************************************************************************)
(* parser::parseJson: a fresh iterator, errors cleared, then the root      *)
(* type's parser; an empty input is refused by anyInput.                   *)
(***************************************************************************)
StartParse ==
  /\ ctl = "idle"
  /\ \E u \in Uses :
       /\ parses < u.calls /\ (parses > 0 => target \in u.types)
       /\ \E d \in u.documents, o \in u.options, t \in u.types :
            /\ o.minified => \A p \in 1..Len(d.text) : d.text[p] # "ws"   \* the caller's promise
            /\ doc' = d /\ opts' = o /\ target' = t
            /\ IF d.text = <<>>
                 THEN /\ it' = Begun(<<"no_input">>)
                      /\ ctl' = "idle" /\ UNCHANGED callee
                 ELSE /\ it' = Begun(<<>>)
                      /\ ctl' = "root" /\ callee' = t
  /\ parses' = parses + 1
  /\ prior' = IF parses = 0 THEN prior
              ELSE [text |-> doc.text, target |-> target, opts |-> opts, ok |-> result]
  /\ stack' = <<>> /\ stored' = {} /\ skipped' = FALSE /\ hashed' = FALSE /\ depth' = 0
  /\ ret' = FALSE /\ result' = FALSE
  /\ UNCHANGED antiHash

\* checkIfDone; the answer is whether the error list is empty.
FinishParse ==
  /\ ctl = "return" /\ stack = <<>>
  /\ it' = CheckIfDone(it)
  /\ result' = (it'.errors = <<>>)
  /\ ctl' = "idle"
  /\ UNCHANGED <<doc, opts, target, stack, callee, ret, depth, antiHash, stored, skipped,
                 hashed, prior, parses>>

(***************************************************************************)
(* Scalars.                                                                *)
(***************************************************************************)
Scalar(t) ==
  CASE Kind(t) = "num"    -> IF ctl = "root" THEN IterateRootNumber(it) ELSE IterateNumber(it)
    [] Kind(t) = "bool"   -> IF ctl = "root" THEN IterateRootBool(it) ELSE IterateBool(it)
    [] Kind(t) = "null"   -> IterateNull(it)
    [] Kind(t) = "string" -> IterateString(it)

ParseScalar ==
  /\ \E k \in {"num", "bool", "null", "string"} : Entering(k)
  /\ LET r    == Scalar(callee)      \* a value is stored as soon as it is read
         from == SkipWhitespace(it)
     IN /\ Return(r.ok, r.s)
        /\ stored' = IF r.s.iter > from.iter
                       THEN stored \cup {<<Path(stack), Pos(from)>>}
                       ELSE stored
  /\ UNCHANGED <<static, stack, depth, skipped>>

\* The key of a map, parsed into the thread_local getKeyNew.
ParseKey ==
  /\ ctl = "call" /\ callee = Key
  /\ LET r == IterateString(it)
     IN /\ Return(r.ok, r.s)
        /\ stack' = Retop([Top EXCEPT !.label = Pos(SkipWhitespace(it))])
  /\ UNCHANGED <<static, depth, stored, skipped>>

\* optional, shared_ptr, unique_ptr and pointer: null, or the wrapped type.
ParseOptional ==
  /\ Entering("optional")
  /\ LET s == SkipWhitespace(it)
         r == IterateNull(s)
     IN IF NotAtEndPre(s) /\ Cur(s) # "null"
          THEN Call(Schema[callee].elem, s)
          ELSE Return(r.ok, r.s)
  /\ UNCHANGED <<static, stack, depth, stored, skipped>>

\* The kinds of alternative a lexeme selects; iterateVariantTypes takes the
\* first alternative of such a kind.
KindsFor(c) ==
  CASE c = "{" -> {"object"}
    [] c = "[" -> {"vector", "array"}
    [] c \in Keys \cup {"open"} -> {"string"}
    [] c = "true" -> {"bool"}
    [] c = "num"  -> {"num"}
    [] c = "null" -> {"null"}
    [] OTHER -> {}

Selects(t, c, i) ==
  LET alts == Schema[t].alts
  IN /\ Kind(alts[i]) \in KindsFor(c)
     /\ \A j \in 1..(i - 1) : Kind(alts[j]) \notin KindsFor(c)

ParseVariant ==
  /\ Entering("variant")
  /\ LET s    == SkipWhitespace(it)
         alts == Schema[callee].alts
     IN \/ /\ ~NotAtEndPre(s)
           /\ Return(FALSE, Reject(s, "unexpected_end_of_input"))
        \/ /\ NotAtEndPre(s) /\ KindsFor(Cur(s)) = {}       \* the switch's default
           /\ Return(TRUE, s)
        \/ /\ NotAtEndPre(s) /\ KindsFor(Cur(s)) # {}
           /\ \A i \in 1..Len(alts) : Kind(alts[i]) \notin KindsFor(Cur(s))
           /\ Return(FALSE, Reject(s, "unexpected_token"))
        \/ /\ NotAtEndPre(s)
           /\ \E i \in 1..Len(alts) :
                Selects(callee, Cur(s), i) /\ Call(alts[i], s)
  /\ UNCHANGED <<static, stack, depth, stored, skipped>>
-------------------------------------------------------------------------------
(***************************************************************************)
(* skipValue: brackets are counted, not matched; a scalar ends at the next *)
(* separator, closing bracket or whitespace; the structural form takes one *)
(* tape entry for any value that is not bracketed.                         *)
(***************************************************************************)
ParseSkip == Entering("skip") /\ Call(Skip, it) /\ UNCHANGED <<static, stack, depth, stored, skipped>>

SkipValue ==
  /\ ctl = "call" /\ callee = Skip
  /\ skipped' = TRUE /\ depth' = 0
  /\ LET s == SkipWhitespace(it)
         q == SkipString(s)
     IN CASE ~NotAtEndPre(s) -> Return(FALSE, Reject(s, "unexpected_end_of_input"))
          [] NotAtEndPre(s) /\ Cur(s) \in {"{", "["} -> Continue("skip", s)
          [] NotAtEndPre(s) /\ Cur(s) \notin {"{", "["} /\ Structural ->
               Return(TRUE, Advance(s))
          [] NotAtEndPre(s) /\ AtQuote(s) /\ ~Structural -> Return(q.ok, q.s)
          [] OTHER -> Continue("scan", s)
  /\ UNCHANGED <<static, stack, stored>>

SkipBracketed ==
  /\ ctl = "skip"
  /\ LET c == Cur(it)
         q == SkipString(it)
     IN CASE ~NotAtEndPre(it) ->
               Return(FALSE, Reject(it, "unexpected_string_end")) /\ UNCHANGED depth
          [] NotAtEndPre(it) /\ AtQuote(it) /\ ~Structural ->
               /\ IF q.ok THEN Continue("skip", q.s) ELSE Return(FALSE, q.s)
               /\ UNCHANGED depth
          [] NotAtEndPre(it) /\ c \in {"{", "["} ->
               Continue("skip", Advance(it)) /\ depth' = depth + 1
          [] NotAtEndPre(it) /\ c \in {"}", "]"} ->
               /\ depth' = depth - 1
               /\ IF depth = 1 THEN Return(TRUE, Advance(it))
                  ELSE Continue("skip", Advance(it))
          [] OTHER -> Continue("skip", Advance(it)) /\ UNCHANGED depth
  /\ UNCHANGED <<static, stack, stored, skipped>>

SkipScalar ==
  /\ ctl = "scan"
  /\ IF Cur(it) \in {",", "]", "}", "end", "ws"}
       THEN Return(TRUE, it)
       ELSE Continue("scan", Advance(it))
  /\ UNCHANGED <<static, stack, depth, stored, skipped>>

-------------------------------------------------------------------------------
(***************************************************************************)
(* Containers open alike: the bracket, then perhaps at once its closing.   *)
(***************************************************************************)
Open(k, start(_), maybeEnd(_), stage, where) ==
  /\ Entering(k)
  /\ LET r == start(it)
         e == maybeEnd(r.s)
     IN CASE ~r.ok -> Return(FALSE, r.s) /\ UNCHANGED stack
          [] r.ok /\ e.ok -> Return(TRUE, e.s) /\ UNCHANGED stack
          [] OTHER -> /\ stack' = Append(stack, NewFrame(callee, stage))
                      /\ Continue(where, e.s)
  /\ UNCHANGED <<static, depth, stored, skipped>>

\* An activation on top is to run, or has just been answered, in a stage.
Running(where, k, stage) ==
  ctl = where /\ stack # <<>> /\ Kind(Top.type) = k /\ Top.stage = stage

\* What every return action below leaves alone.
quiet == <<depth, stored, skipped>>

(***************************************************************************)
(* Objects.  rootImpl opens the object and folds processIndex over the     *)
(* registered members, one slot each; a slot takes one registered key from *)
(* the document, whichever it is, and skips unregistered ones before it.   *)
(* When every slot has taken a key the rest of the object is skipped.      *)
(***************************************************************************)
MemberCount(t) == Len(Members(t))

ParseObject == Open("object", ObjectStart, ObjectMaybeEnd,
                    IF MemberCount(callee) = 0 THEN "rest" ELSE "slot", "object")

\* Bugs: an error of a slot is not passed on; the slot is tried again.
SlotsStopYes(s)   == PopReturn(TRUE, s)
SlotsStopRetry(s) == IF s.errors = <<>> THEN PopReturn(TRUE, s)
                     ELSE UNCHANGED stack /\ Continue("object", it)

\* iterateValues has answered FALSE: rootImpl answers whether that was an error.
SlotsStop(s) == PopReturn(s.errors = <<>>, s)

\* parse_types_impl::processIndex: the cursor stands on this member's key.  The
\* direct form compares "key": at once and, not minified, "key" and the colon.
KeyMatch(k, s) ==
  LET p      == Pos(s)
      fused  == ~Structural /\ Lex(p + 1) = ":" /\ p + 2 <= Len(doc.text)
      quoted == (Structural \/ ~opts.minified) /\ p + 1 <= Len(doc.text)
      colon  == CollectColon(Advance(s))
  IN IF Cur(s) = k /\ fused
       THEN [hit |-> TRUE, ok |-> TRUE, s |-> Advance(Advance(s))]
     ELSE IF Cur(s) = k /\ quoted
       THEN [hit |-> TRUE, ok |-> colon.ok, s |-> colon.s]
     ELSE [hit |-> FALSE, ok |-> FALSE, s |-> s]

\* Bugs: excluded keys are stored; a value goes to the slot's member.
MatchedExcluded(i, m, learn) ==
  IF m.ok
    THEN /\ stack' = Retop([Top EXCEPT !.stage = "member", !.label = i, !.learn = learn])
         /\ Call(Members(Top.type)[i].type, m.s)
    ELSE SlotsStop(m.s)
MatchedBySlot(i, m, learn) ==
  IF m.ok
    THEN /\ stack' = Retop([Top EXCEPT !.stage = "member", !.label = Top.slot, !.learn = learn])
         /\ Call(Members(Top.type)[Top.slot].type, m.s)
    ELSE SlotsStop(m.s)

\* parseMatchedMember, once its key has matched: an excluded member is skipped.
Matched(i, m, learn) ==
  IF m.ok
    THEN /\ stack' = Retop([Top EXCEPT !.stage = "member", !.label = i, !.learn = learn])
         /\ Call(IF KeyOf(Top.type, i) \in Schema[Top.type].excluded THEN Skip
                 ELSE Members(Top.type)[i].type, m.s)
    ELSE SlotsStop(m.s)

SeekKey(s) ==
  stack' = Retop([Top EXCEPT !.stage = "key"]) /\ Continue("object", s)

\* The separator before a slot, then Known Order's guess that the slot's own
\* member comes next.
ObjectSlot ==
  /\ Running("object", "object", "slot")
  /\ ~(opts.minified /\ opts.knownOrder /\ ~Structural)
  /\ LET sep   == CollectSeparator("}", it)
         e     == ObjectMaybeEnd(it)
         first == Top.slot = 1
         s     == IF first THEN SkipWhitespace(e.s) ELSE sep.s
         m     == KeyMatch(KeyOf(Top.type, Top.slot), s)
     IN CASE first /\ e.ok -> SlotsStop(e.s)
          [] ~first /\ sep.sep # "cont" -> SlotsStop(sep.s)
          [] OTHER -> IF opts.knownOrder /\ m.hit THEN Matched(Top.slot, m, 0)
                      ELSE SeekKey(s)
  /\ UNCHANGED <<static, quiet>>

\* The same, minified direct Known Order: the separator is part of the literal
\* tryKnownOrder compares.
ObjectSlotFused ==
  /\ Running("object", "object", "slot")
  /\ opts.minified /\ opts.knownOrder /\ ~Structural
  /\ LET e     == ObjectMaybeEnd(it)
         first == Top.slot = 1
         c     == CollectComma(it)
         m     == KeyMatch(KeyOf(Top.type, Top.slot),
                           IF first THEN it ELSE Advance(it))
     IN CASE e.ok -> SlotsStop(e.s)
          [] ~e.ok /\ (first \/ c.ok) /\ m.hit -> Matched(Top.slot, m, 0)
          [] OTHER -> IF first THEN SeekKey(it)
                      ELSE IF c.ok THEN SeekKey(c.s) ELSE SlotsStop(c.s)
  /\ UNCHANGED <<static, quiet>>

\* Past an unregistered key and its colon.
SkipKey(s) ==
  LET q == SkipString(s)
  IN IF ~AtQuote(s) THEN Fail(Reject(s, "missing_key_start"))
     ELSE IF q.ok THEN CollectColon(q.s) ELSE q

\* The slot's loop: the member the slot learned, else the one the hash map
\* finds (which Known Order remembers), else an unregistered key.
ObjectKey ==
  /\ Running("object", "object", "key")
  /\ LET t     == Top.type
         n     == MemberCount(t)
         h     == IF n = 1 THEN 1 ELSE antiHash[t][Top.slot]
         guess == KeyMatch(KeyOf(t, h), it)
         found(i) == n > 1 /\ ~guess.hit /\ KeyMatch(KeyOf(t, i), it).hit
         key   == SkipKey(it)
     IN \/ guess.hit /\ Matched(h, guess, 0) /\ UNCHANGED hashed
        \/ \E i \in 1..n :
             /\ found(i) /\ hashed' = TRUE
             /\ Matched(i, KeyMatch(KeyOf(t, i), it), IF opts.knownOrder THEN i ELSE 0)
        \/ /\ ~guess.hit /\ UNCHANGED hashed
           /\ \A i \in 1..n : ~found(i)
           /\ IF key.ok
                THEN /\ stack' = Retop([Top EXCEPT !.stage = "unknown"])
                     /\ Call(Skip, key.s)
                ELSE SlotsStop(key.s)
  /\ UNCHANGED <<callVars, antiHash, quiet>>

\* Bug: the member found is not remembered.
MemberParsedForgetful ==
  /\ Running("return", "object", "member")
  /\ IF ret
       THEN /\ stack' = Retop([Top EXCEPT !.slot = @ + 1, !.learn = 0,
                 !.stage = IF Top.slot = MemberCount(Top.type) THEN "rest" ELSE "slot"])
            /\ Continue("object", it)
       ELSE SlotsStop(it)
  /\ UNCHANGED <<static, quiet>>

MemberParsed ==
  /\ Running("return", "object", "member")
  /\ antiHash' = IF ret /\ Top.learn # 0
                   THEN [antiHash EXCEPT ![Top.type][Top.slot] = Top.learn]
                   ELSE antiHash
  /\ IF ret
       THEN /\ stack' = Retop([Top EXCEPT !.slot = @ + 1, !.learn = 0,
                 !.stage = IF Top.slot = MemberCount(Top.type) THEN "rest" ELSE "slot"])
            /\ Continue("object", it)
       ELSE SlotsStop(it)
  /\ UNCHANGED <<callVars, hashed, quiet>>

UnknownSkipped ==
  /\ Running("return", "object", "unknown")
  /\ LET sep == CollectSeparator("}", it)
     IN IF ret /\ sep.sep = "cont" THEN SeekKey(sep.s)
        ELSE SlotsStop(IF ret THEN sep.s ELSE it)
  /\ UNCHANGED <<static, quiet>>

\* Every slot has taken its key.
ObjectRest ==
  /\ Running("object", "object", "rest")
  /\ LET e == ObjectMaybeEnd(it)
         c == CollectComma(e.s)
     IN CASE e.ok -> PopReturn(TRUE, e.s)
          [] ~e.ok /\ ~c.ok -> PopReturn(FALSE, c.s)
          [] OTHER -> /\ stack' = Retop([Top EXCEPT !.stage = "remaining"])
                      /\ Continue("object", SkipWhitespace(c.s))
  /\ UNCHANGED <<static, quiet>>

\* skipRemainingObject, one key and value per turn.
RemainingKey ==
  /\ Running("object", "object", "remaining")
  /\ LET key == SkipKey(SkipWhitespace(it))
     IN IF key.ok THEN Call(Skip, key.s) /\ UNCHANGED stack
        ELSE PopReturn(FALSE, key.s)
  /\ UNCHANGED <<static, quiet>>

RemainingSkipped ==
  /\ Running("return", "object", "remaining")
  /\ LET sep == CollectSeparator("}", it)
     IN CASE ~ret -> PopReturn(FALSE, it)
          [] ret /\ sep.sep = "cont" -> Continue("object", sep.s) /\ UNCHANGED stack
          [] OTHER -> PopReturn(sep.sep = "ended", sep.s)
  /\ UNCHANGED <<static, quiet>>

(***************************************************************************)
(* Maps: any key, every value of the mapped type.                          *)
(***************************************************************************)
ParseMap == Open("map", ObjectStart, ObjectMaybeEnd, "mapkey", "object")

MapKey ==
  /\ Running("object", "map", "mapkey")
  /\ Call(Key, it)
  /\ UNCHANGED <<static, stack, quiet>>

MapKeyParsed ==
  /\ Running("return", "map", "mapkey")
  /\ LET c == CollectColon(it)
     IN IF ret /\ c.ok
          THEN /\ stack' = Retop([Top EXCEPT !.stage = "mapvalue"])
               /\ Call(Schema[Top.type].elem, c.s)
          ELSE PopReturn(FALSE, IF ret THEN c.s ELSE it)
  /\ UNCHANGED <<static, quiet>>

MapValueParsed ==
  /\ Running("return", "map", "mapvalue")
  /\ LET sep == CollectSeparator("}", it)
     IN CASE ~ret -> PopReturn(FALSE, it)
          [] ret /\ sep.sep = "cont" -> /\ stack' = Retop([Top EXCEPT !.stage = "mapkey"])
                                        /\ Continue("object", sep.s)
          [] OTHER -> PopReturn(sep.sep = "ended", sep.s)
  /\ UNCHANGED <<static, quiet>>

(***************************************************************************)
(* Vectors, raw arrays and tuples.                                         *)
(***************************************************************************)
ParseVector == Open("vector", ArrayStart, ArrayMaybeEnd, "element", "array")
ParseArray  == Open("array",  ArrayStart, ArrayMaybeEnd, "element", "array")
ParseTuple  == Open("tuple",  ArrayStart, ArrayMaybeEnd,
                    IF MemberCount(callee) = 0 THEN "extra" ELSE "element", "array")

Element(t) == Call(t, it) /\ stack' = Retop([Top EXCEPT !.label = Top.slot])

\* The loop over the elements valueTemp still has from an earlier call does
\* not look for the end of the input before it parses; the loop that appends
\* does.  Both fail there, with one error code or the other.
VectorElement ==
  /\ Running("array", "vector", "element")
  /\ \/ Element(Schema[Top.type].elem)
     \/ ~NotAtEndPre(it) /\ PopReturn(FALSE, Reject(it, "unexpected_string_end"))
  /\ UNCHANGED <<static, quiet>>

VectorElementParsed ==
  /\ Running("return", "vector", "element")
  /\ LET sep == CollectSeparator("]", it)
     IN CASE ~ret -> PopReturn(FALSE, it)
          [] ret /\ sep.sep = "cont" -> /\ stack' = Retop([Top EXCEPT !.slot = @ + 1])
                                        /\ Continue("array", sep.s)
          [] OTHER -> PopReturn(sep.sep = "ended", sep.s)
  /\ UNCHANGED <<static, quiet>>

\* Bug: off by one, the last element is skipped.
ArrayElementShort ==
  /\ Running("array", "array", "element")
  /\ IF Top.slot < Schema[Top.type].size THEN Element(Schema[Top.type].elem)
     ELSE IF NotAtEndPre(it) THEN Call(Skip, it) /\ UNCHANGED stack
     ELSE PopReturn(FALSE, Reject(it, "unexpected_string_end"))
  /\ UNCHANGED <<static, quiet>>

\* Elements past the extent of the array are skipped.
ArrayElement ==
  /\ Running("array", "array", "element")
  /\ IF Top.slot <= Schema[Top.type].size THEN Element(Schema[Top.type].elem)
     ELSE IF NotAtEndPre(it) THEN Call(Skip, it) /\ UNCHANGED stack
     ELSE PopReturn(FALSE, Reject(it, "unexpected_string_end"))
  /\ UNCHANGED <<static, quiet>>

ArrayElementParsed ==
  /\ Running("return", "array", "element")
  /\ LET e == ArrayMaybeEnd(it)
         c == CollectComma(e.s)
     IN CASE ~ret -> PopReturn(FALSE, it)
          [] ret /\ e.ok -> PopReturn(TRUE, e.s)
          [] ret /\ ~e.ok /\ ~c.ok -> PopReturn(FALSE, c.s)
          [] OTHER -> /\ stack' = Retop([Top EXCEPT !.slot = @ + 1])
                      /\ Continue("array", c.s)
  /\ UNCHANGED <<static, quiet>>

TupleElement ==
  /\ Running("array", "tuple", "element")
  /\ Element(Members(Top.type)[Top.slot].type)
  /\ UNCHANGED <<static, quiet>>

\* A missing comma after an element ends the elements, not the tuple.
TupleElementParsed ==
  /\ Running("return", "tuple", "element")
  /\ LET c    == IncrementIfEquals(",", it)
         last == Top.slot = MemberCount(Top.type)
     IN CASE ~ret -> PopReturn(FALSE, it)
          [] ret /\ ~last /\ c.ok -> /\ stack' = Retop([Top EXCEPT !.slot = @ + 1])
                                     /\ Continue("array", c.s)
          [] OTHER -> /\ stack' = Retop([Top EXCEPT !.stage = "extra"])
                      /\ Continue("array", IF last THEN it ELSE c.s)
  /\ UNCHANGED <<static, quiet>>

TupleExtra ==
  /\ Running("array", "tuple", "extra")
  /\ LET e == ArrayMaybeEnd(it)
         c == CollectComma(e.s)
     IN CASE e.ok -> PopReturn(TRUE, e.s)
          [] ~e.ok /\ ~NotAtEndPre(e.s) ->
               PopReturn(FALSE, Reject(e.s, "unexpected_string_end"))
          [] ~e.ok /\ NotAtEndPre(e.s) /\ ~c.ok -> PopReturn(FALSE, c.s)
          [] OTHER -> Call(Skip, c.s) /\ UNCHANGED stack
  /\ UNCHANGED <<static, quiet>>

TupleExtraSkipped ==
  /\ Running("return", "tuple", "extra")
  /\ IF ret THEN Continue("array", it) /\ UNCHANGED stack ELSE PopReturn(FALSE, it)
  /\ UNCHANGED <<static, quiet>>

-------------------------------------------------------------------------------
Init ==
  /\ doc = [text |-> <<>>, tape |-> <<>>] /\ target = Skip
  /\ opts = [partialRead |-> FALSE, minified |-> FALSE, knownOrder |-> FALSE]
  /\ it = Begun(<<>>)
  /\ stack = <<>> /\ ctl = "idle" /\ callee = Skip /\ ret = FALSE
  /\ depth = 0 /\ stored = {} /\ skipped = FALSE /\ hashed = FALSE
  /\ prior = [text |-> <<>>, target |-> Skip, opts |-> Skip, ok |-> FALSE]
  /\ result = FALSE /\ parses = 0
  /\ antiHash = [t \in ObjectTypes |-> [i \in 1..MemberCount(t) |-> i]]

Scalars ==
  ParseScalar \/ ParseKey \/ ParseOptional \/ ParseVariant \/ ParseSkip

Skips == SkipValue \/ SkipBracketed \/ SkipScalar

Objects ==
  \/ ParseObject \/ ObjectSlot \/ ObjectSlotFused \/ ObjectKey \/ MemberParsed
  \/ UnknownSkipped \/ ObjectRest \/ RemainingKey \/ RemainingSkipped

Maps == ParseMap \/ MapKey \/ MapKeyParsed \/ MapValueParsed

Arrays ==
  \/ ParseVector \/ VectorElement \/ VectorElementParsed
  \/ ParseArray \/ ArrayElement \/ ArrayElementParsed
  \/ ParseTuple \/ TupleElement \/ TupleElementParsed \/ TupleExtra \/ TupleExtraSkipped

\* One step of the parse in progress; one thread runs it, so it goes on.
Parsing == Scalars \/ Skips \/ Objects \/ Maps \/ Arrays \/ FinishParse

Next == StartParse \/ Parsing

Fairness == WF_vars(Parsing)
Spec == Init /\ [][Next]_vars /\ Fairness

-------------------------------------------------------------------------------
(***************************************************************************)
(* Properties that need no knowledge of what a document means.             *)
(***************************************************************************)
IterState == [iter : Nat, obj : Nat, arr : Nat, errors : Seq(ParseStatuses)]

Frames == [type : Types, stage : Stages, slot : Nat, label : Nat, learn : Nat]

\* The shape of the state: the depth counters, uint64_t in the code, are never
\* decremented below zero and the iterator never passes the end sentinel.
TypeOK ==
  /\ doc.text \in Seq(Lexemes) /\ doc.tape \in Seq(Nat)
  /\ opts \in Options
  /\ it \in IterState /\ it.iter \in 1..(Limit + 1)
  /\ stack \in Seq(Frames)
  /\ ctl \in {"idle", "root", "call", "return", "object", "array", "skip", "scan"}
  /\ callee \in Types \cup {Skip, Key} /\ target \in Types \cup {Skip}
  /\ ret \in BOOLEAN /\ depth \in Nat /\ result \in BOOLEAN
  /\ skipped \in BOOLEAN /\ hashed \in BOOLEAN
  /\ parses \in Nat
  /\ DOMAIN antiHash = ObjectTypes
  /\ \A t \in ObjectTypes : antiHash[t] \in [1..MemberCount(t) -> 1..MemberCount(t)]

ObjectFrames(fs) == {i \in 1..Len(fs) : Kind(fs[i].type) \in {"object", "map"}}
ArrayFrames(fs)  == {i \in 1..Len(fs) : Kind(fs[i].type) \in {"vector", "array", "tuple"}}

\* The answer a nested parser gives and the error list always agree: FALSE
\* comes with an error and TRUE without one.  An object's rootImpl relies on it
\* when it answers getErrors().size() == 0 because a slot met the closing brace.
ErrorsAgree ==
  /\ ctl \notin {"return", "idle"} => it.errors = <<>>
  /\ ctl = "return" /\ stack # <<>> => (ret <=> it.errors = <<>>)

\* Until an error is recorded, the two depth counters are the number of objects
\* and of arrays whose parsers are active.  Many places open and close a level
\* (incrementIfEquals, the separators, skipRemainingObject, the early ends of
\* objects and arrays) and checkIfDone trusts the counters to be balanced.
DepthCounts ==
  it.errors = <<>> =>
    /\ it.obj = Cardinality(ObjectFrames(stack))
    /\ it.arr = Cardinality(ArrayFrames(stack))

\* maxDepth bounds the recursion of the parsers, whatever the document: no
\* document makes the C++ stack deeper.
NestingBounded == Len(stack) <= MaxDepth

\* Every call of parseJson returns.
Terminates == (ctl # "idle") ~> (ctl = "idle")
===============================================================================
