---------------------------- MODULE JsonParse_proofs ----------------------------
(***************************************************************************)
(* What holds of JsonParse for every set of documents, options, types and  *)
(* every maxDepth: the shape of the state, that errors and answers agree,  *)
(* that the depth counters count the active parsers and that the recursion *)
(* is bounded.  The four are proved of one inductive invariant, IInv.      *)
(***************************************************************************)
EXTENDS JsonParse, FiniteSetTheorems, SequenceTheorems, TLAPS

-------------------------------------------------------------------------------
(***************************************************************************)
(* The iterator.  An operation leaves it sound, without an error, or       *)
(* broken, with one; Same says it has not opened or closed a level.        *)
(***************************************************************************)
Placed(s) == s \in IterState /\ s.iter \in 1..(Limit + 1)
Sound(s)  == Placed(s) /\ s.errors = <<>>
Broken(s) == Placed(s) /\ s.errors # <<>>
Same(s, r) == Sound(r) /\ r.obj = s.obj /\ r.arr = s.arr

DocOk == doc.text \in Seq(Lexemes) /\ doc.tape \in Seq(Nat)

\* The terminator is under the cursor only past the last position.
LEMMA NotEnd ==
  ASSUME DocOk, NEW s, Placed(s), Cur(s) # "end"
  PROVE  s.iter \in 1..Limit
  BY DEF DocOk, Placed, IterState, Cur, Lex, Pos, Limit

\* Moving on by one position from inside the document.
LEMMA AdvanceInside ==
  ASSUME DocOk, NEW s, Sound(s), s.iter <= Limit
  PROVE  Same(s, Advance(s))
<1>1. Limit \in Nat  BY DEF DocOk, Limit
<1>2. Advance(s) \in IterState  BY DEF Sound, Placed, IterState, Advance
<1> QED  BY <1>1, <1>2 DEF Sound, Same, Placed, IterState, Advance

\* The same, of a lexeme that is not the terminator.
LEMMA AdvanceSame ==
  ASSUME DocOk, NEW s, Sound(s), Cur(s) # "end"
  PROVE  Same(s, Advance(s))
  BY NotEnd, AdvanceInside DEF Sound, Placed

\* Skipping whitespace opens and closes nothing.
LEMMA SkipWhitespaceSame ==
  ASSUME DocOk, NEW s, Sound(s)
  PROVE  Same(s, SkipWhitespace(s))
  BY AdvanceSame DEF SkipWhitespace, Same

\* Recording an error breaks the iterator where it stands.
LEMMA RejectBroken ==
  ASSUME NEW s, Placed(s), NEW status \in ParseStatuses
  PROVE  Broken(Reject(s, status))
<1>1. /\ Append(s.errors, status) \in Seq(ParseStatuses)
      /\ Append(s.errors, status) # <<>>
  BY DEF Placed, IterState
<1> QED  BY <1>1 DEF Broken, Placed, IterState, Reject

\* Two moves at the same level are one.
LEMMA SameTrans ==
  ASSUME NEW s, NEW r, NEW q, Same(s, r), Same(r, q)
  PROVE  Same(s, q)
  BY DEF Same

\* An operation that answers: sound when it says yes, broken when it says no.
Answers(s, r) == r.ok \in BOOLEAN /\ IF r.ok THEN Same(s, r.s) ELSE Broken(r.s)

\* A mark that opens and closes no level is taken or left.
Flats == {",", ":"}

\* incrementIfEquals of a mark that is no bracket keeps the level.
LEMMA IncrementFlat ==
  ASSUME DocOk, NEW s, Sound(s), NEW c, c \in Flats
  PROVE  Same(s, IncrementIfEquals(c, s).s)
<1> DEFINE w == SkipWhitespace(s)
<1>1. Same(s, w)  BY SkipWhitespaceSame
<1>2. /\ c # "{" /\ c # "[" /\ c # "}" /\ c # "]" /\ c # "end"
      /\ c \notin {"{", "["}
  BY DEF Flats
<1>3. CASE Cur(w) = c
  <2>1. Nest(w, c) = w  BY <1>2 DEF Nest
  <2>2. Same(w, Advance(w))  BY <1>1, <1>2, <1>3, AdvanceSame DEF Same
  <2>3. IncrementIfEquals(c, s) = Pass(Advance(w))
    BY <1>2, <1>3, <2>1 DEF IncrementIfEquals
  <2> QED  BY <1>1, <2>2, <2>3, SameTrans DEF Pass
<1>4. CASE Cur(w) # c
  <2>1. IncrementIfEquals(c, s) = Fail(w)  BY <1>2, <1>4 DEF IncrementIfEquals
  <2> QED  BY <1>1, <2>1 DEF Fail
<1> QED  BY <1>3, <1>4

\* collectColon and collectComma.
LEMMA CollectAnswers ==
  ASSUME DocOk, NEW s, Sound(s)
  PROVE  Answers(s, CollectColon(s)) /\ Answers(s, CollectComma(s))
<1>1. ASSUME NEW c, c \in Flats, NEW status \in ParseStatuses
      PROVE  Answers(s, Expect(c, status, s))
  <2> DEFINE r == IncrementIfEquals(c, s)
  <2>1. Same(s, r.s)  BY <1>1, IncrementFlat
  <2>2. Broken(Reject(r.s, status))  BY <2>1, <1>1, RejectBroken DEF Same, Sound
  <2>3. CASE r.ok
    BY <2>1, <2>3 DEF Expect, Answers
  <2>4. CASE ~r.ok
    BY <2>2, <2>4 DEF Expect, Answers, Fail
  <2> QED  BY <2>3, <2>4
<1>2. ":" \in Flats /\ "," \in Flats  BY DEF Flats
<1>3. "missing_colon" \in ParseStatuses /\ "missing_comma" \in ParseStatuses
  BY DEF ParseStatuses
<1> QED  BY <1>1, <1>2, <1>3 DEF CollectColon, CollectComma

\* Pass and Fail by their fields.
LEMMA PassFail ==
  ASSUME NEW s
  PROVE  /\ Pass(s).ok = TRUE /\ Pass(s).s = s
         /\ Fail(s).ok = FALSE /\ Fail(s).s = s
  BY DEF Pass, Fail

\* An iterator with other counters.
With(s, i, o, a) == [s EXCEPT !.iter = i, !.obj = o, !.arr = a]

Fits(s, i, o, a) == s \in IterState /\ i \in Nat /\ o \in Nat /\ a \in Nat

\* What such an iterator holds.
LEMMA WithFields ==
  ASSUME NEW s, NEW i, NEW o, NEW a, Fits(s, i, o, a)
  PROVE  /\ With(s, i, o, a) \in IterState
         /\ With(s, i, o, a).iter = i /\ With(s, i, o, a).obj = o
         /\ With(s, i, o, a).arr = a /\ With(s, i, o, a).errors = s.errors
  BY DEF IterState, With, Fits

\* Moving on past a bracket.
LEMMA AdvanceNest ==
  ASSUME NEW s \in IterState
  PROVE  /\ Advance(Nest(s, "{")) = With(s, s.iter + 1, s.obj + 1, s.arr)
         /\ Advance(Nest(s, "[")) = With(s, s.iter + 1, s.obj, s.arr + 1)
         /\ Advance(Nest(s, "}")) = With(s, s.iter + 1, s.obj - 1, s.arr)
         /\ Advance(Nest(s, "]")) = With(s, s.iter + 1, s.obj, s.arr - 1)
<1>1. /\ Nest(s, "{") = [s EXCEPT !.obj = s.obj + 1] /\ Nest(s, "[") = [s EXCEPT !.arr = s.arr + 1]
      /\ Nest(s, "}") = [s EXCEPT !.obj = s.obj - 1] /\ Nest(s, "]") = [s EXCEPT !.arr = s.arr - 1]
  BY DEF Nest
<1>2. ASSUME NEW n
      PROVE  /\ Advance([s EXCEPT !.obj = n]) = With(s, s.iter + 1, n, s.arr)
             /\ Advance([s EXCEPT !.arr = n]) = With(s, s.iter + 1, s.obj, n)
  BY DEF Advance, IterState, With
<1> QED  BY <1>1, <1>2

\* Opening a level: only below maxDepth.
Opened(s, r, o, a) ==
  Sound(r) /\ r.obj = s.obj + o /\ r.arr = s.arr + a /\ s.obj + s.arr < MaxDepth

Opens(s, r, o, a) == r.ok \in BOOLEAN /\ IF r.ok THEN Opened(s, r.s, o, a) ELSE Broken(r.s)

Openers == {"{", "["}

\* An expected opening bracket is taken, or an error is recorded.
LEMMA ExpectOpens ==
  ASSUME DocOk, NEW s, Sound(s), NEW c, c \in Openers, NEW status \in ParseStatuses,
         NEW o, NEW a, NEW w, w = SkipWhitespace(s),
         DepthOk(w) /\ Cur(w) = c => Opened(s, Advance(Nest(w, c)), o, a)
  PROVE  Opens(s, Expect(c, status, s), o, a)
<1> DEFINE r == IncrementIfEquals(c, s)
<1>1. Placed(w)  BY SkipWhitespaceSame DEF Same, Sound
<1>2. \A q : Placed(q) => Broken(Reject(q, status)) /\ Broken(Reject(q, "exceeded_max_depth"))
  BY RejectBroken DEF ParseStatuses
<1>3. c \in {"{", "["}  BY DEF Openers
<1>4. CASE DepthOk(w) /\ Cur(w) = c
  <2>1. r = Pass(Advance(Nest(w, c)))  BY <1>3, <1>4 DEF IncrementIfEquals
  <2>2. r.ok /\ r.s = Advance(Nest(w, c))  BY <2>1, PassFail
  <2>3. Expect(c, status, s) = r  BY <2>2 DEF Expect
  <2> QED  BY <2>2, <2>3, <1>4 DEF Opens
<1>5. CASE ~(DepthOk(w) /\ Cur(w) = c)
  <2>1. r = Fail(w) \/ r = Fail(Reject(w, "exceeded_max_depth"))
    BY <1>3, <1>5 DEF IncrementIfEquals
  <2>2. Placed(w) /\ Placed(Reject(w, "exceeded_max_depth"))  BY <1>1, <1>2 DEF Broken
  <2>3. r.ok = FALSE /\ Placed(r.s)  BY <2>1, <2>2, PassFail
  <2> HIDE DEF r
  <2>4. Expect(c, status, s) = Fail(Reject(r.s, status))  BY <2>3 DEF Expect, r
  <2>5. Expect(c, status, s).ok = FALSE /\ Expect(c, status, s).s = Reject(r.s, status)
    BY <2>4, PassFail
  <2> QED  BY <2>3, <2>5, <1>2 DEF Opens
<1> QED  BY <1>4, <1>5

\* collectObjectStart and collectArrayStart.
LEMMA StartOpens ==
  ASSUME DocOk, NEW s, Sound(s)
  PROVE  Opens(s, ObjectStart(s), 1, 0) /\ Opens(s, ArrayStart(s), 0, 1)
<1> DEFINE w == SkipWhitespace(s)
<1>1. Same(s, w) /\ w \in IterState /\ Placed(w) /\ Sound(w)
  BY SkipWhitespaceSame DEF Same, Sound, Placed
<1>2. ASSUME Cur(w) # "end", DepthOk(w)
      PROVE  /\ Opened(s, Advance(Nest(w, "{")), 1, 0)
             /\ Opened(s, Advance(Nest(w, "[")), 0, 1)
  <2>1. w.iter \in 1..Limit /\ Limit \in Nat  BY <1>1, <1>2, NotEnd DEF DocOk, Limit
  <2> DEFINE i == w.iter + 1
             o == w.obj + 1
             a == w.arr + 1
             x == With(w, i, o, w.arr)
             y == With(w, i, w.obj, a)
  <2>2. i \in Nat /\ o \in Nat /\ a \in Nat /\ w.obj \in Nat /\ w.arr \in Nat
    BY <1>1 DEF IterState
  <2>3. s.obj + s.arr < MaxDepth /\ w.obj = s.obj /\ w.arr = s.arr /\ w.errors = <<>>
    BY <1>1, <1>2 DEF DepthOk, Same, Sound
  <2>4. Advance(Nest(w, "{")) = x /\ Advance(Nest(w, "[")) = y  BY <1>1, AdvanceNest
  <2>5. i \in 1..(Limit + 1) /\ o = s.obj + 1 /\ a = s.arr + 1  BY <2>1, <2>3
  <2> HIDE DEF i, o, a
  <2> Fits(w, i, o, w.arr) /\ Fits(w, i, w.obj, a)  BY <1>1, <2>2 DEF Fits
  <2>6. x \in IterState /\ x.iter = i /\ x.obj = o /\ x.arr = w.arr /\ x.errors = w.errors
    BY WithFields
  <2>7. y \in IterState /\ y.iter = i /\ y.obj = w.obj /\ y.arr = a /\ y.errors = w.errors
    BY WithFields
  <2> HIDE DEF x, y
  <2>8. Opened(s, x, 1, 0)  BY <2>2, <2>3, <2>5, <2>6 DEF Opened, Sound, Placed
  <2>9. Opened(s, y, 0, 1)  BY <2>2, <2>3, <2>5, <2>7 DEF Opened, Sound, Placed
  <2> QED  BY <2>4, <2>8, <2>9
<1>3. Opens(s, Expect("{", "missing_object_start", s), 1, 0)
  BY <1>2, ExpectOpens DEF Openers, ParseStatuses
<1>4. Opens(s, Expect("[", "missing_array_start", s), 0, 1)
  BY <1>2, ExpectOpens DEF Openers, ParseStatuses
<1> QED  BY <1>3, <1>4 DEF ObjectStart, ArrayStart

\* Closing a level that is open.
Closed(s, r, o, a) == Sound(r) /\ r.obj = s.obj - o /\ r.arr = s.arr - a

\* Moving on past a closing bracket takes one level back.
LEMMA CloseAdvance ==
  ASSUME DocOk, NEW s, NEW w, Same(s, w), Cur(w) # "end"
  PROVE  /\ s.obj > 0 => Closed(s, Advance(Nest(w, "}")), 1, 0)
         /\ s.arr > 0 => Closed(s, Advance(Nest(w, "]")), 0, 1)
<1>1. w \in IterState /\ w.errors = <<>> /\ w.obj = s.obj /\ w.arr = s.arr /\ Placed(w)
  BY DEF Same, Sound, Placed
<1>2. w.iter \in 1..Limit /\ Limit \in Nat  BY <1>1, NotEnd DEF DocOk, Limit
<1> DEFINE i == w.iter + 1
           o == w.obj - 1
           a == w.arr - 1
           x == With(w, i, o, w.arr)
           y == With(w, i, w.obj, a)
<1>3. /\ i \in Nat /\ w.obj \in Nat /\ w.arr \in Nat /\ i \in 1..(Limit + 1)
      /\ s.obj > 0 => o \in Nat
      /\ s.arr > 0 => a \in Nat
  BY <1>1, <1>2 DEF IterState
<1>4. Advance(Nest(w, "}")) = x /\ Advance(Nest(w, "]")) = y  BY <1>1, AdvanceNest
<1>5. o = s.obj - 1 /\ a = s.arr - 1  BY <1>1
<1> HIDE DEF i, o, a
<1> /\ s.obj > 0 => Fits(w, i, o, w.arr)
    /\ s.arr > 0 => Fits(w, i, w.obj, a)
  BY <1>1, <1>3 DEF Fits
<1>6. s.obj > 0 => /\ x \in IterState /\ x.iter = i /\ x.obj = o /\ x.arr = w.arr
                   /\ x.errors = w.errors
  BY WithFields
<1>7. s.arr > 0 => /\ y \in IterState /\ y.iter = i /\ y.obj = w.obj /\ y.arr = a
                   /\ y.errors = w.errors
  BY WithFields
<1> HIDE DEF x, y
<1>8. s.obj > 0 => Closed(s, x, 1, 0)
  BY <1>1, <1>3, <1>5, <1>6 DEF Closed, Sound, Placed
<1>9. s.arr > 0 => Closed(s, y, 0, 1)
  BY <1>1, <1>3, <1>5, <1>7 DEF Closed, Sound, Placed
<1> QED  BY <1>4, <1>8, <1>9

\* What a closing bracket leaves: a level closed, or everything as it was.
Ends(s, r, o, a) == r.ok \in BOOLEAN /\ IF r.ok THEN Closed(s, r.s, o, a) ELSE Same(s, r.s)

\* maybeCollectObjectEnd and maybeCollectArrayEnd close one level or none.
LEMMA MaybeEndEnds ==
  ASSUME DocOk, NEW s, Sound(s)
  PROVE  /\ s.obj > 0 => Ends(s, ObjectMaybeEnd(s), 1, 0)
         /\ s.arr > 0 => Ends(s, ArrayMaybeEnd(s), 0, 1)
<1> DEFINE w == SkipWhitespace(s)
<1>1. Same(s, w)  BY SkipWhitespaceSame
<1>2. ASSUME NEW c, c \in {"}", "]"}, NEW o, NEW a,
             Cur(w) = c => Closed(s, Advance(Nest(w, c)), o, a)
      PROVE  Ends(s, IncrementIfEquals(c, s), o, a)
  <2>1. CASE Cur(w) = c
    <3>1. IncrementIfEquals(c, s) = Pass(Advance(Nest(w, c)))
      BY <1>2, <2>1 DEF IncrementIfEquals
    <3> QED  BY <3>1, <2>1, <1>2, PassFail DEF Ends
  <2>2. CASE Cur(w) # c
    <3>1. IncrementIfEquals(c, s) = Fail(w)  BY <1>2, <2>2 DEF IncrementIfEquals
    <3> QED  BY <3>1, <1>1, PassFail DEF Ends
  <2> QED  BY <2>1, <2>2
<1>3. s.obj > 0 => Ends(s, ObjectMaybeEnd(s), 1, 0)
  BY <1>1, <1>2, CloseAdvance DEF ObjectMaybeEnd
<1>4. s.arr > 0 => Ends(s, ArrayMaybeEnd(s), 0, 1)
  BY <1>1, <1>2, CloseAdvance DEF ArrayMaybeEnd
<1> QED  BY <1>3, <1>4

\* A separator goes on at the same level, closes it, or breaks.
Separates(s, r, o, a) ==
  \/ r.sep = "cont" /\ Same(s, r.s)
  \/ r.sep = "ended" /\ Closed(s, r.s, o, a)
  \/ r.sep = "error" /\ Broken(r.s)

\* A separator goes on, ends one level or records an error.
LEMMA SeparatorSeparates ==
  ASSUME DocOk, NEW s, Sound(s)
  PROVE  /\ s.obj > 0 => Separates(s, CollectSeparator("}", s), 1, 0)
         /\ s.arr > 0 => Separates(s, CollectSeparator("]", s), 0, 1)
<1> DEFINE w == SkipWhitespace(s)
<1>1. Same(s, w) /\ Sound(w) /\ Placed(w)  BY SkipWhitespaceSame DEF Same, Sound
<1>2. "missing_comma" \in ParseStatuses  BY DEF ParseStatuses
<1>3. Broken(Reject(w, "missing_comma"))  BY <1>1, <1>2, RejectBroken
<1>4. ASSUME Cur(w) = ","  PROVE Same(s, SkipWhitespace(Advance(w)))
  <2>1. Cur(w) # "end"  BY <1>4
  <2>2. Same(w, Advance(w))  BY <1>1, <2>1, AdvanceSame
  <2>3. Same(Advance(w), SkipWhitespace(Advance(w)))  BY <2>2, SkipWhitespaceSame DEF Same
  <2> QED  BY <1>1, <2>2, <2>3, SameTrans
<1>5. ASSUME NEW c, c \in {"}", "]"}, NEW o, NEW a,
             Cur(w) = c => Closed(s, Advance(Nest(w, c)), o, a)
      PROVE  Separates(s, CollectSeparator(c, s), o, a)
  <2>1. CASE Cur(w) = ","
    <3>1. CollectSeparator(c, s) = [sep |-> "cont", s |-> SkipWhitespace(Advance(w))]
      BY <2>1 DEF CollectSeparator
    <3>2. /\ CollectSeparator(c, s).sep = "cont"
          /\ CollectSeparator(c, s).s = SkipWhitespace(Advance(w))
      BY <3>1
    <3>3. Same(s, SkipWhitespace(Advance(w)))  BY <2>1, <1>4
    <3> QED  BY <3>2, <3>3 DEF Separates
  <2>2. CASE Cur(w) # "," /\ Cur(w) = c
    <3>1. CollectSeparator(c, s) = [sep |-> "ended", s |-> Advance(Nest(w, c))]
      BY <2>2 DEF CollectSeparator
    <3>2. /\ CollectSeparator(c, s).sep = "ended"
          /\ CollectSeparator(c, s).s = Advance(Nest(w, c))
      BY <3>1
    <3>3. Closed(s, Advance(Nest(w, c)), o, a)  BY <2>2, <1>5
    <3> QED  BY <3>2, <3>3 DEF Separates
  <2>3. CASE Cur(w) # "," /\ Cur(w) # c
    <3>1. CollectSeparator(c, s) = [sep |-> "error", s |-> Reject(w, "missing_comma")]
      BY <2>3 DEF CollectSeparator
    <3> QED  BY <3>1, <1>3 DEF Separates
  <2> QED  BY <2>1, <2>2, <2>3
<1>6. s.obj > 0 => Separates(s, CollectSeparator("}", s), 1, 0)
  BY <1>1, <1>5, CloseAdvance
<1>7. s.arr > 0 => Separates(s, CollectSeparator("]", s), 0, 1)
  BY <1>1, <1>5, CloseAdvance
<1> QED  BY <1>6, <1>7

\* Strings, keys and scalars open and close nothing.
LEMMA SkipStringAnswers ==
  ASSUME DocOk, NEW s, Sound(s), Cur(s) # "end"
  PROVE  Answers(s, SkipString(s))
<1>1. Same(s, Advance(s))  BY AdvanceSame
<1>2. Broken(Reject(Advance(s), "unexpected_string_end"))
  BY <1>1, RejectBroken DEF Same, Sound, ParseStatuses
<1> QED  BY <1>1, <1>2, PassFail DEF SkipString, Answers

\* The string and the colon of an unregistered key.
LEMMA SkipKeyAnswers ==
  ASSUME DocOk, NEW s, Sound(s)
  PROVE  Answers(s, SkipKey(s))
<1> DEFINE q == SkipString(s)
<1>1. CASE ~AtQuote(s)
  <2>1. Broken(Reject(s, "missing_key_start"))
    BY RejectBroken DEF Sound, ParseStatuses
  <2>2. SkipKey(s) = Fail(Reject(s, "missing_key_start"))  BY <1>1 DEF SkipKey
  <2> QED  BY <2>1, <2>2, PassFail DEF Answers
<1>2. CASE AtQuote(s)
  <2>1. Cur(s) # "end"  BY <1>2, KeysAssumption DEF AtQuote
  <2>2. Answers(s, q)  BY <2>1, SkipStringAnswers
  <2>3. SkipKey(s) = IF q.ok THEN CollectColon(q.s) ELSE q  BY <1>2 DEF SkipKey
  <2>4. CASE q.ok
    <3>1. Same(s, q.s) /\ Sound(q.s)  BY <2>2, <2>4 DEF Answers, Same
    <3>2. Answers(q.s, CollectColon(q.s))  BY <3>1, CollectAnswers
    <3> QED  BY <2>3, <2>4, <3>1, <3>2, SameTrans DEF Answers
  <2>5. CASE ~q.ok
    BY <2>2, <2>3, <2>5
  <2> QED  BY <2>4, <2>5
<1> QED  BY <1>1, <1>2

\* A key that does not match leaves the cursor on it.
LEMMA KeyMatchAnswers ==
  ASSUME DocOk, NEW s, Sound(s), NEW k, k \in Keys
  PROVE  KeyMatch(k, s).hit => Answers(s, KeyMatch(k, s))
<1> DEFINE m == KeyMatch(k, s)
           p == Pos(s)
           fused == ~Structural /\ Lex(p + 1) = ":" /\ p + 2 <= Len(doc.text)
           colon == CollectColon(Advance(s))
<1> SUFFICES ASSUME m.hit  PROVE Answers(s, m)  OBVIOUS
<1>1. Cur(s) = k  BY DEF KeyMatch
<1>2. Cur(s) # "end"  BY <1>1, KeysAssumption
<1>3. Same(s, Advance(s)) /\ Sound(Advance(s))  BY <1>2, AdvanceSame DEF Same
<1>4. CASE fused
  <2>1. m.ok /\ m.s = Advance(Advance(s))  BY <1>1, <1>4 DEF KeyMatch
  <2>2. Advance(s).iter <= Limit
    <3>1. s.iter = p /\ Limit = Len(doc.text)  BY <1>4 DEF Pos, Limit
    <3>2. p + 1 <= Len(doc.text) /\ p \in Nat
      BY <1>4, <3>1 DEF DocOk, Sound, Placed, IterState
    <3>3. Advance(s).iter = s.iter + 1  BY DEF Advance, Sound, Placed, IterState
    <3> QED  BY <3>1, <3>2, <3>3
  <2>3. Same(Advance(s), Advance(Advance(s)))  BY <1>3, <2>2, AdvanceInside
  <2> QED  BY <1>3, <2>1, <2>3, SameTrans DEF Answers
<1>5. CASE ~fused
  <2>1. m.ok = colon.ok /\ m.s = colon.s  BY <1>1, <1>5 DEF KeyMatch
  <2>2. Answers(Advance(s), colon)  BY <1>3, CollectAnswers
  <2> QED  BY <1>3, <2>1, <2>2, SameTrans DEF Answers
<1> QED  BY <1>4, <1>5

\* The parsers of scalars open and close nothing, and answer as they record.
LEMMA StringAnswers ==
  ASSUME DocOk, NEW s, Sound(s)
  PROVE  Answers(s, IterateString(s))
<1> DEFINE w == SkipWhitespace(s)
<1>1. Same(s, w) /\ Sound(w) /\ Placed(w)  BY SkipWhitespaceSame DEF Same, Sound
<1>2. Broken(Reject(w, "invalid_string_characters"))  BY <1>1, RejectBroken DEF ParseStatuses
<1>3. Cur(w) \in Keys => Same(s, Advance(w))
  BY <1>1, AdvanceSame, SameTrans, KeysAssumption
<1> QED  BY <1>2, <1>3, PassFail DEF IterateString, Answers

\* As StringAnswers, of null.
LEMMA NullAnswers ==
  ASSUME DocOk, NEW s, Sound(s)
  PROVE  Answers(s, IterateNull(s))
<1> DEFINE w == SkipWhitespace(s)
<1>1. Same(s, w) /\ Sound(w) /\ Placed(w)  BY SkipWhitespaceSame DEF Same, Sound
<1>2. Broken(Reject(w, "invalid_null_value"))  BY <1>1, RejectBroken DEF ParseStatuses
<1>3. Cur(w) = "null" => Same(s, Advance(w))
  <2> SUFFICES ASSUME Cur(w) = "null"  PROVE Same(s, Advance(w))  OBVIOUS
  <2>1. Cur(w) # "end"  OBVIOUS
  <2> QED  BY <1>1, <2>1, AdvanceSame, SameTrans
<1> QED  BY <1>2, <1>3, PassFail DEF IterateNull, Answers

\* As StringAnswers, of a bool, below the root and at it.
LEMMA BoolAnswers ==
  ASSUME DocOk, NEW s, Sound(s)
  PROVE  Answers(s, IterateBool(s)) /\ Answers(s, IterateRootBool(s))
<1> DEFINE w == SkipWhitespace(s)
<1>1. Same(s, w) /\ Sound(w) /\ Placed(w) /\ Placed(s)
  BY SkipWhitespaceSame DEF Same, Sound
<1>2. "invalid_bool_value" \in ParseStatuses  BY DEF ParseStatuses
<1>3. Broken(Reject(w, "invalid_bool_value")) /\ Broken(Reject(s, "invalid_bool_value"))
  BY <1>1, <1>2, RejectBroken
<1>4. ASSUME NEW q, Sound(q), Cur(q) = "true"  PROVE Same(q, Advance(q))
  <2>1. Cur(q) # "end"  BY <1>4
  <2> QED  BY <1>4, <2>1, AdvanceSame
<1>5. Answers(s, IterateBool(s))
  BY <1>1, <1>3, <1>4, SameTrans, PassFail DEF IterateBool, Answers
<1>6. Answers(s, IterateRootBool(s))
  <2>1. CASE Cur(s) = "true" /\ EndsAfter(Pos(s))
    <3>1. IterateRootBool(s) = Pass(Advance(s))  BY <2>1 DEF IterateRootBool
    <3>2. Same(s, Advance(s))  BY <2>1, <1>4
    <3> QED  BY <3>1, <3>2, PassFail DEF Answers
  <2>2. CASE ~(Cur(s) = "true" /\ EndsAfter(Pos(s)))
    <3>1. IterateRootBool(s) = Fail(Reject(s, "invalid_bool_value"))
      BY <2>2 DEF IterateRootBool
    <3> QED  BY <3>1, <1>3, PassFail DEF Answers
  <2> QED  BY <2>1, <2>2
<1> QED  BY <1>5, <1>6

\* As StringAnswers, of a number below the root.
LEMMA NumberAnswers ==
  ASSUME DocOk, NEW s, Sound(s)
  PROVE  Answers(s, IterateNumber(s))
<1> DEFINE w == SkipWhitespace(s)
<1>1. Same(s, w) /\ Sound(w) /\ Placed(w)  BY SkipWhitespaceSame DEF Same, Sound
<1>2. "invalid_number_value" \in ParseStatuses /\ "missing_comma" \in ParseStatuses
  BY DEF ParseStatuses
<1>3. Broken(Reject(w, "invalid_number_value")) /\ Broken(Reject(w, "missing_comma"))
  BY <1>1, <1>2, RejectBroken
<1>4. Cur(w) = "num" => Same(s, Advance(w))
  <2> SUFFICES ASSUME Cur(w) = "num"  PROVE Same(s, Advance(w))  OBVIOUS
  <2>1. Cur(w) # "end"  OBVIOUS
  <2> QED  BY <1>1, <2>1, AdvanceSame, SameTrans
<1> QED  BY <1>3, <1>4, PassFail DEF IterateNumber, NumberOfText, NumberOfTape, Answers

\* The root's number parser may say no and leave the iterator sound.
LEMMA RootNumberAnswers ==
  ASSUME DocOk, NEW s, Sound(s)
  PROVE  /\ \/ Same(s, IterateRootNumber(s).s)
            \/ ~IterateRootNumber(s).ok /\ Broken(IterateRootNumber(s).s)
         /\ IterateRootNumber(s).ok \in BOOLEAN
<1>1. Placed(s)  BY DEF Sound
<1>2. "invalid_number_value" \in ParseStatuses /\ "unfinished_input" \in ParseStatuses
  BY DEF ParseStatuses
<1>3. CASE Cur(s) # "num"
  <2>1. Broken(Reject(s, "invalid_number_value"))  BY <1>1, <1>2, RejectBroken
  <2>2. IterateRootNumber(s) = Fail(Reject(s, "invalid_number_value"))
    BY <1>3 DEF IterateRootNumber
  <2> QED  BY <2>1, <2>2, PassFail
<1>4. CASE Cur(s) = "num"
  <2>1. Cur(s) # "end"  BY <1>4
  <2>2. Same(s, Advance(s)) /\ Sound(Advance(s)) /\ Placed(Advance(s))
    BY <2>1, AdvanceSame DEF Same, Sound
  <2>3. Broken(Reject(Advance(s), "unfinished_input"))  BY <1>2, <2>2, RejectBroken
  <2>4. Same(s, SkipWhitespace(Advance(s)))  BY <2>2, SkipWhitespaceSame, SameTrans
  <2>5. CASE Structural
    <3>1. \/ IterateRootNumber(s) = Pass(Advance(s))
          \/ IterateRootNumber(s) = Fail(Reject(Advance(s), "unfinished_input"))
      BY <1>4, <2>5 DEF IterateRootNumber
    <3> QED  BY <3>1, <2>2, <2>3, PassFail
  <2>6. CASE ~Structural
    <3>1. IterateRootNumber(s) = [ok |-> EndsAfter(Pos(s)), s |-> SkipWhitespace(Advance(s))]
      BY <1>4, <2>6 DEF IterateRootNumber
    <3>2. IterateRootNumber(s).s = SkipWhitespace(Advance(s))  BY <3>1
    <3>3. IterateRootNumber(s).ok = EndsAfter(Pos(s))  BY <3>1
    <3>4. EndsAfter(Pos(s)) \in BOOLEAN  BY DEF EndsAfter
    <3> QED  BY <3>2, <3>3, <3>4, <2>4
  <2> QED  BY <2>5, <2>6
<1> QED  BY <1>3, <1>4

\* checkIfDone accepts only with both counters back at zero.
LEMMA CheckIfDonePlaced ==
  ASSUME DocOk, NEW s, Placed(s)
  PROVE  /\ Placed(CheckIfDone(s))
         /\ CheckIfDone(s).errors = <<>> =>
              s.errors = <<>> /\ CheckIfDone(s).obj = 0 /\ CheckIfDone(s).arr = 0
<1> DEFINE w == SkipWhitespace(s)
<1>1. Placed(w) /\ w.errors = s.errors
  <2>1. CASE Cur(s) = "ws"
    <3>1. Cur(s) # "end"  BY <2>1
    <3>2. s.iter \in 1..Limit /\ Limit \in Nat  BY <3>1, NotEnd DEF DocOk, Limit
    <3>3. Advance(s) \in IterState /\ Advance(s).iter = s.iter + 1 /\ Advance(s).errors = s.errors
      BY DEF Advance, Placed, IterState
    <3>4. s.iter + 1 \in 1..(Limit + 1)  BY <3>2
    <3>5. Placed(Advance(s))  BY <3>3, <3>4 DEF Placed
    <3> QED  BY <3>3, <3>5 DEF SkipWhitespace
  <2>2. CASE Cur(s) # "ws"
    BY <2>2 DEF SkipWhitespace
  <2> QED  BY <2>1, <2>2
<1>2. Broken(Reject(w, "unfinished_input"))  BY <1>1, RejectBroken DEF ParseStatuses
<1> QED  BY <1>1, <1>2 DEF CheckIfDone, Broken

-------------------------------------------------------------------------------
(***************************************************************************)
(* The stack: how many activations of objects and of arrays it holds.      *)
(***************************************************************************)
ObjectKinds == {"object", "map"}
ArrayKinds  == {"vector", "array", "tuple"}

ObjectCount(fs) == Cardinality(ObjectFrames(fs))
ArrayCount(fs) == Cardinality(ArrayFrames(fs))

\* An activation more is one object or one array more.
LEMMA CountAppend ==
  ASSUME NEW fs \in Seq(Frames), NEW f \in Frames
  PROVE  /\ ObjectCount(fs) \in Nat /\ ArrayCount(fs) \in Nat
         /\ Kind(f.type) \in ObjectKinds =>
              ObjectCount(Append(fs, f)) = ObjectCount(fs) + 1 /\ ArrayCount(Append(fs, f)) = ArrayCount(fs)
         /\ Kind(f.type) \in ArrayKinds =>
              ObjectCount(Append(fs, f)) = ObjectCount(fs) /\ ArrayCount(Append(fs, f)) = ArrayCount(fs) + 1
<1> DEFINE n == Len(fs)
           gs == Append(fs, f)
<1>1. n \in Nat /\ Len(gs) = n + 1 /\ gs[n + 1] = f /\ \A i \in 1..n : gs[i] = fs[i]
  OBVIOUS
<1>2. IsFiniteSet(1..n)  BY <1>1, FS_Interval
<1>3. /\ ObjectFrames(fs) \subseteq 1..n /\ ArrayFrames(fs) \subseteq 1..n
  BY DEF ObjectFrames, ArrayFrames
<1>4. IsFiniteSet(ObjectFrames(fs)) /\ IsFiniteSet(ArrayFrames(fs))
  BY <1>2, <1>3, FS_Subset
<1>5. ObjectCount(fs) \in Nat /\ ArrayCount(fs) \in Nat
  BY <1>4, FS_CardinalityType DEF ObjectCount, ArrayCount
<1>6. n + 1 \notin ObjectFrames(fs) /\ n + 1 \notin ArrayFrames(fs)  BY <1>1, <1>3
<1>7. 1..(n + 1) = (1..n) \cup {n + 1}  BY <1>1
<1>8. ASSUME Kind(f.type) \in ObjectKinds
      PROVE  ObjectCount(gs) = ObjectCount(fs) + 1 /\ ArrayCount(gs) = ArrayCount(fs)
  <2>1. ObjectFrames(gs) = ObjectFrames(fs) \cup {n + 1}
    BY <1>1, <1>7, <1>8 DEF ObjectFrames, ObjectKinds
  <2>2. ArrayFrames(gs) = ArrayFrames(fs)
    BY <1>1, <1>7, <1>8 DEF ArrayFrames, ObjectKinds
  <2> QED  BY <2>1, <2>2, <1>4, <1>6, FS_AddElement DEF ObjectCount, ArrayCount
<1>9. ASSUME Kind(f.type) \in ArrayKinds
      PROVE  ObjectCount(gs) = ObjectCount(fs) /\ ArrayCount(gs) = ArrayCount(fs) + 1
  <2>1. ArrayFrames(gs) = ArrayFrames(fs) \cup {n + 1}
    BY <1>1, <1>7, <1>9 DEF ArrayFrames, ArrayKinds
  <2>2. ObjectFrames(gs) = ObjectFrames(fs)
    BY <1>1, <1>7, <1>9 DEF ObjectFrames, ArrayKinds
  <2> QED  BY <2>1, <2>2, <1>4, <1>6, FS_AddElement DEF ObjectCount, ArrayCount
<1> QED  BY <1>5, <1>8, <1>9

\* A stack is what is below its top and the top.
LEMMA RestTop ==
  ASSUME stack \in Seq(Frames), stack # <<>>
  PROVE  /\ Rest \in Seq(Frames) /\ Top \in Frames /\ Len(Rest) + 1 = Len(stack)
         /\ \A i \in 1..Len(Rest) : Rest[i] = stack[i]
         /\ stack = Append(Rest, Top)
<1>1. Len(stack) \in Nat \ {0}  OBVIOUS
<1> DEFINE n == Len(stack) - 1
<1> n \in Nat /\ n <= Len(stack)  BY <1>1
<1>2. \A i \in 1..n : stack[i] \in Frames  BY <1>1
<1>3. /\ Rest \in Seq(Frames) /\ Len(Rest) = n
      /\ \A i \in 1..n : Rest[i] = stack[i]
  <2>1. /\ SubSeq(stack, 1, n) \in Seq(Frames)
        /\ Len(SubSeq(stack, 1, n)) = IF 1 <= n THEN n - 1 + 1 ELSE 0
        /\ \A i \in 1..(n - 1 + 1) : SubSeq(stack, 1, n)[i] = stack[1 + i - 1]
    BY <1>2, SubSeqProperties
  <2>2. Rest = SubSeq(stack, 1, n)  BY DEF Rest
  <2> HIDE DEF n
  <2>3. n \in Nat  BY DEF n
  <2>4. Rest \in Seq(Frames)  BY <2>1, <2>2
  <2>5. Len(Rest) = n  BY <2>1, <2>2, <2>3
  <2>6. ASSUME NEW i \in 1..n  PROVE Rest[i] = stack[i]
    <3>1. i \in 1..(n - 1 + 1) /\ 1 + i - 1 = i  BY <2>3
    <3>2. SubSeq(stack, 1, n)[i] = stack[1 + i - 1]  BY <2>1, <3>1
    <3> QED  BY <2>2, <3>1, <3>2
  <2> QED  BY <2>4, <2>5, <2>6
<1>4. Top \in Frames  BY <1>1 DEF Top
<1>5. Append(Rest, Top) \in Seq(Frames) /\ Len(Append(Rest, Top)) = n + 1
  BY <1>3, <1>4
<1>6. \A i \in 1..(n + 1) : Append(Rest, Top)[i] = stack[i]
  BY <1>1, <1>3, <1>4 DEF Top
<1>7. stack = Append(Rest, Top)  BY <1>1, <1>5, <1>6
<1> QED  BY <1>1, <1>3, <1>4, <1>7

-------------------------------------------------------------------------------
(***************************************************************************)
(* The inductive invariant.                                                *)
(***************************************************************************)
ContainerKinds == ObjectKinds \cup ArrayKinds

\* An object's or a tuple's slot is one of its members while it is used as such.
SlotOk(f) ==
  /\ Kind(f.type) = "object" /\ f.stage \in {"slot", "key", "member", "unknown"} =>
       f.slot \in 1..MemberCount(f.type)
  /\ Kind(f.type) = "tuple" /\ f.stage = "element" => f.slot \in 1..MemberCount(f.type)

FrameOk(f) ==
  /\ Kind(f.type) \in ContainerKinds /\ f.learn \in 0..MemberCount(f.type)
  /\ SlotOk(f)

FramesOk == \A i \in 1..Len(stack) : FrameOk(stack[i])

\* DepthCounts, and every active parser is of an object or of an array.
Counted ==
  it.errors = <<>> => /\ it.obj = ObjectCount(stack) /\ it.arr = ArrayCount(stack)
                      /\ it.obj + it.arr = Len(stack)

KeyOk  == ctl = "call" /\ callee = Key => stack # <<>>
IdleOk == ctl \in {"idle", "root"} => stack = <<>>

\* skipValue's bracket count is zero only before the first bracket.
SkipOk == ctl = "skip" /\ depth = 0 => Cur(it) \in {"{", "["}

StackOk == FramesOk /\ Counted /\ NestingBounded

IInv == TypeOK /\ StackOk /\ ErrorsAgree /\ KeyOk /\ IdleOk /\ SkipOk

HashOk ==
  /\ DOMAIN antiHash = ObjectTypes
  /\ \A t \in ObjectTypes : antiHash[t] \in [1..MemberCount(t) -> 1..MemberCount(t)]

(***************************************************************************)
(* What a step of a parse does to the stack and the iterator together.     *)
(***************************************************************************)
Held   == \/ stack' = stack
          \/ /\ stack # <<>>
             /\ \E f \in Frames : FrameOk(f) /\ f.type = Top.type /\ stack' = Retop(f)
Popped == stack # <<>> /\ stack' = Rest

Stays  == Sound(it) /\ Same(it, it') /\ Held
Breaks == Broken(it') /\ (Held \/ Popped)
Pushes ==
  /\ Sound(it)
  /\ \E f \in Frames :
       /\ FrameOk(f) /\ stack' = Append(stack, f)
       /\ \/ Kind(f.type) \in ObjectKinds /\ Opened(it, it', 1, 0)
          \/ Kind(f.type) \in ArrayKinds /\ Opened(it, it', 0, 1)
Pops ==
  /\ Sound(it) /\ Popped
  /\ \/ Kind(Top.type) \in ObjectKinds /\ Closed(it, it', 1, 0)
     \/ Kind(Top.type) \in ArrayKinds /\ Closed(it, it', 0, 1)

Moves == Stays \/ Breaks \/ Pushes \/ Pops

\* What the lemmas above ask of the state.
LEMMA TypeParts ==
  ASSUME TypeOK
  PROVE  DocOk /\ Placed(it) /\ stack \in Seq(Frames) /\ HashOk
  BY DEF TypeOK, DocOk, Placed, HashOk

\* Retop keeps the counts.
LEMMA RetopCounts ==
  ASSUME stack \in Seq(Frames), FramesOk, stack # <<>>,
         NEW f \in Frames, FrameOk(f), f.type = Top.type
  PROVE  /\ Retop(f) \in Seq(Frames) /\ Len(Retop(f)) = Len(stack)
         /\ \A i \in 1..Len(Retop(f)) : FrameOk(Retop(f)[i])
         /\ ObjectCount(Retop(f)) = ObjectCount(stack) /\ ArrayCount(Retop(f)) = ArrayCount(stack)
<1>1. /\ Rest \in Seq(Frames) /\ Top \in Frames /\ Len(Rest) + 1 = Len(stack)
      /\ \A i \in 1..Len(Rest) : Rest[i] = stack[i]
      /\ stack = Append(Rest, Top)
  BY RestTop
<1>2. Retop(f) = Append(Rest, f)  BY DEF Retop
<1>3. Retop(f) \in Seq(Frames) /\ Len(Retop(f)) = Len(stack)  BY <1>1, <1>2
<1>4. ASSUME NEW i \in 1..Len(Retop(f))  PROVE FrameOk(Retop(f)[i])
  <2>1. CASE i = Len(stack)
    <3>1. Retop(f)[i] = f  BY <1>1, <1>2, <2>1
    <3> QED  BY <3>1
  <2>2. CASE i # Len(stack)
    <3>1. i \in 1..Len(Rest) /\ i \in 1..Len(stack)  BY <1>1, <1>3, <2>2
    <3>2. Retop(f)[i] = stack[i]  BY <1>1, <1>2, <3>1
    <3> QED  BY <3>1, <3>2 DEF FramesOk
  <2> QED  BY <2>1, <2>2
<1>5. Kind(f.type) = Kind(Top.type)  OBVIOUS
<1>6. Kind(f.type) \in ObjectKinds \/ Kind(f.type) \in ArrayKinds
  BY DEF FrameOk, ContainerKinds
<1>7. ObjectCount(Retop(f)) = ObjectCount(stack) /\ ArrayCount(Retop(f)) = ArrayCount(stack)
  BY <1>1, <1>2, <1>5, <1>6, CountAppend
<1> QED  BY <1>3, <1>4, <1>7

\* So does every step, and maxDepth still bounds the stack.
LEMMA MovesStack ==
  ASSUME TypeOK, StackOk, Moves, doc' = doc, opts' = opts
  PROVE  /\ it' \in IterState /\ it'.iter \in 1..(Limit' + 1)
         /\ stack' \in Seq(Frames) /\ StackOk'
<1>1. DocOk /\ Placed(it) /\ stack \in Seq(Frames)  BY TypeParts
<1>2. Limit' = Limit  BY DEF Limit, Structural
<1>3. Placed(it')  BY DEF Moves, Stays, Breaks, Pushes, Pops, Same, Sound, Broken, Opened, Closed
<1>4. it' \in IterState /\ it'.iter \in 1..(Limit' + 1)  BY <1>2, <1>3 DEF Placed
<1>5. FramesOk /\ NestingBounded  BY DEF StackOk
<1>6. Len(stack) \in Nat /\ MaxDepth \in Nat  BY <1>1, DepthAssumption
<1>7. ASSUME Held
      PROVE  /\ stack' \in Seq(Frames) /\ FramesOk' /\ NestingBounded' /\ Len(stack') = Len(stack)
             /\ ObjectCount(stack') = ObjectCount(stack) /\ ArrayCount(stack') = ArrayCount(stack)
  <2>1. CASE stack' = stack
    BY <1>1, <1>5, <2>1 DEF FramesOk, NestingBounded, FrameOk, SlotOk
  <2>2. CASE stack # <<>> /\ \E f \in Frames : FrameOk(f) /\ f.type = Top.type /\ stack' = Retop(f)
    <3>1. PICK f \in Frames : FrameOk(f) /\ f.type = Top.type /\ stack' = Retop(f)  BY <2>2
    <3>2. /\ Retop(f) \in Seq(Frames) /\ Len(Retop(f)) = Len(stack)
          /\ \A i \in 1..Len(Retop(f)) : FrameOk(Retop(f)[i])
          /\ ObjectCount(Retop(f)) = ObjectCount(stack) /\ ArrayCount(Retop(f)) = ArrayCount(stack)
      BY <1>1, <1>5, <2>2, <3>1, RetopCounts
    <3> QED  BY <3>1, <3>2, <1>5 DEF FramesOk, NestingBounded
  <2> QED  BY <1>7, <2>1, <2>2 DEF Held
<1>8. ASSUME Popped
      PROVE  /\ stack' \in Seq(Frames) /\ FramesOk' /\ NestingBounded' /\ Len(stack') + 1 = Len(stack)
             /\ stack = Append(stack', Top) /\ Top \in Frames
  <2>1. /\ Rest \in Seq(Frames) /\ Top \in Frames /\ Len(Rest) + 1 = Len(stack)
        /\ \A i \in 1..Len(Rest) : Rest[i] = stack[i]
        /\ stack = Append(Rest, Top)
    BY <1>1, <1>8, RestTop DEF Popped
  <2>2. stack' = Rest /\ Len(Rest) \in Nat  BY <1>8, <2>1 DEF Popped
  <2>3. \A i \in 1..Len(Rest) : FrameOk(Rest[i])
    BY <1>5, <1>6, <2>1, <2>2 DEF FramesOk
  <2> QED  BY <1>5, <1>6, <2>1, <2>2, <2>3 DEF FramesOk, NestingBounded
<1>9. CASE Stays
  <2>1. Counted'  BY <1>7, <1>9 DEF Stays, Same, Sound, StackOk, Counted
  <2> QED  BY <1>4, <1>7, <1>9, <2>1 DEF Stays, StackOk
<1>10. CASE Breaks
  <2>1. Counted'  BY <1>10 DEF Breaks, Broken, Counted
  <2> QED  BY <1>4, <1>7, <1>8, <1>10, <2>1 DEF Breaks, StackOk
<1>11. CASE Pushes
  <2>1. PICK f \in Frames :
          /\ FrameOk(f) /\ stack' = Append(stack, f)
          /\ \/ Kind(f.type) \in ObjectKinds /\ Opened(it, it', 1, 0)
             \/ Kind(f.type) \in ArrayKinds /\ Opened(it, it', 0, 1)
    BY <1>11 DEF Pushes
  <2>2. it.errors = <<>> /\ it.obj \in Nat /\ it.arr \in Nat
    BY <1>11 DEF Pushes, Sound, Placed, IterState
  <2>3. it.obj = ObjectCount(stack) /\ it.arr = ArrayCount(stack) /\ it.obj + it.arr = Len(stack)
    BY <2>2 DEF StackOk, Counted
  <2>4. /\ stack' \in Seq(Frames) /\ Len(stack') = Len(stack) + 1
        /\ \A i \in 1..Len(stack') : stack'[i] = IF i = Len(stack) + 1 THEN f ELSE stack[i]
    BY <1>1, <2>1
  <2>5. FramesOk'
    <3>1. ASSUME NEW i \in 1..Len(stack')  PROVE FrameOk(stack'[i])
      <4>1. CASE i = Len(stack) + 1
        BY <2>1, <2>4, <4>1
      <4>2. CASE i # Len(stack) + 1
        <5>1. i \in 1..Len(stack) /\ stack'[i] = stack[i]  BY <1>6, <2>4, <4>2
        <5> QED  BY <1>5, <5>1 DEF FramesOk
      <4> QED  BY <4>1, <4>2
    <3> QED  BY <3>1 DEF FramesOk
  <2>6. Len(stack) < MaxDepth  BY <2>1, <2>3 DEF Opened
  <2>7. NestingBounded'  BY <1>6, <2>4, <2>6 DEF NestingBounded
  <2>8. /\ Kind(f.type) \in ObjectKinds =>
              ObjectCount(stack') = ObjectCount(stack) + 1 /\ ArrayCount(stack') = ArrayCount(stack)
        /\ Kind(f.type) \in ArrayKinds =>
              ObjectCount(stack') = ObjectCount(stack) /\ ArrayCount(stack') = ArrayCount(stack) + 1
    BY <1>1, <2>1, CountAppend
  <2>9. Counted'
    <3>1. CASE Kind(f.type) \in ObjectKinds /\ Opened(it, it', 1, 0)
      BY <1>6, <2>2, <2>3, <2>4, <2>8, <3>1 DEF Opened, Counted
    <3>2. CASE Kind(f.type) \in ArrayKinds /\ Opened(it, it', 0, 1)
      BY <1>6, <2>2, <2>3, <2>4, <2>8, <3>2 DEF Opened, Counted
    <3> QED  BY <2>1, <3>1, <3>2
  <2> QED  BY <1>4, <2>4, <2>5, <2>7, <2>9 DEF StackOk
<1>12. CASE Pops
  <2>1. /\ stack' \in Seq(Frames) /\ FramesOk' /\ NestingBounded' /\ Len(stack') + 1 = Len(stack)
        /\ stack = Append(stack', Top) /\ Top \in Frames
    BY <1>8, <1>12 DEF Pops
  <2>2. it.errors = <<>> /\ it.obj \in Nat /\ it.arr \in Nat
    BY <1>12 DEF Pops, Sound, Placed, IterState
  <2>3. it.obj = ObjectCount(stack) /\ it.arr = ArrayCount(stack) /\ it.obj + it.arr = Len(stack)
    BY <2>2 DEF StackOk, Counted
  <2>4. /\ ObjectCount(stack') \in Nat /\ ArrayCount(stack') \in Nat /\ Len(stack') \in Nat
        /\ Kind(Top.type) \in ObjectKinds =>
              ObjectCount(stack) = ObjectCount(stack') + 1 /\ ArrayCount(stack) = ArrayCount(stack')
        /\ Kind(Top.type) \in ArrayKinds =>
              ObjectCount(stack) = ObjectCount(stack') /\ ArrayCount(stack) = ArrayCount(stack') + 1
    BY <2>1, CountAppend
  <2>5. Counted'
    <3>1. CASE Kind(Top.type) \in ObjectKinds /\ Closed(it, it', 1, 0)
      BY <2>1, <2>2, <2>3, <2>4, <3>1 DEF Closed, Counted
    <3>2. CASE Kind(Top.type) \in ArrayKinds /\ Closed(it, it', 0, 1)
      BY <2>1, <2>2, <2>3, <2>4, <3>2 DEF Closed, Counted
    <3> QED  BY <1>12, <3>1, <3>2 DEF Pops
  <2> QED  BY <1>4, <2>1, <2>5 DEF StackOk
<1> QED  BY <1>9, <1>10, <1>11, <1>12 DEF Moves

(***************************************************************************)
(* What it does to the control: it goes on or answers.                     *)
(***************************************************************************)
Rigid ==
  /\ UNCHANGED <<doc, opts, target, result, parses>>
  /\ skipped' \in BOOLEAN /\ hashed' \in BOOLEAN /\ depth' \in Nat /\ HashOk'

GoesOn ==
  /\ it'.errors = <<>> /\ ret' = ret
  /\ \/ ctl' = "call" /\ callee' \in Types \cup {Skip}
     \/ ctl' = "call" /\ callee' = Key /\ stack' # <<>>
     \/ ctl' \in {"object", "array", "skip", "scan"} /\ callee' = callee

Returns ==
  /\ ctl' = "return" /\ ret' \in BOOLEAN /\ callee' = callee
  /\ stack' # <<>> => (ret' <=> it'.errors = <<>>)

Outcome == Moves /\ (GoesOn \/ Returns) /\ SkipOk'

\* A step with one of these outcomes keeps the invariant.
LEMMA OutcomeKeeps ==
  ASSUME IInv, Rigid, Outcome
  PROVE  IInv'
<1>1. doc' = doc /\ opts' = opts /\ TypeOK /\ StackOk  BY DEF Rigid, IInv
<1>2. Moves /\ (GoesOn \/ Returns) /\ SkipOk'  BY DEF Outcome
<1>3. /\ it' \in IterState /\ it'.iter \in 1..(Limit' + 1)
      /\ stack' \in Seq(Frames) /\ StackOk'
  BY <1>1, <1>2, MovesStack
<1>4. /\ ctl' \in {"idle", "root", "call", "return", "object", "array", "skip", "scan"}
      /\ callee' \in Types \cup {Skip, Key} /\ ret' \in BOOLEAN
      /\ KeyOk' /\ IdleOk' /\ ErrorsAgree'
  <2>1. callee \in Types \cup {Skip, Key} /\ ret \in BOOLEAN  BY <1>1 DEF TypeOK
  <2>2. CASE GoesOn
    <3>1. ctl' \in {"call", "object", "array", "skip", "scan"}  BY <2>2 DEF GoesOn
    <3>2. IdleOk' /\ ErrorsAgree'  BY <2>2, <3>1 DEF GoesOn, IdleOk, ErrorsAgree
    <3>3. callee' \in Types \cup {Skip, Key} /\ ret' \in BOOLEAN  BY <2>1, <2>2 DEF GoesOn
    <3>4. Key \notin Types \cup {Skip}  BY TypesAssumption DEF Key, Skip
    <3>5. KeyOk'  BY <2>2, <3>4 DEF GoesOn, KeyOk
    <3> QED  BY <3>1, <3>2, <3>3, <3>5
  <2>3. CASE Returns
    BY <2>1, <2>3 DEF Returns, KeyOk, IdleOk, ErrorsAgree
  <2> QED  BY <1>2, <2>2, <2>3
<1>5. TypeOK'
  BY <1>1, <1>3, <1>4 DEF Rigid, HashOk, TypeOK
<1> QED  BY <1>2, <1>3, <1>4, <1>5 DEF IInv

(***************************************************************************)
(* The ways a step ends, as the actions write them.                        *)
(***************************************************************************)
\* Entering another parser.
LEMMA CallOutcome ==
  ASSUME Sound(it), NEW s, Same(it, s), Held, NEW t, Call(t, s),
         t \in Types \cup {Skip} \/ (t = Key /\ stack' # <<>>)
  PROVE  Outcome
<1>1. it' = s /\ ctl' = "call" /\ callee' = t /\ ret' = ret  BY DEF Call
<1>2. Moves  BY <1>1 DEF Moves, Stays
<1>3. it'.errors = <<>>  BY <1>1 DEF Same, Sound
<1>4. GoesOn  BY <1>1, <1>3 DEF GoesOn
<1>5. SkipOk'  BY <1>1 DEF SkipOk
<1> QED  BY <1>2, <1>4, <1>5 DEF Outcome

\* Going on where the iterator is sound, whatever runs next.
LEMMA ContinueMoves ==
  ASSUME Sound(it), NEW s, Same(it, s), Held, NEW w, Continue(w, s)
  PROVE  /\ Moves /\ ctl' = w /\ it' = s
         /\ w \in {"object", "array", "skip", "scan"} => GoesOn
<1>1. it' = s /\ ctl' = w /\ callee' = callee /\ ret' = ret  BY DEF Continue
<1>2. Moves  BY <1>1 DEF Moves, Stays
<1>3. it'.errors = <<>>  BY <1>1 DEF Same, Sound
<1>4. w \in {"object", "array", "skip", "scan"} => GoesOn  BY <1>1, <1>3 DEF GoesOn
<1> QED  BY <1>1, <1>2, <1>4

\* Going on in a container or in a scalar that is skipped.
LEMMA ContinueOutcome ==
  ASSUME Sound(it), NEW s, Same(it, s), Held,
         Continue("object", s) \/ Continue("array", s) \/ Continue("scan", s)
  PROVE  Outcome
<1>1. Moves /\ GoesOn /\ ctl' # "skip"  BY ContinueMoves
<1> QED  BY <1>1 DEF Outcome, SkipOk

\* Answering FALSE with an error recorded.
LEMMA BreakOutcome ==
  ASSUME NEW s, Broken(s), Held \/ Popped, NEW no, no = FALSE, Return(no, s)
  PROVE  Outcome
<1>1. it' = s /\ ctl' = "return" /\ callee' = callee /\ ret' = FALSE  BY DEF Return
<1>2. Moves  BY <1>1 DEF Moves, Breaks
<1>3. Returns  BY <1>1 DEF Returns, Broken
<1> QED  BY <1>1, <1>2, <1>3 DEF Outcome, SkipOk

\* Answering TRUE at the level of the call.
LEMMA YesOutcome ==
  ASSUME Sound(it), NEW s, Same(it, s), Held, NEW yes, yes = TRUE, Return(yes, s)
  PROVE  Outcome
<1>1. it' = s /\ ctl' = "return" /\ callee' = callee /\ ret' = TRUE  BY DEF Return
<1>2. Moves  BY <1>1 DEF Moves, Stays
<1>3. Returns  BY <1>1 DEF Returns, Same, Sound
<1> QED  BY <1>1, <1>2, <1>3 DEF Outcome, SkipOk

\* Answering what an operation answered.
LEMMA AnswerOutcome ==
  ASSUME Sound(it), NEW r, Answers(it, r), Held, Return(r.ok, r.s)
  PROVE  Outcome
<1>1. CASE r.ok
  <2>1. r.ok = TRUE /\ Same(it, r.s)  BY <1>1 DEF Answers
  <2> QED  BY <2>1, YesOutcome
<1>2. CASE ~r.ok
  <2>1. r.ok = FALSE /\ Broken(r.s)  BY <1>2 DEF Answers
  <2> QED  BY <2>1, BreakOutcome
<1> QED  BY <1>1, <1>2

\* The end of an activation: its level is closed, or there is an error.
LEMMA PopOutcome ==
  ASSUME NEW s, NEW answer, stack # <<>>, PopReturn(answer, s),
         \/ Broken(s) /\ answer = FALSE
         \/ /\ answer = TRUE /\ Sound(it)
            /\ \/ Kind(Top.type) \in ObjectKinds /\ Closed(it, s, 1, 0)
               \/ Kind(Top.type) \in ArrayKinds /\ Closed(it, s, 0, 1)
  PROVE  Outcome
<1>1. Return(answer, s) /\ Popped  BY DEF PopReturn, Popped
<1>2. CASE Broken(s) /\ answer = FALSE
  BY <1>1, <1>2, BreakOutcome
<1>3. CASE /\ answer = TRUE /\ Sound(it)
           /\ \/ Kind(Top.type) \in ObjectKinds /\ Closed(it, s, 1, 0)
              \/ Kind(Top.type) \in ArrayKinds /\ Closed(it, s, 0, 1)
  <2>1. it' = s /\ ctl' = "return" /\ callee' = callee /\ ret' = TRUE
    BY <1>1, <1>3 DEF Return
  <2>2. Moves  BY <1>1, <1>3, <2>1 DEF Moves, Pops
  <2>3. it'.errors = <<>>  BY <1>3, <2>1 DEF Closed, Sound
  <2>4. Returns  BY <2>1, <2>3 DEF Returns
  <2> QED  BY <2>1, <2>2, <2>4 DEF Outcome, SkipOk
<1> QED  BY <1>2, <1>3

-------------------------------------------------------------------------------
(***************************************************************************)
(* The actions, each with its outcome.                                     *)
(***************************************************************************)
\* What the invariant says of the iterator while a parse is in progress.
LEMMA Facts ==
  ASSUME IInv
  PROVE  /\ DocOk /\ Placed(it) /\ stack \in Seq(Frames) /\ HashOk
         /\ ctl \notin {"return", "idle"} => Sound(it)
         /\ ctl = "return" /\ stack # <<>> =>
              ret \in BOOLEAN /\ (ret => Sound(it)) /\ (~ret => Broken(it))
<1>1. DocOk /\ Placed(it) /\ stack \in Seq(Frames) /\ HashOk  BY TypeParts DEF IInv
<1>2. ErrorsAgree /\ ret \in BOOLEAN  BY DEF IInv, TypeOK
<1>3. ctl \notin {"return", "idle"} => Sound(it)  BY <1>1, <1>2 DEF ErrorsAgree, Sound
<1>4. ctl = "return" /\ stack # <<>> =>
        ret \in BOOLEAN /\ (ret => Sound(it)) /\ (~ret => Broken(it))
  BY <1>1, <1>2 DEF ErrorsAgree, Sound, Broken
<1> QED  BY <1>1, <1>3, <1>4

\* The activation on top, and that its level is counted.
LEMMA TopFacts ==
  ASSUME IInv, stack # <<>>
  PROVE  /\ Top \in Frames /\ FrameOk(Top) /\ Top.type \in Types
         /\ Sound(it) /\ Kind(Top.type) \in ObjectKinds => it.obj > 0
         /\ Sound(it) /\ Kind(Top.type) \in ArrayKinds => it.arr > 0
<1>1. stack \in Seq(Frames) /\ FramesOk /\ Counted  BY Facts DEF IInv, StackOk
<1>2. /\ Rest \in Seq(Frames) /\ Top \in Frames
      /\ stack = Append(Rest, Top)
  BY <1>1, RestTop
<1>3. FrameOk(Top)  BY <1>1 DEF FramesOk, Top
<1>4. Top.type \in Types  BY <1>2 DEF Frames
<1>5. /\ ObjectCount(Rest) \in Nat /\ ArrayCount(Rest) \in Nat
      /\ Kind(Top.type) \in ObjectKinds => ObjectCount(stack) = ObjectCount(Rest) + 1
      /\ Kind(Top.type) \in ArrayKinds => ArrayCount(stack) = ArrayCount(Rest) + 1
  BY <1>2, CountAppend
<1>6. Sound(it) => it.obj = ObjectCount(stack) /\ it.arr = ArrayCount(stack)
  BY <1>1 DEF Sound, Counted
<1> QED  BY <1>2, <1>3, <1>4, <1>5, <1>6

\* A stack left alone.
LEMMA HeldSame == ASSUME stack' = stack PROVE Held
  BY DEF Held

\* A stack whose top is another activation of the same type.
LEMMA HeldTop ==
  ASSUME stack # <<>>, NEW f, f \in Frames, FrameOk(f), f.type = Top.type, stack' = Retop(f)
  PROVE  Held /\ stack' # <<>>
<1>1. Held  BY DEF Held
<1>2. Retop(f) # <<>>  BY DEF Retop
<1> QED  BY <1>1, <1>2

\* What the schema says of a type.
LEMMA SchemaFacts ==
  ASSUME NEW t, t \in Types
  PROVE  /\ MemberCount(t) \in Nat /\ Schema[t].elem \in Types
         /\ \A i \in 1..MemberCount(t) : Members(t)[i].type \in Types /\ KeyOf(t, i) \in Keys
         /\ \A i \in 1..Len(Schema[t].alts) : Schema[t].alts[i] \in Types
<1>1. Schema[t] \in TypeRecords  BY TypesAssumption
<1>2. /\ Members(t) \in Seq([key : Keys, type : Types]) /\ Schema[t].elem \in Types
      /\ Schema[t].alts \in Seq(Types)
  BY <1>1 DEF TypeRecords, Members
<1>3. \A S : \A q \in Seq(S) : Len(q) \in Nat /\ \A i \in 1..Len(q) : q[i] \in S
  OBVIOUS
<1>4. /\ Len(Members(t)) \in Nat
      /\ \A i \in 1..Len(Members(t)) : Members(t)[i] \in [key : Keys, type : Types]
      /\ \A i \in 1..Len(Schema[t].alts) : Schema[t].alts[i] \in Types
  BY <1>2, <1>3
<1>5. \A m \in [key : Keys, type : Types] : m.key \in Keys /\ m.type \in Types
  OBVIOUS
<1> QED  BY <1>2, <1>4, <1>5 DEF MemberCount, KeyOf

-------------------------------------------------------------------------------
\* parse_impl of a number, bool, null or string.
LEMMA ScalarOutcome ==
  ASSUME IInv, ParseScalar
  PROVE  Outcome
<1> DEFINE r == Scalar(callee)
<1>1. DocOk /\ Sound(it)  BY Facts DEF ParseScalar, Entering
<1>2. Return(r.ok, r.s) /\ Held  BY HeldSame DEF ParseScalar
<1>3. Kind(callee) \in {"num", "bool", "null", "string"}  BY DEF ParseScalar, Entering
<1>4. CASE ctl = "root" /\ Kind(callee) = "num"
  <2>1. r = IterateRootNumber(it)  BY <1>4 DEF Scalar
  <2>2. Same(it, r.s) \/ (~r.ok /\ Broken(r.s))  BY <1>1, <2>1, RootNumberAnswers
  <2>3. r.ok \in BOOLEAN  BY <1>1, <2>1, RootNumberAnswers
  <2>4. stack = <<>> /\ stack' = <<>>  BY <1>4 DEF IInv, IdleOk, ParseScalar
  <2>5. it' = r.s /\ ctl' = "return" /\ ret' = r.ok /\ callee' = callee  BY <1>2 DEF Return
  <2>6. Moves  BY <1>1, <1>2, <2>2, <2>5 DEF Moves, Stays, Breaks
  <2>7. Returns  BY <2>3, <2>4, <2>5 DEF Returns
  <2> QED  BY <2>5, <2>6, <2>7 DEF Outcome, SkipOk
<1>5. CASE ~(ctl = "root" /\ Kind(callee) = "num")
  <2>1. \/ r = IterateNumber(it) \/ r = IterateRootBool(it) \/ r = IterateBool(it)
        \/ r = IterateNull(it) \/ r = IterateString(it)
    BY <1>3, <1>5 DEF Scalar
  <2>2. Answers(it, r)
    BY <1>1, <2>1, NumberAnswers, BoolAnswers, NullAnswers, StringAnswers
  <2> HIDE DEF r
  <2> QED  BY <1>1, <1>2, <2>2, AnswerOutcome
<1> QED  BY <1>4, <1>5

\* The key of a map.
LEMMA KeyOutcome ==
  ASSUME IInv, ParseKey
  PROVE  Outcome
<1> DEFINE r == IterateString(it)
           p == Pos(SkipWhitespace(it))
           f == [Top EXCEPT !.label = p]
<1>1. DocOk /\ Sound(it) /\ stack # <<>>  BY Facts DEF ParseKey, IInv, KeyOk
<1>2. Return(r.ok, r.s) /\ stack' = Retop(f)  BY DEF ParseKey
<1>3. Answers(it, r)  BY <1>1, StringAnswers
<1>4. p \in Nat
  <2>1. Placed(SkipWhitespace(it))  BY <1>1, SkipWhitespaceSame DEF Same, Sound
  <2> QED  BY <1>1, <2>1 DEF Pos, Placed, IterState, DocOk
<1>5. Top \in Frames /\ FrameOk(Top)  BY <1>1, TopFacts
<1>6. f \in Frames /\ f.type = Top.type /\ f.stage = Top.stage /\ f.slot = Top.slot /\ f.learn = Top.learn
  BY <1>4, <1>5 DEF Frames
<1>7. FrameOk(f)  BY <1>5, <1>6 DEF FrameOk, SlotOk
<1>8. Held  BY <1>1, <1>2, <1>6, <1>7, HeldTop
<1> QED  BY <1>1, <1>2, <1>3, <1>8, AnswerOutcome

\* parse_impl of an optional or a pointer.
LEMMA OptionalOutcome ==
  ASSUME IInv, ParseOptional
  PROVE  Outcome
<1> DEFINE s == SkipWhitespace(it)
           r == IterateNull(s)
<1>1. DocOk /\ Sound(it) /\ callee \in Types  BY Facts DEF ParseOptional, Entering
<1>2. Same(it, s) /\ Sound(s)  BY <1>1, SkipWhitespaceSame DEF Same
<1>3. Held  BY HeldSame DEF ParseOptional
<1>4. CASE NotAtEndPre(s) /\ Cur(s) # "null"
  <2>1. Call(Schema[callee].elem, s)  BY <1>4 DEF ParseOptional
  <2>2. Schema[callee].elem \in Types \cup {Skip}  BY <1>1, SchemaFacts
  <2> QED  BY <1>1, <1>2, <1>3, <2>1, <2>2, CallOutcome
<1>5. CASE ~(NotAtEndPre(s) /\ Cur(s) # "null")
  <2>1. Return(r.ok, r.s)  BY <1>5 DEF ParseOptional
  <2>2. Answers(s, r)  BY <1>1, <1>2, NullAnswers
  <2>3. Answers(it, r)  BY <1>2, <2>2, SameTrans DEF Answers
  <2> QED  BY <1>1, <1>3, <2>1, <2>3, AnswerOutcome
<1> QED  BY <1>4, <1>5

\* parse_impl of a variant, its default included.
LEMMA VariantOutcome ==
  ASSUME IInv, ParseVariant
  PROVE  Outcome
<1> DEFINE s    == SkipWhitespace(it)
           alts == Schema[callee].alts
<1>1. DocOk /\ Sound(it) /\ callee \in Types  BY Facts DEF ParseVariant, Entering
<1>2. Same(it, s) /\ Placed(s)  BY <1>1, SkipWhitespaceSame DEF Same, Sound
<1>3. Held  BY HeldSame DEF ParseVariant
<1>4. \/ Return(FALSE, Reject(s, "unexpected_end_of_input"))
      \/ Return(TRUE, s)
      \/ Return(FALSE, Reject(s, "unexpected_token"))
      \/ \E i \in 1..Len(alts) : Call(alts[i], s)
  BY DEF ParseVariant
<1>5. Broken(Reject(s, "unexpected_end_of_input")) /\ Broken(Reject(s, "unexpected_token"))
  BY <1>2, RejectBroken DEF ParseStatuses
<1>6. ASSUME NEW i \in 1..Len(alts), Call(alts[i], s)  PROVE Outcome
  <2>1. alts[i] \in Types \cup {Skip}  BY <1>1, SchemaFacts
  <2> QED  BY <1>1, <1>2, <1>3, <1>6, <2>1, CallOutcome
<1> QED  BY <1>1, <1>2, <1>3, <1>4, <1>5, <1>6, BreakOutcome, YesOutcome

\* parse_impl of skip_t.
LEMMA SkipTypeOutcome ==
  ASSUME IInv, ParseSkip
  PROVE  Outcome
<1>1. Sound(it)  BY Facts DEF ParseSkip, Entering
<1>2. Same(it, it)  BY <1>1 DEF Same
<1>3. Call(Skip, it) /\ Held  BY HeldSame DEF ParseSkip
<1> QED  BY <1>1, <1>2, <1>3, CallOutcome

\* The entry of skipValue.
LEMMA SkipValueOutcome ==
  ASSUME IInv, SkipValue
  PROVE  Outcome
<1> DEFINE s == SkipWhitespace(it)
           q == SkipString(s)
<1>1. DocOk /\ Sound(it)  BY Facts DEF SkipValue
<1>2. Same(it, s) /\ Sound(s) /\ Placed(s)  BY <1>1, SkipWhitespaceSame DEF Same, Sound
<1>3. Held  BY HeldSame DEF SkipValue
<1>4. CASE ~NotAtEndPre(s)
  <2>1. Return(FALSE, Reject(s, "unexpected_end_of_input"))  BY <1>4 DEF SkipValue
  <2>2. Broken(Reject(s, "unexpected_end_of_input"))  BY <1>2, RejectBroken DEF ParseStatuses
  <2> QED  BY <1>3, <2>1, <2>2, BreakOutcome
<1>5. CASE NotAtEndPre(s) /\ Cur(s) \in {"{", "["}
  <2>0. ~AtQuote(s)  BY <1>5, KeysAssumption DEF AtQuote, Marks
  <2>1. Continue("skip", s)  BY <1>5, <2>0 DEF SkipValue
  <2>2. Moves /\ it' = s /\ GoesOn  BY <1>1, <1>2, <1>3, <2>1, ContinueMoves
  <2>3. UNCHANGED <<doc, opts>>  BY DEF SkipValue, static, callVars
  <2>4. Cur(it)' = Cur(s)  BY <2>2, <2>3 DEF Cur, Lex, Pos, Structural
  <2> QED  BY <1>5, <2>2, <2>4 DEF Outcome, SkipOk
<1>6. CASE NotAtEndPre(s) /\ Cur(s) \notin {"{", "["} /\ Structural
  <2>1. Return(TRUE, Advance(s))  BY <1>6 DEF SkipValue
  <2>2. Same(it, Advance(s))  BY <1>1, <1>2, <1>6, AdvanceInside, SameTrans DEF NotAtEndPre
  <2> QED  BY <1>1, <1>3, <2>1, <2>2, YesOutcome
<1>7. CASE NotAtEndPre(s) /\ Cur(s) \notin {"{", "["} /\ ~Structural /\ AtQuote(s)
  <2>1. Return(q.ok, q.s)  BY <1>7 DEF SkipValue
  <2>2. Cur(s) # "end"  BY <1>7, KeysAssumption DEF AtQuote
  <2>3. Answers(s, q)  BY <1>1, <1>2, <2>2, SkipStringAnswers
  <2>4. Answers(it, q)  BY <1>2, <2>3, SameTrans DEF Answers
  <2> QED  BY <1>1, <1>3, <2>1, <2>4, AnswerOutcome
<1>8. CASE NotAtEndPre(s) /\ Cur(s) \notin {"{", "["} /\ ~Structural /\ ~AtQuote(s)
  <2>1. Continue("scan", s)  BY <1>8 DEF SkipValue
  <2> QED  BY <1>1, <1>2, <1>3, <2>1, ContinueOutcome
<1> QED  BY <1>4, <1>5, <1>6, <1>7, <1>8

\* One character of a skipped scalar.
LEMMA SkipScalarOutcome ==
  ASSUME IInv, SkipScalar
  PROVE  Outcome
<1>1. DocOk /\ Sound(it)  BY Facts DEF SkipScalar
<1>2. Same(it, it)  BY <1>1 DEF Same
<1>3. Held  BY HeldSame DEF SkipScalar
<1>4. CASE Cur(it) \in {",", "]", "}", "end", "ws"}
  <2>1. Return(TRUE, it)  BY <1>4 DEF SkipScalar
  <2> QED  BY <1>1, <1>2, <1>3, <2>1, YesOutcome
<1>5. CASE Cur(it) \notin {",", "]", "}", "end", "ws"}
  <2>1. Continue("scan", Advance(it))  BY <1>5 DEF SkipScalar
  <2>2. Cur(it) # "end"  BY <1>5
  <2>3. Same(it, Advance(it))  BY <1>1, <2>2, AdvanceSame
  <2> QED  BY <1>1, <1>3, <2>1, <2>3, ContinueOutcome
<1> QED  BY <1>4, <1>5

\* Both the step's outcome and that the bracket count stays a natural number.
LEMMA SkipBracketedOutcome ==
  ASSUME IInv, SkipBracketed
  PROVE  Outcome /\ depth' \in Nat
<1> DEFINE c == Cur(it)
           q == SkipString(it)
<1>1. DocOk /\ Sound(it) /\ Placed(it)  BY Facts DEF SkipBracketed
<1>2. depth \in Nat /\ (depth = 0 => c \in {"{", "["})
  BY DEF SkipBracketed, IInv, TypeOK, SkipOk
<1>3. Held  BY HeldSame DEF SkipBracketed
<1>4. CASE ~NotAtEndPre(it)
  <2>1. Return(FALSE, Reject(it, "unexpected_string_end")) /\ depth' = depth
    BY <1>4 DEF SkipBracketed
  <2>2. Broken(Reject(it, "unexpected_string_end"))  BY <1>1, RejectBroken DEF ParseStatuses
  <2> QED  BY <1>2, <1>3, <2>1, <2>2, BreakOutcome
<1>5. CASE NotAtEndPre(it) /\ AtQuote(it) /\ ~Structural
  <2>1. c # "end" /\ c \notin {"{", "[", "}", "]"}
    BY <1>5, KeysAssumption DEF AtQuote, Marks
  <2>2. /\ IF q.ok THEN Continue("skip", q.s) ELSE Return(FALSE, q.s)
        /\ depth' = depth
    BY <1>5, <2>1 DEF SkipBracketed
  <2>3. Answers(it, q)  BY <1>1, <2>1, SkipStringAnswers
  <2>4. CASE q.ok
    <3>1. Same(it, q.s) /\ Continue("skip", q.s)  BY <2>2, <2>3, <2>4 DEF Answers
    <3>2. Moves /\ GoesOn  BY <1>1, <1>3, <3>1, ContinueMoves
    <3> QED  BY <1>2, <2>1, <2>2, <3>2 DEF Outcome, SkipOk
  <2>5. CASE ~q.ok
    <3>1. Broken(q.s) /\ Return(FALSE, q.s)  BY <2>2, <2>3, <2>5 DEF Answers
    <3> QED  BY <1>2, <1>3, <2>2, <3>1, BreakOutcome
  <2> QED  BY <2>4, <2>5
<1>6. CASE NotAtEndPre(it) /\ ~(AtQuote(it) /\ ~Structural)
  <2>1. Same(it, Advance(it))  BY <1>1, <1>6, AdvanceInside DEF NotAtEndPre
  <2>2. CASE c \in {"{", "["}
    <3>1. Continue("skip", Advance(it)) /\ depth' = depth + 1  BY <1>6, <2>2 DEF SkipBracketed
    <3>2. Moves /\ GoesOn  BY <1>1, <1>3, <2>1, <3>1, ContinueMoves
    <3>3. depth' \in Nat /\ depth' # 0
      <4>1. depth \in Nat /\ depth' = depth + 1  BY <1>2, <3>1
      <4> QED  BY <4>1
    <3> QED  BY <3>2, <3>3 DEF Outcome, SkipOk
  <2>3. CASE c \in {"}", "]"}
    <3>1. /\ depth' = depth - 1
          /\ IF depth = 1 THEN Return(TRUE, Advance(it)) ELSE Continue("skip", Advance(it))
      BY <1>6, <2>3 DEF SkipBracketed
    <3>2. depth # 0  BY <1>2, <2>3
    <3>3. depth' \in Nat /\ (depth # 1 => depth' # 0)
      <4>1. depth \in Nat /\ depth # 0 /\ depth' = depth - 1  BY <1>2, <3>1, <3>2
      <4> QED  BY <4>1
    <3>4. CASE depth = 1
      BY <1>1, <1>3, <2>1, <3>1, <3>3, <3>4, YesOutcome
    <3>5. CASE depth # 1
      <4>1. Moves /\ GoesOn  BY <1>1, <1>3, <2>1, <3>1, <3>5, ContinueMoves
      <4>2. depth' # 0  BY <3>3, <3>5
      <4> QED  BY <3>3, <4>1, <4>2 DEF Outcome, SkipOk
    <3> QED  BY <3>4, <3>5
  <2>4. CASE c \notin {"{", "[", "}", "]"}
    <3>1. Continue("skip", Advance(it)) /\ depth' = depth  BY <1>6, <2>4 DEF SkipBracketed
    <3>2. Moves /\ GoesOn  BY <1>1, <1>3, <2>1, <3>1, ContinueMoves
    <3>3. depth # 0  BY <1>2, <2>4
    <3> QED  BY <1>2, <3>1, <3>2, <3>3 DEF Outcome, SkipOk
  <2> QED  BY <2>2, <2>3, <2>4
<1> QED  BY <1>4, <1>5, <1>6

-------------------------------------------------------------------------------
(***************************************************************************)
(* Containers open alike.                                                  *)
(***************************************************************************)
\* A fresh activation.
LEMMA NewFrameOk ==
  ASSUME NEW t, t \in Types, Kind(t) \in ContainerKinds, NEW stage, stage \in Stages,
         SlotOk(NewFrame(t, stage))
  PROVE  NewFrame(t, stage) \in Frames /\ FrameOk(NewFrame(t, stage)) /\ NewFrame(t, stage).type = t
<1>1. MemberCount(t) \in Nat  BY SchemaFacts
<1>2. NewFrame(t, stage) \in Frames /\ NewFrame(t, stage).type = t /\ NewFrame(t, stage).learn = 0
  BY DEF NewFrame, Frames
<1> QED  BY <1>1, <1>2 DEF FrameOk

\* Opened and at once closed: the levels are as before.
LEMMA OpenedClosed ==
  ASSUME NEW s, NEW r, NEW q, Sound(s), Sound(r),
         (Opened(s, r, 1, 0) /\ Closed(r, q, 1, 0)) \/ (Opened(s, r, 0, 1) /\ Closed(r, q, 0, 1))
  PROVE  Same(s, q)
  BY DEF Opened, Closed, Same, Sound, Placed, IterState

\* A level stays open while nothing is opened or closed.
LEMMA OpenedSame ==
  ASSUME NEW s, NEW r, NEW q, NEW o, NEW a, Opened(s, r, o, a), Same(r, q)
  PROVE  Opened(s, q, o, a)
  BY DEF Opened, Same

\* A container that opens: refused, empty, or one activation more.
LEMMA OpenOutcome ==
  ASSUME IInv, ctl \in {"root", "call"}, callee \in Types,
         NEW r, NEW e, NEW stage, stage \in Stages, SlotOk(NewFrame(callee, stage)),
         NEW w, w \in {"object", "array"},
         \/ /\ Kind(callee) \in ObjectKinds /\ Opens(it, r, 1, 0)
            /\ Opened(it, r.s, 1, 0) => Ends(r.s, e, 1, 0)
         \/ /\ Kind(callee) \in ArrayKinds /\ Opens(it, r, 0, 1)
            /\ Opened(it, r.s, 0, 1) => Ends(r.s, e, 0, 1),
         \/ ~r.ok /\ Return(FALSE, r.s) /\ stack' = stack
         \/ r.ok /\ e.ok /\ Return(TRUE, e.s) /\ stack' = stack
         \/ /\ r.ok /\ ~e.ok /\ stack' = Append(stack, NewFrame(callee, stage))
            /\ Continue(w, e.s)
  PROVE  Outcome
<1> DEFINE f == NewFrame(callee, stage)
<1>1. Sound(it)  BY Facts
<1>2. f \in Frames /\ FrameOk(f) /\ f.type = callee
  BY NewFrameOk DEF ContainerKinds
<1>3. CASE ~r.ok
  <2>1. Broken(r.s) /\ Return(FALSE, r.s) /\ Held  BY <1>3, HeldSame DEF Opens
  <2> QED  BY <2>1, BreakOutcome
<1>4. CASE r.ok /\ e.ok
  <2>1. Sound(r.s)  BY <1>4 DEF Opens, Opened
  <2>2. Same(it, e.s)  BY <1>1, <1>4, <2>1, OpenedClosed DEF Opens, Ends
  <2>3. Return(TRUE, e.s) /\ Held  BY <1>4, HeldSame
  <2> QED  BY <1>1, <2>2, <2>3, YesOutcome
<1>5. CASE r.ok /\ ~e.ok
  <2>1. Continue(w, e.s) /\ stack' = Append(stack, f)  BY <1>5
  <2>2. it' = e.s /\ ctl' = w /\ callee' = callee /\ ret' = ret  BY <2>1 DEF Continue
  <2>3. \/ Kind(f.type) \in ObjectKinds /\ Opened(it, it', 1, 0)
        \/ Kind(f.type) \in ArrayKinds /\ Opened(it, it', 0, 1)
    BY <1>2, <1>5, <2>2, OpenedSame DEF Opens, Ends
  <2>4. Moves  BY <1>1, <1>2, <2>1, <2>3 DEF Moves, Pushes
  <2>5. it'.errors = <<>>  BY <2>3 DEF Opened, Sound
  <2>6. GoesOn  BY <2>2, <2>5 DEF GoesOn
  <2> QED  BY <2>2, <2>4, <2>6 DEF Outcome, SkipOk
<1> QED  BY <1>3, <1>4, <1>5

\* The level an opening bracket opens can be closed.
LEMMA OpenedPositive ==
  ASSUME IInv, NEW r, Sound(it)
  PROVE  /\ Opened(it, r, 1, 0) => r.obj > 0 /\ Sound(r)
         /\ Opened(it, r, 0, 1) => r.arr > 0 /\ Sound(r)
  BY DEF Opened, Sound, Placed, IterState

\* The start and the possible end of an object, and of an array.
LEMMA StartEnd ==
  ASSUME IInv, ctl \in {"root", "call"}
  PROVE  /\ Opens(it, ObjectStart(it), 1, 0)
         /\ Opened(it, ObjectStart(it).s, 1, 0) => Ends(ObjectStart(it).s, ObjectMaybeEnd(ObjectStart(it).s), 1, 0)
         /\ Opens(it, ArrayStart(it), 0, 1)
         /\ Opened(it, ArrayStart(it).s, 0, 1) => Ends(ArrayStart(it).s, ArrayMaybeEnd(ArrayStart(it).s), 0, 1)
<1>1. DocOk /\ Sound(it)  BY Facts
<1> QED  BY <1>1, StartOpens, OpenedPositive, MaybeEndEnds

\* The start of every container.
LEMMA ContainerOpens ==
  ASSUME IInv, ParseObject \/ ParseMap \/ ParseVector \/ ParseArray \/ ParseTuple
  PROVE  Outcome
<1>1. ctl \in {"root", "call"} /\ callee \in Types
  BY DEF ParseObject, ParseMap, ParseVector, ParseArray, ParseTuple, Open, Entering
<1>2. MemberCount(callee) \in Nat  BY <1>1, SchemaFacts
<1> DEFINE r  == ObjectStart(it)
           e  == ObjectMaybeEnd(r.s)
           ra == ArrayStart(it)
           ea == ArrayMaybeEnd(ra.s)
<1>3. /\ Opens(it, r, 1, 0) /\ (Opened(it, r.s, 1, 0) => Ends(r.s, e, 1, 0))
      /\ Opens(it, ra, 0, 1) /\ (Opened(it, ra.s, 0, 1) => Ends(ra.s, ea, 0, 1))
  BY <1>1, StartEnd
<1>4. \A st \in Stages : /\ NewFrame(callee, st).type = callee /\ NewFrame(callee, st).stage = st
                         /\ NewFrame(callee, st).slot = 1
  BY DEF NewFrame
<1>5. CASE ParseObject
  <2> DEFINE st == IF MemberCount(callee) = 0 THEN "rest" ELSE "slot"
  <2>1. Kind(callee) = "object"  BY <1>5 DEF ParseObject, Open, Entering
  <2>2. st \in Stages  BY DEF Stages
  <2>3. SlotOk(NewFrame(callee, st))  BY <1>2, <1>4, <2>1, <2>2 DEF SlotOk
  <2>4. \/ ~r.ok /\ Return(FALSE, r.s) /\ stack' = stack
        \/ r.ok /\ e.ok /\ Return(TRUE, e.s) /\ stack' = stack
        \/ /\ r.ok /\ ~e.ok /\ stack' = Append(stack, NewFrame(callee, st))
           /\ Continue("object", e.s)
    BY <1>5 DEF ParseObject, Open
  <2> HIDE DEF st, r, e
  <2> QED  BY <1>1, <1>3, <2>1, <2>2, <2>3, <2>4, OpenOutcome DEF ObjectKinds
<1>6. CASE ParseMap
  <2> DEFINE st == "mapkey"
  <2>1. Kind(callee) = "map"  BY <1>6 DEF ParseMap, Open, Entering
  <2>2. st \in Stages  BY DEF Stages
  <2>3. SlotOk(NewFrame(callee, st))  BY <1>2, <1>4, <2>1, <2>2 DEF SlotOk
  <2>4. \/ ~r.ok /\ Return(FALSE, r.s) /\ stack' = stack
        \/ r.ok /\ e.ok /\ Return(TRUE, e.s) /\ stack' = stack
        \/ /\ r.ok /\ ~e.ok /\ stack' = Append(stack, NewFrame(callee, st))
           /\ Continue("object", e.s)
    BY <1>6 DEF ParseMap, Open
  <2> HIDE DEF st, r, e
  <2> QED  BY <1>1, <1>3, <2>1, <2>2, <2>3, <2>4, OpenOutcome DEF ObjectKinds
<1>7. CASE ParseVector
  <2> DEFINE st == "element"
  <2>1. Kind(callee) = "vector"  BY <1>7 DEF ParseVector, Open, Entering
  <2>2. st \in Stages  BY DEF Stages
  <2>3. SlotOk(NewFrame(callee, st))  BY <1>2, <1>4, <2>1, <2>2 DEF SlotOk
  <2>4. \/ ~ra.ok /\ Return(FALSE, ra.s) /\ stack' = stack
        \/ ra.ok /\ ea.ok /\ Return(TRUE, ea.s) /\ stack' = stack
        \/ /\ ra.ok /\ ~ea.ok /\ stack' = Append(stack, NewFrame(callee, st))
           /\ Continue("array", ea.s)
    BY <1>7 DEF ParseVector, Open
  <2> HIDE DEF st, ra, ea
  <2> QED  BY <1>1, <1>3, <2>1, <2>2, <2>3, <2>4, OpenOutcome DEF ArrayKinds
<1>8. CASE ParseArray
  <2> DEFINE st == "element"
  <2>1. Kind(callee) = "array"  BY <1>8 DEF ParseArray, Open, Entering
  <2>2. st \in Stages  BY DEF Stages
  <2>3. SlotOk(NewFrame(callee, st))  BY <1>2, <1>4, <2>1, <2>2 DEF SlotOk
  <2>4. \/ ~ra.ok /\ Return(FALSE, ra.s) /\ stack' = stack
        \/ ra.ok /\ ea.ok /\ Return(TRUE, ea.s) /\ stack' = stack
        \/ /\ ra.ok /\ ~ea.ok /\ stack' = Append(stack, NewFrame(callee, st))
           /\ Continue("array", ea.s)
    BY <1>8 DEF ParseArray, Open
  <2> HIDE DEF st, ra, ea
  <2> QED  BY <1>1, <1>3, <2>1, <2>2, <2>3, <2>4, OpenOutcome DEF ArrayKinds
<1>9. CASE ParseTuple
  <2> DEFINE st == IF MemberCount(callee) = 0 THEN "extra" ELSE "element"
  <2>1. Kind(callee) = "tuple"  BY <1>9 DEF ParseTuple, Open, Entering
  <2>2. st \in Stages  BY DEF Stages
  <2>3. SlotOk(NewFrame(callee, st))  BY <1>2, <1>4, <2>1, <2>2 DEF SlotOk
  <2>4. \/ ~ra.ok /\ Return(FALSE, ra.s) /\ stack' = stack
        \/ ra.ok /\ ea.ok /\ Return(TRUE, ea.s) /\ stack' = stack
        \/ /\ ra.ok /\ ~ea.ok /\ stack' = Append(stack, NewFrame(callee, st))
           /\ Continue("array", ea.s)
    BY <1>9 DEF ParseTuple, Open
  <2> HIDE DEF st, ra, ea
  <2> QED  BY <1>1, <1>3, <2>1, <2>2, <2>3, <2>4, OpenOutcome DEF ArrayKinds
<1> QED  BY <1>5, <1>6, <1>7, <1>8, <1>9

-------------------------------------------------------------------------------
(***************************************************************************)
(* What the actions of an activation share.                                *)
(***************************************************************************)
\* The activation on top is the one that runs.
LEMMA RunningFacts ==
  ASSUME IInv, NEW w, NEW k, NEW st, Running(w, k, st)
  PROVE  /\ ctl = w /\ stack # <<>> /\ Kind(Top.type) = k /\ Top.stage = st
         /\ Top \in Frames /\ FrameOk(Top) /\ Top.type \in Types /\ DocOk
<1>1. ctl = w /\ stack # <<>> /\ Kind(Top.type) = k /\ Top.stage = st  BY DEF Running
<1> QED  BY <1>1, TopFacts, Facts

\* Inside an object or map its closing brace may come.
LEMMA ObjectEnds ==
  ASSUME IInv, stack # <<>>, Kind(Top.type) \in ObjectKinds, Sound(it)
  PROVE  /\ Ends(it, ObjectMaybeEnd(it), 1, 0)
         /\ Separates(it, CollectSeparator("}", it), 1, 0)
<1>1. DocOk /\ it.obj > 0  BY Facts, TopFacts
<1> QED  BY <1>1, MaybeEndEnds, SeparatorSeparates

\* Inside an array, vector or tuple its closing bracket may come.
LEMMA ArrayEnds ==
  ASSUME IInv, stack # <<>>, Kind(Top.type) \in ArrayKinds, Sound(it)
  PROVE  /\ Ends(it, ArrayMaybeEnd(it), 0, 1)
         /\ Separates(it, CollectSeparator("]", it), 0, 1)
<1>1. DocOk /\ it.arr > 0  BY Facts, TopFacts
<1> QED  BY <1>1, MaybeEndEnds, SeparatorSeparates

\* The answer of an activation that a nested parser or a separator has ended.
LEMMA ObjectPops ==
  ASSUME NEW s, NEW answer, stack # <<>>, Kind(Top.type) \in ObjectKinds, PopReturn(answer, s),
         \/ Broken(s) /\ answer = FALSE
         \/ answer = TRUE /\ Sound(it) /\ Closed(it, s, 1, 0)
  PROVE  Outcome
  BY PopOutcome

\* The same of an array.
LEMMA ArrayPops ==
  ASSUME NEW s, NEW answer, stack # <<>>, Kind(Top.type) \in ArrayKinds, PopReturn(answer, s),
         \/ Broken(s) /\ answer = FALSE
         \/ answer = TRUE /\ Sound(it) /\ Closed(it, s, 0, 1)
  PROVE  Outcome
  BY PopOutcome

\* The slots stop: at an error, or because the object has ended.
LEMMA SlotsStopOutcome ==
  ASSUME NEW s, stack # <<>>, Kind(Top.type) \in ObjectKinds, SlotsStop(s),
         Broken(s) \/ (Sound(it) /\ Closed(it, s, 1, 0))
  PROVE  Outcome
<1> DEFINE answer == s.errors = <<>>
<1>1. PopReturn(answer, s)  BY DEF SlotsStop
<1>2. \/ Broken(s) /\ answer = FALSE
      \/ answer = TRUE /\ Sound(it) /\ Closed(it, s, 1, 0)
  BY DEF Broken, Closed, Sound
<1> HIDE DEF answer
<1> QED  BY <1>1, <1>2, ObjectPops

\* Another stage for the activation on top.
LEMMA Retopped ==
  ASSUME IInv, stack # <<>>, NEW f, f \in Frames, f.type = Top.type,
         f.learn \in 0..MemberCount(f.type), SlotOk(f), stack' = Retop(f)
  PROVE  Held /\ stack' # <<>>
<1>1. FrameOk(Top)  BY TopFacts
<1>2. FrameOk(f)  BY <1>1 DEF FrameOk
<1> QED  BY <1>2, HeldTop

\* A slot that goes on to look for its key.
LEMMA SeekKeyOutcome ==
  ASSUME IInv, stack # <<>>, Sound(it), Top.slot \in 1..MemberCount(Top.type),
         NEW s, Same(it, s), SeekKey(s)
  PROVE  Outcome
<1> DEFINE f == [Top EXCEPT !.stage = "key"]
<1>1. Top \in Frames /\ FrameOk(Top)  BY TopFacts
<1>2. f \in Frames /\ f.type = Top.type /\ f.stage = "key" /\ f.slot = Top.slot /\ f.learn = Top.learn
  BY <1>1 DEF Frames, Stages
<1>3. SlotOk(f) /\ f.learn \in 0..MemberCount(f.type)
  BY <1>1, <1>2 DEF FrameOk, SlotOk
<1>4. stack' = Retop(f) /\ Continue("object", s)  BY DEF SeekKey
<1>5. Held  BY <1>2, <1>3, <1>4, Retopped
<1> QED  BY <1>4, <1>5, ContinueOutcome

\* A key that matched a member.
LEMMA MatchedOutcome ==
  ASSUME IInv, stack # <<>>, Sound(it), Kind(Top.type) = "object",
         Top.slot \in 1..MemberCount(Top.type),
         NEW i, i \in 1..MemberCount(Top.type),
         NEW learn, learn \in 0..MemberCount(Top.type),
         NEW m, Answers(it, m), Matched(i, m, learn)
  PROVE  Outcome
<1>1. Top \in Frames /\ FrameOk(Top) /\ Top.type \in Types  BY TopFacts
<1>2. MemberCount(Top.type) \in Nat /\ Members(Top.type)[i].type \in Types
  BY <1>1, SchemaFacts
<1>3. CASE m.ok
  <2> DEFINE f == [Top EXCEPT !.stage = "member", !.label = i, !.learn = learn]
             t == IF KeyOf(Top.type, i) \in Schema[Top.type].excluded THEN Skip
                  ELSE Members(Top.type)[i].type
  <2>1. stack' = Retop(f) /\ Call(t, m.s)  BY <1>3 DEF Matched
  <2>2. Same(it, m.s)  BY <1>3 DEF Answers
  <2>3. i \in Nat /\ learn \in Nat  BY <1>2
  <2>4. f \in Frames /\ f.type = Top.type /\ f.stage = "member" /\ f.slot = Top.slot /\ f.learn = learn
    BY <1>1, <2>3 DEF Frames, Stages
  <2>5. SlotOk(f) /\ f.learn \in 0..MemberCount(f.type)  BY <2>4 DEF SlotOk
  <2>6. Held  BY <2>1, <2>4, <2>5, Retopped
  <2>7. t \in Types \cup {Skip}  BY <1>2
  <2> HIDE DEF t, f
  <2> QED  BY <2>1, <2>2, <2>6, <2>7, CallOutcome
<1>4. CASE ~m.ok
  <2>1. SlotsStop(m.s) /\ Broken(m.s)  BY <1>4 DEF Matched, Answers
  <2> QED  BY <2>1, SlotsStopOutcome DEF ObjectKinds
<1> QED  BY <1>3, <1>4

\* The next element's parser is entered.
LEMMA ElementOutcome ==
  ASSUME IInv, stack # <<>>, Sound(it), NEW t, t \in Types, Element(t)
  PROVE  Outcome
<1> DEFINE f == [Top EXCEPT !.label = Top.slot]
<1>1. Top \in Frames /\ FrameOk(Top)  BY TopFacts
<1>2. /\ f \in Frames /\ f.type = Top.type /\ f.stage = Top.stage /\ f.slot = Top.slot
      /\ f.learn = Top.learn
  BY <1>1 DEF Frames
<1>3. SlotOk(f) /\ f.learn \in 0..MemberCount(f.type)  BY <1>1, <1>2 DEF FrameOk, SlotOk
<1>4. stack' = Retop(f) /\ Call(t, it)  BY DEF Element
<1>5. Held  BY <1>2, <1>3, <1>4, Retopped
<1>6. Same(it, it)  BY DEF Same
<1> QED  BY <1>4, <1>5, <1>6, CallOutcome

\* Skipping a value, the activation unchanged.
LEMMA CallSkipOutcome ==
  ASSUME Sound(it), NEW s, Same(it, s), stack' = stack, Call(Skip, s)
  PROVE  Outcome
  BY HeldSame, CallOutcome

-------------------------------------------------------------------------------
(***************************************************************************)
(* Objects.                                                                *)
(***************************************************************************)
\* A slot begins.
LEMMA ObjectSlotOutcome ==
  ASSUME IInv, ObjectSlot
  PROVE  Outcome
<1> DEFINE sep == CollectSeparator("}", it)
           e   == ObjectMaybeEnd(it)
           first == Top.slot = 1
           s   == IF first THEN SkipWhitespace(e.s) ELSE sep.s
           m   == KeyMatch(KeyOf(Top.type, Top.slot), s)
<1>1. /\ ctl = "object" /\ stack # <<>> /\ Kind(Top.type) = "object" /\ Top.stage = "slot"
      /\ FrameOk(Top) /\ Top.type \in Types /\ DocOk
  BY RunningFacts DEF ObjectSlot
<1>2. Sound(it) /\ Kind(Top.type) \in ObjectKinds  BY <1>1, Facts DEF ObjectKinds
<1>3. Ends(it, e, 1, 0) /\ Separates(it, sep, 1, 0)  BY <1>1, <1>2, ObjectEnds
<1>4. Top.slot \in 1..MemberCount(Top.type)  BY <1>1 DEF FrameOk, SlotOk
<1>5. KeyOf(Top.type, Top.slot) \in Keys /\ MemberCount(Top.type) \in Nat
  BY <1>1, <1>4, SchemaFacts
<1>6. CASE first /\ e.ok
  <2>1. SlotsStop(e.s)  BY <1>6 DEF ObjectSlot
  <2>2. Closed(it, e.s, 1, 0)  BY <1>3, <1>6 DEF Ends
  <2> QED  BY <1>1, <1>2, <2>1, <2>2, SlotsStopOutcome
<1>7. CASE ~first /\ sep.sep # "cont"
  <2>1. SlotsStop(sep.s)  BY <1>7 DEF ObjectSlot
  <2>2. Broken(sep.s) \/ Closed(it, sep.s, 1, 0)  BY <1>3, <1>7 DEF Separates
  <2> QED  BY <1>1, <1>2, <2>1, <2>2, SlotsStopOutcome
<1>8. CASE ~(first /\ e.ok) /\ ~(~first /\ sep.sep # "cont")
  <2>1. Same(it, s)
    <3>1. CASE first
      <4>1. Same(it, e.s) /\ Sound(e.s)  BY <1>3, <1>8, <3>1 DEF Ends, Same
      <4>2. Same(it, SkipWhitespace(e.s))  BY <1>1, <4>1, SkipWhitespaceSame, SameTrans
      <4> QED  BY <3>1, <4>2
    <3>2. CASE ~first
      <4>1. sep.sep = "cont"  BY <1>8, <3>2
      <4>2. Same(it, sep.s)  BY <1>3, <4>1 DEF Separates
      <4> QED  BY <3>2, <4>2
    <3> QED  BY <3>1, <3>2
  <2>2. IF opts.knownOrder /\ m.hit THEN Matched(Top.slot, m, 0) ELSE SeekKey(s)
    BY <1>8 DEF ObjectSlot
  <2>3. m.hit => Answers(it, m)
    <3>1. Sound(s)  BY <2>1 DEF Same
    <3>2. m.hit => Answers(s, m)  BY <1>1, <1>5, <3>1, KeyMatchAnswers
    <3> HIDE DEF m, s
    <3>3. m.hit /\ ~m.ok => Broken(m.s)  BY <3>2 DEF Answers
    <3>4. m.hit /\ m.ok => Same(it, m.s)  BY <2>1, <3>2, SameTrans DEF Answers
    <3> QED  BY <3>2, <3>3, <3>4 DEF Answers
  <2>4. 0 \in 0..MemberCount(Top.type)  BY <1>5
  <2> HIDE DEF m, s
  <2> QED  BY <1>1, <1>2, <1>4, <2>1, <2>2, <2>3, <2>4, MatchedOutcome, SeekKeyOutcome
<1> QED  BY <1>6, <1>7, <1>8

\* collectComma succeeds only on a comma.
LEMMA CommaFound ==
  ASSUME NEW s, CollectComma(s).ok
  PROVE  Cur(SkipWhitespace(s)) = ","
<1>1. ASSUME NEW c, c \in Flats, NEW status, Expect(c, status, s).ok
      PROVE  Cur(SkipWhitespace(s)) = c
  <2> DEFINE w == SkipWhitespace(s)
             r == IncrementIfEquals(c, s)
  <2>1. c \notin {"{", "["}  BY <1>1 DEF Flats
  <2>2. r = IF Cur(w) = c THEN Pass(Advance(Nest(w, c))) ELSE Fail(w)
    BY <2>1 DEF IncrementIfEquals
  <2>3. Cur(w) # c => ~r.ok  BY <2>2, PassFail
  <2> HIDE DEF r
  <2>4. ~r.ok => Expect(c, status, s) = Fail(Reject(r.s, status))  BY DEF Expect, r
  <2>5. ~r.ok => ~Expect(c, status, s).ok  BY <2>4, PassFail
  <2> QED  BY <1>1, <2>3, <2>5
<1>2. "," \in Flats  BY DEF Flats
<1> QED  BY <1>1, <1>2 DEF CollectComma

\* A slot of minified direct Known Order.
LEMMA ObjectSlotFusedOutcome ==
  ASSUME IInv, ObjectSlotFused
  PROVE  Outcome
<1> DEFINE e     == ObjectMaybeEnd(it)
           first == Top.slot = 1
           c     == CollectComma(it)
           from  == IF first THEN it ELSE Advance(it)
           m     == KeyMatch(KeyOf(Top.type, Top.slot), from)
<1>1. /\ ctl = "object" /\ stack # <<>> /\ Kind(Top.type) = "object" /\ Top.stage = "slot"
      /\ FrameOk(Top) /\ Top.type \in Types /\ DocOk
  BY RunningFacts DEF ObjectSlotFused
<1>2. Sound(it) /\ Same(it, it) /\ Kind(Top.type) \in ObjectKinds
  BY <1>1, Facts DEF ObjectKinds, Same
<1>3. Ends(it, e, 1, 0)  BY <1>1, <1>2, ObjectEnds
<1>4. Top.slot \in 1..MemberCount(Top.type)  BY <1>1 DEF FrameOk, SlotOk
<1>5. KeyOf(Top.type, Top.slot) \in Keys /\ MemberCount(Top.type) \in Nat
  BY <1>1, <1>4, SchemaFacts
<1>6. Answers(it, c)  BY <1>1, <1>2, CollectAnswers
<1>7. CASE e.ok
  <2>1. SlotsStop(e.s)  BY <1>7 DEF ObjectSlotFused
  <2>2. Closed(it, e.s, 1, 0)  BY <1>3, <1>7 DEF Ends
  <2> QED  BY <1>1, <1>2, <2>1, <2>2, SlotsStopOutcome
<1>8. CASE ~e.ok /\ (first \/ c.ok) /\ m.hit
  <2>1. Matched(Top.slot, m, 0)  BY <1>8 DEF ObjectSlotFused
  <2>2. Same(it, from)
    <3>1. CASE first  BY <1>2, <3>1
    <3>2. CASE ~first
      <4>1. ~opts.partialRead /\ opts.minified  BY DEF ObjectSlotFused, Structural
      <4>2. SkipWhitespace(it) = it  BY <4>1 DEF SkipWhitespace
      <4>3. c.ok  BY <1>8, <3>2
      <4>4. Cur(it) = ","
        BY <4>2, <4>3, CommaFound
      <4>5. Cur(it) # "end"  BY <4>4
      <4>6. Same(it, Advance(it))  BY <1>1, <1>2, <4>5, AdvanceSame
      <4> QED  BY <3>2, <4>6
    <3> QED  BY <3>1, <3>2
  <2>3. Answers(it, m)
    <3>1. Sound(from)  BY <2>2 DEF Same
    <3>2. Answers(from, m)  BY <1>1, <1>5, <1>8, <3>1, KeyMatchAnswers
    <3> QED  BY <2>2, <3>2, SameTrans DEF Answers
  <2>4. 0 \in 0..MemberCount(Top.type)  BY <1>5
  <2> HIDE DEF m
  <2> QED  BY <1>1, <1>2, <1>4, <2>1, <2>3, <2>4, MatchedOutcome
<1>9. CASE ~e.ok /\ ~((first \/ c.ok) /\ m.hit)
  <2>1. IF first THEN SeekKey(it) ELSE IF c.ok THEN SeekKey(c.s) ELSE SlotsStop(c.s)
    BY <1>9 DEF ObjectSlotFused
  <2>2. c.ok => Same(it, c.s)  BY <1>6 DEF Answers
  <2>3. ~c.ok => Broken(c.s)  BY <1>6 DEF Answers
  <2> HIDE DEF c
  <2> QED  BY <1>1, <1>2, <1>4, <2>1, <2>2, <2>3, SeekKeyOutcome, SlotsStopOutcome
<1> QED  BY <1>7, <1>8, <1>9

\* A slot's remembered member is a member.
LEMMA HashFacts ==
  ASSUME IInv, stack # <<>>, Kind(Top.type) = "object"
  PROVE  /\ antiHash[Top.type] \in [1..MemberCount(Top.type) -> 1..MemberCount(Top.type)]
         /\ Top.type \in ObjectTypes
<1>1. Top.type \in Types /\ HashOk  BY TopFacts, Facts
<1>2. Top.type \in ObjectTypes  BY <1>1 DEF ObjectTypes
<1> QED  BY <1>1, <1>2 DEF HashOk

\* A turn of the slot's loop.
LEMMA ObjectKeyOutcome ==
  ASSUME IInv, ObjectKey
  PROVE  Outcome
<1> DEFINE t     == Top.type
           n     == MemberCount(t)
           h     == IF n = 1 THEN 1 ELSE antiHash[t][Top.slot]
           guess == KeyMatch(KeyOf(t, h), it)
           key   == SkipKey(it)
<1>1. /\ ctl = "object" /\ stack # <<>> /\ Kind(t) = "object" /\ Top.stage = "key"
      /\ Top \in Frames /\ FrameOk(Top) /\ t \in Types /\ DocOk
  BY RunningFacts DEF ObjectKey
<1>2. Sound(it) /\ Same(it, it) /\ Kind(t) \in ObjectKinds
  BY <1>1, Facts DEF ObjectKinds, Same
<1>3. Top.slot \in 1..n  BY <1>1 DEF FrameOk, SlotOk
<1>4. n \in Nat /\ \A i \in 1..n : KeyOf(t, i) \in Keys  BY <1>1, SchemaFacts
<1>5. h \in 1..n
  <2>1. antiHash[t] \in [1..n -> 1..n]  BY <1>1, HashFacts
  <2> QED  BY <1>3, <1>4, <2>1
<1>6. \A i \in 1..n : KeyMatch(KeyOf(t, i), it).hit => Answers(it, KeyMatch(KeyOf(t, i), it))
  BY <1>1, <1>2, <1>4, KeyMatchAnswers
<1>7. 0 \in 0..n /\ \A i \in 1..n : i \in 0..n  BY <1>4
<1>8. CASE guess.hit /\ Matched(h, guess, 0)
  <2>1. Answers(it, guess)  BY <1>5, <1>6, <1>8
  <2> HIDE DEF guess, h
  <2> QED  BY <1>1, <1>2, <1>3, <1>5, <1>7, <1>8, <2>1, MatchedOutcome
<1>9. ASSUME NEW i, i \in 1..n, KeyMatch(KeyOf(t, i), it).hit,
             Matched(i, KeyMatch(KeyOf(t, i), it), IF opts.knownOrder THEN i ELSE 0)
      PROVE  Outcome
  <2> DEFINE m == KeyMatch(KeyOf(t, i), it)
             l == IF opts.knownOrder THEN i ELSE 0
  <2>1. Answers(it, m)  BY <1>6, <1>9
  <2>2. l \in 0..n /\ Matched(i, m, l)  BY <1>7, <1>9
  <2> HIDE DEF m, l
  <2> QED  BY <1>1, <1>2, <1>3, <1>9, <2>1, <2>2, MatchedOutcome
<1>10. CASE IF key.ok
              THEN stack' = Retop([Top EXCEPT !.stage = "unknown"]) /\ Call(Skip, key.s)
              ELSE SlotsStop(key.s)
  <2>1. Answers(it, key)  BY <1>1, <1>2, SkipKeyAnswers
  <2>2. CASE key.ok
    <3> DEFINE f == [Top EXCEPT !.stage = "unknown"]
    <3>1. /\ f \in Frames /\ f.type = t /\ f.stage = "unknown" /\ f.slot = Top.slot
          /\ f.learn = Top.learn
      BY <1>1 DEF Frames, Stages
    <3>2. SlotOk(f) /\ f.learn \in 0..MemberCount(f.type)
      BY <1>1, <1>3, <3>1 DEF FrameOk, SlotOk
    <3>3. stack' = Retop(f) /\ Call(Skip, key.s) /\ Same(it, key.s)
      BY <1>10, <2>1, <2>2 DEF Answers
    <3>4. Held  BY <1>1, <3>1, <3>2, <3>3, Retopped
    <3> QED  BY <1>2, <3>3, <3>4, CallOutcome
  <2>3. CASE ~key.ok
    <3>1. SlotsStop(key.s) /\ Broken(key.s)  BY <1>10, <2>1, <2>3 DEF Answers
    <3> QED  BY <1>1, <1>2, <3>1, SlotsStopOutcome
  <2> QED  BY <2>2, <2>3
<1> QED  BY <1>8, <1>9, <1>10 DEF ObjectKey

\* A member's value has been parsed; the table stays one of members.
LEMMA MemberParsedOutcome ==
  ASSUME IInv, MemberParsed
  PROVE  Outcome /\ HashOk'
<1> DEFINE t == Top.type
           n == MemberCount(t)
<1>1. /\ ctl = "return" /\ stack # <<>> /\ Kind(t) = "object" /\ Top.stage = "member"
      /\ Top \in Frames /\ FrameOk(Top) /\ t \in Types
  BY RunningFacts DEF MemberParsed
<1>2. (ret => Sound(it)) /\ (~ret => Broken(it)) /\ Kind(t) \in ObjectKinds
  BY <1>1, Facts DEF ObjectKinds
<1>3. Top.slot \in 1..n /\ Top.learn \in 0..n  BY <1>1 DEF FrameOk, SlotOk
<1>4. n \in Nat  BY <1>1, SchemaFacts
<1>5. HashOk'
  <2>1. HashOk /\ antiHash[t] \in [1..n -> 1..n] /\ t \in ObjectTypes
    BY <1>1, Facts, HashFacts
  <2>2. CASE ret /\ Top.learn # 0
    <3>1. antiHash' = [antiHash EXCEPT ![t][Top.slot] = Top.learn]
      BY <2>2 DEF MemberParsed
    <3>2. Top.learn \in 1..n  BY <1>3, <1>4, <2>2
    <3>3. DOMAIN antiHash' = ObjectTypes  BY <2>1, <3>1 DEF HashOk
    <3>4. antiHash'[t] = [antiHash[t] EXCEPT ![Top.slot] = Top.learn]
      BY <2>1, <3>1 DEF HashOk
    <3>5. antiHash'[t] \in [1..n -> 1..n]  BY <2>1, <3>2, <3>4
    <3>6. \A u \in ObjectTypes : u # t => antiHash'[u] = antiHash[u]
      BY <2>1, <3>1 DEF HashOk
    <3>7. \A u \in ObjectTypes : antiHash'[u] \in [1..MemberCount(u) -> 1..MemberCount(u)]
      BY <2>1, <3>5, <3>6 DEF HashOk
    <3> QED  BY <3>3, <3>7 DEF HashOk
  <2>3. CASE ~(ret /\ Top.learn # 0)
    <3>1. antiHash' = antiHash  BY <2>3 DEF MemberParsed
    <3> QED  BY <2>1, <3>1 DEF HashOk
  <2> QED  BY <2>2, <2>3
<1>6. CASE ret
  <2> DEFINE st == IF Top.slot = n THEN "rest" ELSE "slot"
             f == [Top EXCEPT !.slot = @ + 1, !.learn = 0, !.stage = st]
             a == Top.slot + 1
  <2>0. st \in Stages /\ (st = "rest" \/ (st = "slot" /\ Top.slot # n))
    <3>1. CASE Top.slot = n  BY <3>1 DEF Stages
    <3>2. CASE Top.slot # n  BY <3>2 DEF Stages
    <3> QED  BY <3>1, <3>2
  <2>1. stack' = Retop(f) /\ Continue("object", it)  BY <1>6 DEF MemberParsed
  <2> HIDE DEF st
  <2>2. f \in Frames /\ f.type = t /\ f.slot = Top.slot + 1 /\ f.learn = 0 /\ f.stage = st
    <3>1. a \in Nat /\ f = [Top EXCEPT !.slot = a, !.learn = 0, !.stage = st]
      BY <1>1 DEF Frames
    <3> HIDE DEF a
    <3>2. f \in Frames /\ f.type = t /\ f.slot = a /\ f.learn = 0 /\ f.stage = st
      BY <1>1, <2>0, <3>1 DEF Frames
    <3> QED  BY <3>2 DEF a
  <2>3. SlotOk(f) /\ f.learn \in 0..MemberCount(f.type)
    BY <1>1, <1>3, <1>4, <2>0, <2>2 DEF SlotOk
  <2> HIDE DEF f
  <2>4. Held  BY <1>1, <2>1, <2>2, <2>3, Retopped
  <2>5. Sound(it) /\ Same(it, it)  BY <1>2, <1>6 DEF Same
  <2>6. Outcome  BY <2>1, <2>4, <2>5, ContinueOutcome
  <2> QED  BY <1>5, <2>6
<1>7. CASE ~ret
  <2>1. SlotsStop(it) /\ Broken(it)  BY <1>2, <1>7 DEF MemberParsed
  <2>2. Outcome  BY <1>1, <1>2, <2>1, SlotsStopOutcome
  <2> QED  BY <1>5, <2>2
<1> QED  BY <1>6, <1>7

\* The value of an unregistered key has been skipped.
LEMMA UnknownSkippedOutcome ==
  ASSUME IInv, UnknownSkipped
  PROVE  Outcome
<1> DEFINE sep == CollectSeparator("}", it)
<1>1. /\ ctl = "return" /\ stack # <<>> /\ Kind(Top.type) = "object" /\ Top.stage = "unknown"
      /\ FrameOk(Top)
  BY RunningFacts DEF UnknownSkipped
<1>2. (ret => Sound(it)) /\ (~ret => Broken(it)) /\ Kind(Top.type) \in ObjectKinds
  BY <1>1, Facts DEF ObjectKinds
<1>3. Top.slot \in 1..MemberCount(Top.type)  BY <1>1 DEF FrameOk, SlotOk
<1>4. ret => Separates(it, sep, 1, 0)  BY <1>1, <1>2, ObjectEnds
<1>5. CASE ret /\ sep.sep = "cont"
  <2>1. SeekKey(sep.s) /\ Same(it, sep.s)  BY <1>4, <1>5 DEF UnknownSkipped, Separates
  <2> QED  BY <1>1, <1>2, <1>3, <1>5, <2>1, SeekKeyOutcome
<1>6. CASE ret /\ sep.sep # "cont"
  <2>1. SlotsStop(sep.s)  BY <1>6 DEF UnknownSkipped
  <2>2. Broken(sep.s) \/ Closed(it, sep.s, 1, 0)  BY <1>4, <1>6 DEF Separates
  <2> QED  BY <1>1, <1>2, <1>6, <2>1, <2>2, SlotsStopOutcome
<1>7. CASE ~ret
  <2>1. SlotsStop(it) /\ Broken(it)  BY <1>2, <1>7 DEF UnknownSkipped
  <2> QED  BY <1>1, <1>2, <2>1, SlotsStopOutcome
<1> QED  BY <1>5, <1>6, <1>7

\* Every slot has taken its key.
LEMMA ObjectRestOutcome ==
  ASSUME IInv, ObjectRest
  PROVE  Outcome
<1> DEFINE e == ObjectMaybeEnd(it)
           c == CollectComma(e.s)
<1>1. /\ ctl = "object" /\ stack # <<>> /\ Kind(Top.type) = "object"
      /\ Top \in Frames /\ FrameOk(Top) /\ DocOk
  BY RunningFacts DEF ObjectRest
<1>2. Sound(it) /\ Kind(Top.type) \in ObjectKinds  BY <1>1, Facts DEF ObjectKinds
<1>3. Ends(it, e, 1, 0)  BY <1>1, <1>2, ObjectEnds
<1>4. CASE e.ok
  <2>1. PopReturn(TRUE, e.s)  BY <1>4 DEF ObjectRest
  <2>2. Closed(it, e.s, 1, 0)  BY <1>3, <1>4 DEF Ends
  <2> QED  BY <1>1, <1>2, <2>1, <2>2, ObjectPops
<1>5. CASE ~e.ok
  <2>1. Same(it, e.s) /\ Sound(e.s)  BY <1>3, <1>5 DEF Ends, Same
  <2>2. Answers(e.s, c)  BY <1>1, <2>1, CollectAnswers
  <2>3. CASE ~c.ok
    <3>1. PopReturn(FALSE, c.s)  BY <1>5, <2>3 DEF ObjectRest
    <3>2. Broken(c.s)  BY <2>2, <2>3 DEF Answers
    <3> QED  BY <1>1, <1>2, <3>1, <3>2, ObjectPops
  <2>4. CASE c.ok
    <3> DEFINE f == [Top EXCEPT !.stage = "remaining"]
               s == SkipWhitespace(c.s)
    <3>1. stack' = Retop(f) /\ Continue("object", s)  BY <1>5, <2>4 DEF ObjectRest
    <3>2. /\ f \in Frames /\ f.type = Top.type /\ f.stage = "remaining" /\ f.slot = Top.slot
          /\ f.learn = Top.learn
      BY <1>1 DEF Frames, Stages
    <3>3. SlotOk(f) /\ f.learn \in 0..MemberCount(f.type)
      BY <1>1, <3>2 DEF FrameOk, SlotOk
    <3>4. Held  BY <1>1, <3>1, <3>2, <3>3, Retopped
    <3>5. Same(e.s, c.s) /\ Sound(c.s)  BY <2>2, <2>4 DEF Answers, Same
    <3>6. Same(it, s)  BY <1>1, <2>1, <3>5, SkipWhitespaceSame, SameTrans
    <3> HIDE DEF s
    <3> QED  BY <1>2, <3>1, <3>4, <3>6, ContinueOutcome
  <2> QED  BY <2>3, <2>4
<1> QED  BY <1>4, <1>5

\* skipRemainingObject, a key.
LEMMA RemainingKeyOutcome ==
  ASSUME IInv, RemainingKey
  PROVE  Outcome
<1> DEFINE w   == SkipWhitespace(it)
           key == SkipKey(w)
<1>1. ctl = "object" /\ stack # <<>> /\ Kind(Top.type) = "object" /\ DocOk
  BY RunningFacts DEF RemainingKey
<1>2. Sound(it) /\ Kind(Top.type) \in ObjectKinds  BY <1>1, Facts DEF ObjectKinds
<1>3. Same(it, w) /\ Sound(w)  BY <1>1, <1>2, SkipWhitespaceSame DEF Same
<1>4. Answers(w, key)  BY <1>1, <1>3, SkipKeyAnswers
<1>5. CASE key.ok
  <2>1. Call(Skip, key.s) /\ stack' = stack  BY <1>5 DEF RemainingKey
  <2>2. Same(it, key.s)  BY <1>3, <1>4, <1>5, SameTrans DEF Answers
  <2> QED  BY <1>2, <2>1, <2>2, CallSkipOutcome
<1>6. CASE ~key.ok
  <2>1. PopReturn(FALSE, key.s)  BY <1>6 DEF RemainingKey
  <2>2. Broken(key.s)  BY <1>4, <1>6 DEF Answers
  <2> QED  BY <1>1, <1>2, <2>1, <2>2, ObjectPops
<1> QED  BY <1>5, <1>6

\* skipRemainingObject, its value.
LEMMA RemainingSkippedOutcome ==
  ASSUME IInv, RemainingSkipped
  PROVE  Outcome
<1> DEFINE sep == CollectSeparator("}", it)
<1>1. ctl = "return" /\ stack # <<>> /\ Kind(Top.type) = "object"
  BY RunningFacts DEF RemainingSkipped
<1>2. (ret => Sound(it)) /\ (~ret => Broken(it)) /\ Kind(Top.type) \in ObjectKinds
  BY <1>1, Facts DEF ObjectKinds
<1>3. ret => Separates(it, sep, 1, 0)  BY <1>1, <1>2, ObjectEnds
<1>4. CASE ~ret
  <2>1. PopReturn(FALSE, it) /\ Broken(it)  BY <1>2, <1>4 DEF RemainingSkipped
  <2> QED  BY <1>1, <1>2, <2>1, ObjectPops
<1>5. CASE ret /\ sep.sep = "cont"
  <2>1. Continue("object", sep.s) /\ stack' = stack  BY <1>5 DEF RemainingSkipped
  <2>2. Same(it, sep.s)  BY <1>3, <1>5 DEF Separates
  <2> QED  BY <1>2, <1>5, <2>1, <2>2, HeldSame, ContinueOutcome
<1>6. CASE ret /\ sep.sep # "cont"
  <2>1. PopReturn(sep.sep = "ended", sep.s)  BY <1>6 DEF RemainingSkipped
  <2>2. \/ sep.sep = "ended" /\ Closed(it, sep.s, 1, 0)
        \/ sep.sep # "ended" /\ Broken(sep.s)
    BY <1>3, <1>6 DEF Separates
  <2> DEFINE yes == sep.sep = "ended"
  <2>3. PopReturn(yes, sep.s)  BY <2>1
  <2>4. (yes = TRUE /\ Closed(it, sep.s, 1, 0)) \/ (yes = FALSE /\ Broken(sep.s))  BY <2>2
  <2> HIDE DEF yes, sep
  <2> QED  BY <1>1, <1>2, <1>6, <2>3, <2>4, ObjectPops
<1> QED  BY <1>4, <1>5, <1>6

-------------------------------------------------------------------------------
(***************************************************************************)
(* Maps.                                                                   *)
(***************************************************************************)
\* A map's next key.
LEMMA MapKeyOutcome ==
  ASSUME IInv, MapKey
  PROVE  Outcome
<1>1. ctl = "object" /\ stack # <<>>  BY RunningFacts DEF MapKey
<1>2. Sound(it)  BY <1>1, Facts
<1>3. Call(Key, it) /\ stack' = stack /\ Held /\ Same(it, it)
  BY <1>2, HeldSame DEF MapKey, Same
<1> QED  BY <1>1, <1>2, <1>3, CallOutcome

\* A map's key has been parsed.
LEMMA MapKeyParsedOutcome ==
  ASSUME IInv, MapKeyParsed
  PROVE  Outcome
<1> DEFINE c == CollectColon(it)
<1>1. /\ ctl = "return" /\ stack # <<>> /\ Kind(Top.type) = "map"
      /\ Top \in Frames /\ FrameOk(Top) /\ Top.type \in Types /\ DocOk
  BY RunningFacts DEF MapKeyParsed
<1>2. (ret => Sound(it)) /\ (~ret => Broken(it)) /\ Kind(Top.type) \in ObjectKinds
  BY <1>1, Facts DEF ObjectKinds
<1>3. ret => Answers(it, c)  BY <1>1, <1>2, CollectAnswers
<1>4. CASE ret /\ c.ok
  <2> DEFINE f == [Top EXCEPT !.stage = "mapvalue"]
  <2>1. stack' = Retop(f) /\ Call(Schema[Top.type].elem, c.s)  BY <1>4 DEF MapKeyParsed
  <2>2. /\ f \in Frames /\ f.type = Top.type /\ f.stage = "mapvalue" /\ f.slot = Top.slot
        /\ f.learn = Top.learn
    BY <1>1 DEF Frames, Stages
  <2>3. SlotOk(f) /\ f.learn \in 0..MemberCount(f.type)
    BY <1>1, <2>2 DEF FrameOk, SlotOk
  <2>4. Held  BY <1>1, <2>1, <2>2, <2>3, Retopped
  <2>5. Same(it, c.s)  BY <1>3, <1>4 DEF Answers
  <2>6. Schema[Top.type].elem \in Types \cup {Skip}  BY <1>1, SchemaFacts
  <2> QED  BY <1>2, <1>4, <2>1, <2>4, <2>5, <2>6, CallOutcome
<1>5. CASE ret /\ ~c.ok
  <2>1. PopReturn(FALSE, c.s) /\ Broken(c.s)  BY <1>3, <1>5 DEF MapKeyParsed, Answers
  <2> QED  BY <1>1, <1>2, <2>1, ObjectPops
<1>6. CASE ~ret
  <2>1. PopReturn(FALSE, it) /\ Broken(it)  BY <1>2, <1>6 DEF MapKeyParsed
  <2> QED  BY <1>1, <1>2, <2>1, ObjectPops
<1> QED  BY <1>4, <1>5, <1>6

\* A map's value has been parsed.
LEMMA MapValueParsedOutcome ==
  ASSUME IInv, MapValueParsed
  PROVE  Outcome
<1> DEFINE sep == CollectSeparator("}", it)
<1>1. /\ ctl = "return" /\ stack # <<>> /\ Kind(Top.type) = "map"
      /\ Top \in Frames /\ FrameOk(Top)
  BY RunningFacts DEF MapValueParsed
<1>2. (ret => Sound(it)) /\ (~ret => Broken(it)) /\ Kind(Top.type) \in ObjectKinds
  BY <1>1, Facts DEF ObjectKinds
<1>3. ret => Separates(it, sep, 1, 0)  BY <1>1, <1>2, ObjectEnds
<1>4. CASE ~ret
  <2>1. PopReturn(FALSE, it) /\ Broken(it)  BY <1>2, <1>4 DEF MapValueParsed
  <2> QED  BY <1>1, <1>2, <2>1, ObjectPops
<1>5. CASE ret /\ sep.sep = "cont"
  <2> DEFINE f == [Top EXCEPT !.stage = "mapkey"]
  <2>1. stack' = Retop(f) /\ Continue("object", sep.s)  BY <1>5 DEF MapValueParsed
  <2>2. /\ f \in Frames /\ f.type = Top.type /\ f.stage = "mapkey" /\ f.slot = Top.slot
        /\ f.learn = Top.learn
    BY <1>1 DEF Frames, Stages
  <2>3. SlotOk(f) /\ f.learn \in 0..MemberCount(f.type)
    BY <1>1, <2>2 DEF FrameOk, SlotOk
  <2>4. Held  BY <1>1, <2>1, <2>2, <2>3, Retopped
  <2>5. Same(it, sep.s)  BY <1>3, <1>5 DEF Separates
  <2> QED  BY <1>2, <1>5, <2>1, <2>4, <2>5, ContinueOutcome
<1>6. CASE ret /\ sep.sep # "cont"
  <2>1. PopReturn(sep.sep = "ended", sep.s)  BY <1>6 DEF MapValueParsed
  <2>2. \/ sep.sep = "ended" /\ Closed(it, sep.s, 1, 0)
        \/ sep.sep # "ended" /\ Broken(sep.s)
    BY <1>3, <1>6 DEF Separates
  <2> DEFINE yes == sep.sep = "ended"
  <2>3. PopReturn(yes, sep.s)  BY <2>1
  <2>4. (yes = TRUE /\ Closed(it, sep.s, 1, 0)) \/ (yes = FALSE /\ Broken(sep.s))  BY <2>2
  <2> HIDE DEF yes, sep
  <2> QED  BY <1>1, <1>2, <1>6, <2>3, <2>4, ObjectPops
<1> QED  BY <1>4, <1>5, <1>6

-------------------------------------------------------------------------------
(***************************************************************************)
(* Vectors, raw arrays and tuples.                                         *)
(***************************************************************************)
\* A vector's next element, or the end of the input.
LEMMA VectorElementOutcome ==
  ASSUME IInv, VectorElement
  PROVE  Outcome
<1>1. ctl = "array" /\ stack # <<>> /\ Kind(Top.type) = "vector" /\ Top.type \in Types
  BY RunningFacts DEF VectorElement
<1>2. Sound(it) /\ Placed(it) /\ Kind(Top.type) \in ArrayKinds
  BY <1>1, Facts DEF ArrayKinds
<1>3. Schema[Top.type].elem \in Types  BY <1>1, SchemaFacts
<1>4. Broken(Reject(it, "unexpected_string_end"))  BY <1>2, RejectBroken DEF ParseStatuses
<1>5. CASE Element(Schema[Top.type].elem)
  BY <1>1, <1>2, <1>3, <1>5, ElementOutcome
<1>6. CASE PopReturn(FALSE, Reject(it, "unexpected_string_end"))
  BY <1>1, <1>2, <1>4, <1>6, ArrayPops
<1> QED  BY <1>5, <1>6 DEF VectorElement

\* A vector's element has been parsed.
LEMMA VectorElementParsedOutcome ==
  ASSUME IInv, VectorElementParsed
  PROVE  Outcome
<1> DEFINE sep == CollectSeparator("]", it)
<1>1. /\ ctl = "return" /\ stack # <<>> /\ Kind(Top.type) = "vector"
      /\ Top \in Frames /\ FrameOk(Top)
  BY RunningFacts DEF VectorElementParsed
<1>2. (ret => Sound(it)) /\ (~ret => Broken(it)) /\ Kind(Top.type) \in ArrayKinds
  BY <1>1, Facts DEF ArrayKinds
<1>3. ret => Separates(it, sep, 0, 1)  BY <1>1, <1>2, ArrayEnds
<1>4. CASE ~ret
  <2>1. PopReturn(FALSE, it) /\ Broken(it)  BY <1>2, <1>4 DEF VectorElementParsed
  <2> QED  BY <1>1, <1>2, <2>1, ArrayPops
<1>5. CASE ret /\ sep.sep = "cont"
  <2> DEFINE f == [Top EXCEPT !.slot = @ + 1]
  <2>1. stack' = Retop(f) /\ Continue("array", sep.s)  BY <1>5 DEF VectorElementParsed
  <2>2. /\ f \in Frames /\ f.type = Top.type /\ f.stage = Top.stage /\ f.learn = Top.learn
    BY <1>1 DEF Frames
  <2>3. SlotOk(f) /\ f.learn \in 0..MemberCount(f.type)
    BY <1>1, <2>2 DEF FrameOk, SlotOk
  <2>4. Held  BY <1>1, <2>1, <2>2, <2>3, Retopped
  <2>5. Same(it, sep.s)  BY <1>3, <1>5 DEF Separates
  <2> QED  BY <1>2, <1>5, <2>1, <2>4, <2>5, ContinueOutcome
<1>6. CASE ret /\ sep.sep # "cont"
  <2>1. PopReturn(sep.sep = "ended", sep.s)  BY <1>6 DEF VectorElementParsed
  <2>2. \/ sep.sep = "ended" /\ Closed(it, sep.s, 0, 1)
        \/ sep.sep # "ended" /\ Broken(sep.s)
    BY <1>3, <1>6 DEF Separates
  <2> DEFINE yes == sep.sep = "ended"
  <2>3. PopReturn(yes, sep.s)  BY <2>1
  <2>4. (yes = TRUE /\ Closed(it, sep.s, 0, 1)) \/ (yes = FALSE /\ Broken(sep.s))  BY <2>2
  <2> HIDE DEF yes, sep
  <2> QED  BY <1>1, <1>2, <1>6, <2>3, <2>4, ArrayPops
<1> QED  BY <1>4, <1>5, <1>6

\* A raw array's next element, or one past its extent.
LEMMA ArrayElementOutcome ==
  ASSUME IInv, ArrayElement
  PROVE  Outcome
<1>1. ctl = "array" /\ stack # <<>> /\ Kind(Top.type) = "array" /\ Top.type \in Types
  BY RunningFacts DEF ArrayElement
<1>2. Sound(it) /\ Placed(it) /\ Same(it, it) /\ Kind(Top.type) \in ArrayKinds
  BY <1>1, Facts DEF ArrayKinds, Same
<1>3. Schema[Top.type].elem \in Types  BY <1>1, SchemaFacts
<1>4. Broken(Reject(it, "unexpected_string_end"))  BY <1>2, RejectBroken DEF ParseStatuses
<1>5. CASE Element(Schema[Top.type].elem)
  BY <1>1, <1>2, <1>3, <1>5, ElementOutcome
<1>6. CASE Call(Skip, it) /\ stack' = stack
  BY <1>2, <1>6, CallSkipOutcome
<1>7. CASE PopReturn(FALSE, Reject(it, "unexpected_string_end"))
  BY <1>1, <1>2, <1>4, <1>7, ArrayPops
<1> QED  BY <1>5, <1>6, <1>7 DEF ArrayElement

\* A raw array's element has been parsed or skipped.
LEMMA ArrayElementParsedOutcome ==
  ASSUME IInv, ArrayElementParsed
  PROVE  Outcome
<1> DEFINE e == ArrayMaybeEnd(it)
           c == CollectComma(e.s)
<1>1. /\ ctl = "return" /\ stack # <<>> /\ Kind(Top.type) = "array"
      /\ Top \in Frames /\ FrameOk(Top) /\ DocOk
  BY RunningFacts DEF ArrayElementParsed
<1>2. (ret => Sound(it)) /\ (~ret => Broken(it)) /\ Kind(Top.type) \in ArrayKinds
  BY <1>1, Facts DEF ArrayKinds
<1>3. ret => Ends(it, e, 0, 1)  BY <1>1, <1>2, ArrayEnds
<1>4. CASE ~ret
  <2>1. PopReturn(FALSE, it) /\ Broken(it)  BY <1>2, <1>4 DEF ArrayElementParsed
  <2> QED  BY <1>1, <1>2, <2>1, ArrayPops
<1>5. CASE ret /\ e.ok
  <2>1. PopReturn(TRUE, e.s)  BY <1>5 DEF ArrayElementParsed
  <2>2. Closed(it, e.s, 0, 1)  BY <1>3, <1>5 DEF Ends
  <2> QED  BY <1>1, <1>2, <1>5, <2>1, <2>2, ArrayPops
<1>6. CASE ret /\ ~e.ok
  <2>1. Same(it, e.s) /\ Sound(e.s)  BY <1>3, <1>6 DEF Ends, Same
  <2>2. Answers(e.s, c)  BY <1>1, <2>1, CollectAnswers
  <2>3. CASE ~c.ok
    <3>1. PopReturn(FALSE, c.s)  BY <1>6, <2>3 DEF ArrayElementParsed
    <3>2. Broken(c.s)  BY <2>2, <2>3 DEF Answers
    <3> QED  BY <1>1, <1>2, <3>1, <3>2, ArrayPops
  <2>4. CASE c.ok
    <3> DEFINE f == [Top EXCEPT !.slot = @ + 1]
    <3>1. stack' = Retop(f) /\ Continue("array", c.s)  BY <1>6, <2>4 DEF ArrayElementParsed
    <3>2. f \in Frames /\ f.type = Top.type /\ f.stage = Top.stage /\ f.learn = Top.learn
      BY <1>1 DEF Frames
    <3>3. SlotOk(f) /\ f.learn \in 0..MemberCount(f.type)
      BY <1>1, <3>2 DEF FrameOk, SlotOk
    <3>4. Held  BY <1>1, <3>1, <3>2, <3>3, Retopped
    <3>5. Same(it, c.s)  BY <2>1, <2>2, <2>4, SameTrans DEF Answers
    <3> QED  BY <1>2, <1>6, <3>1, <3>4, <3>5, ContinueOutcome
  <2> QED  BY <2>3, <2>4
<1> QED  BY <1>4, <1>5, <1>6

\* A tuple's next element.
LEMMA TupleElementOutcome ==
  ASSUME IInv, TupleElement
  PROVE  Outcome
<1>1. /\ ctl = "array" /\ stack # <<>> /\ Kind(Top.type) = "tuple" /\ Top.stage = "element"
      /\ FrameOk(Top) /\ Top.type \in Types
  BY RunningFacts DEF TupleElement
<1>2. Sound(it)  BY <1>1, Facts
<1>3. Top.slot \in 1..MemberCount(Top.type)  BY <1>1 DEF FrameOk, SlotOk
<1>4. Members(Top.type)[Top.slot].type \in Types  BY <1>1, <1>3, SchemaFacts
<1>5. Element(Members(Top.type)[Top.slot].type)  BY DEF TupleElement
<1> QED  BY <1>1, <1>2, <1>4, <1>5, ElementOutcome

\* A tuple's element has been parsed.
LEMMA TupleElementParsedOutcome ==
  ASSUME IInv, TupleElementParsed
  PROVE  Outcome
<1> DEFINE n    == MemberCount(Top.type)
           c    == IncrementIfEquals(",", it)
           last == Top.slot = n
<1>1. /\ ctl = "return" /\ stack # <<>> /\ Kind(Top.type) = "tuple" /\ Top.stage = "element"
      /\ Top \in Frames /\ FrameOk(Top) /\ Top.type \in Types /\ DocOk
  BY RunningFacts DEF TupleElementParsed
<1>2. (ret => Sound(it)) /\ (~ret => Broken(it)) /\ Kind(Top.type) \in ArrayKinds
  BY <1>1, Facts DEF ArrayKinds
<1>3. Top.slot \in 1..n /\ n \in Nat  BY <1>1, SchemaFacts DEF FrameOk, SlotOk
<1>4. ret => Same(it, it) /\ Same(it, c.s)
  <2>1. "," \in Flats  BY DEF Flats
  <2> QED  BY <1>1, <1>2, <2>1, IncrementFlat DEF Same
<1>5. CASE ~ret
  <2>1. PopReturn(FALSE, it) /\ Broken(it)  BY <1>2, <1>5 DEF TupleElementParsed
  <2> QED  BY <1>1, <1>2, <2>1, ArrayPops
<1>6. CASE ret /\ ~last /\ c.ok
  <2> DEFINE f == [Top EXCEPT !.slot = @ + 1]
  <2>1. stack' = Retop(f) /\ Continue("array", c.s)  BY <1>6 DEF TupleElementParsed
  <2>2. /\ f \in Frames /\ f.type = Top.type /\ f.stage = Top.stage /\ f.learn = Top.learn
        /\ f.slot = Top.slot + 1
    BY <1>1 DEF Frames
  <2>3. SlotOk(f) /\ f.learn \in 0..MemberCount(f.type)
    <3>0. Top.slot # n  BY <1>6
    <3>1. Top.slot + 1 \in 1..n
      <4> HIDE DEF n, f
      <4>1. n \in Nat /\ Top.slot \in 1..n  BY <1>3
      <4> QED  BY <3>0, <4>1
    <3>2. f.slot \in 1..MemberCount(f.type)  BY <2>2, <3>1
    <3> HIDE DEF f, n
    <3> QED  BY <1>1, <2>2, <3>2 DEF FrameOk, SlotOk
  <2>4. Held  BY <1>1, <2>1, <2>2, <2>3, Retopped
  <2> QED  BY <1>2, <1>4, <1>6, <2>1, <2>4, ContinueOutcome
<1>7. CASE ret /\ ~(~last /\ c.ok)
  <2> DEFINE f == [Top EXCEPT !.stage = "extra"]
             s == IF last THEN it ELSE c.s
  <2>1. stack' = Retop(f) /\ Continue("array", s)  BY <1>7 DEF TupleElementParsed
  <2>2. /\ f \in Frames /\ f.type = Top.type /\ f.stage = "extra" /\ f.slot = Top.slot
        /\ f.learn = Top.learn
    BY <1>1 DEF Frames, Stages
  <2>3. SlotOk(f) /\ f.learn \in 0..MemberCount(f.type)
    BY <1>1, <2>2 DEF FrameOk, SlotOk
  <2>4. Held  BY <1>1, <2>1, <2>2, <2>3, Retopped
  <2>5. Same(it, s)  BY <1>4, <1>7
  <2> HIDE DEF s
  <2> QED  BY <1>2, <1>7, <2>1, <2>4, <2>5, ContinueOutcome
<1> QED  BY <1>5, <1>6, <1>7

\* An element past the tuple's extent, or its end.
LEMMA TupleExtraOutcome ==
  ASSUME IInv, TupleExtra
  PROVE  Outcome
<1> DEFINE e == ArrayMaybeEnd(it)
           c == CollectComma(e.s)
<1>1. ctl = "array" /\ stack # <<>> /\ Kind(Top.type) = "tuple" /\ DocOk
  BY RunningFacts DEF TupleExtra
<1>2. Sound(it) /\ Kind(Top.type) \in ArrayKinds  BY <1>1, Facts DEF ArrayKinds
<1>3. Ends(it, e, 0, 1)  BY <1>1, <1>2, ArrayEnds
<1>4. CASE e.ok
  <2>1. PopReturn(TRUE, e.s)  BY <1>4 DEF TupleExtra
  <2>2. Closed(it, e.s, 0, 1)  BY <1>3, <1>4 DEF Ends
  <2> QED  BY <1>1, <1>2, <2>1, <2>2, ArrayPops
<1>5. CASE ~e.ok
  <2>1. Same(it, e.s) /\ Sound(e.s) /\ Placed(e.s)  BY <1>3, <1>5 DEF Ends, Same, Sound
  <2>2. Answers(e.s, c)  BY <1>1, <2>1, CollectAnswers
  <2>3. CASE ~NotAtEndPre(e.s)
    <3>1. PopReturn(FALSE, Reject(e.s, "unexpected_string_end"))  BY <1>5, <2>3 DEF TupleExtra
    <3>2. Broken(Reject(e.s, "unexpected_string_end"))  BY <2>1, RejectBroken DEF ParseStatuses
    <3> QED  BY <1>1, <1>2, <3>1, <3>2, ArrayPops
  <2>4. CASE NotAtEndPre(e.s) /\ ~c.ok
    <3>1. PopReturn(FALSE, c.s)  BY <1>5, <2>4 DEF TupleExtra
    <3>2. Broken(c.s)  BY <2>2, <2>4 DEF Answers
    <3> QED  BY <1>1, <1>2, <3>1, <3>2, ArrayPops
  <2>5. CASE NotAtEndPre(e.s) /\ c.ok
    <3>1. Call(Skip, c.s) /\ stack' = stack  BY <1>5, <2>5 DEF TupleExtra
    <3>2. Same(it, c.s)  BY <2>1, <2>2, <2>5, SameTrans DEF Answers
    <3> QED  BY <1>2, <3>1, <3>2, CallSkipOutcome
  <2> QED  BY <2>3, <2>4, <2>5
<1> QED  BY <1>4, <1>5

\* That element has been skipped.
LEMMA TupleExtraSkippedOutcome ==
  ASSUME IInv, TupleExtraSkipped
  PROVE  Outcome
<1>1. ctl = "return" /\ stack # <<>> /\ Kind(Top.type) = "tuple"
  BY RunningFacts DEF TupleExtraSkipped
<1>2. (ret => Sound(it)) /\ (~ret => Broken(it)) /\ Kind(Top.type) \in ArrayKinds
  BY <1>1, Facts DEF ArrayKinds
<1>3. CASE ret
  <2>1. Continue("array", it) /\ Held  BY <1>3, HeldSame DEF TupleExtraSkipped
  <2>2. Sound(it) /\ Same(it, it)  BY <1>2, <1>3 DEF Same
  <2> QED  BY <2>1, <2>2, ContinueOutcome
<1>4. CASE ~ret
  <2>1. PopReturn(FALSE, it) /\ Broken(it)  BY <1>2, <1>4 DEF TupleExtraSkipped
  <2> QED  BY <1>1, <1>2, <2>1, ArrayPops
<1> QED  BY <1>3, <1>4

-------------------------------------------------------------------------------
(***************************************************************************)
(* The invariant.                                                          *)
(***************************************************************************)
\* What a step that leaves the call alone keeps.
LEMMA StaticRigid ==
  ASSUME IInv, UNCHANGED static, skipped' \in BOOLEAN, depth' \in Nat
  PROVE  Rigid
<1>1. skipped \in BOOLEAN /\ hashed \in BOOLEAN /\ HashOk  BY Facts DEF IInv, TypeOK
<1>2. UNCHANGED <<doc, opts, target, prior, result, parses, antiHash, hashed>>
  BY DEF static, callVars
<1>3. HashOk'  BY <1>1, <1>2 DEF HashOk
<1> QED  BY <1>1, <1>2, <1>3 DEF Rigid

\* Every step of a parse but its end.
LEMMA ScalarsKeep == ASSUME IInv, Scalars PROVE IInv'
<1>1. depth \in Nat /\ skipped \in BOOLEAN  BY DEF IInv, TypeOK
<1>2. UNCHANGED <<static, depth, skipped>>
  BY DEF Scalars, ParseScalar, ParseKey, ParseOptional, ParseVariant, ParseSkip
<1>3. Rigid  BY <1>1, <1>2, StaticRigid
<1>4. Outcome
  BY ScalarOutcome, KeyOutcome, OptionalOutcome, VariantOutcome, SkipTypeOutcome DEF Scalars
<1> QED  BY <1>3, <1>4, OutcomeKeeps

\* Every step of skipValue.
LEMMA SkipsKeep == ASSUME IInv, Skips PROVE IInv'
<1>1. depth \in Nat /\ skipped \in BOOLEAN  BY DEF IInv, TypeOK
<1>2. UNCHANGED static /\ skipped' \in BOOLEAN
  BY <1>1 DEF Skips, SkipValue, SkipBracketed, SkipScalar
<1>3. depth' \in Nat
  <2>1. CASE SkipValue  BY <2>1 DEF SkipValue
  <2>2. CASE SkipBracketed  BY <2>2, SkipBracketedOutcome
  <2>3. CASE SkipScalar  BY <1>1, <2>3 DEF SkipScalar
  <2> QED  BY <2>1, <2>2, <2>3 DEF Skips
<1>4. Rigid  BY <1>2, <1>3, StaticRigid
<1>5. Outcome
  BY SkipValueOutcome, SkipScalarOutcome, SkipBracketedOutcome DEF Skips
<1> QED  BY <1>4, <1>5, OutcomeKeeps

\* The action's guard and frame conditions, whatever its outcome.
LEMMA Quiet == ASSUME IInv, UNCHANGED <<callVars, quiet>>, hashed' \in BOOLEAN, HashOk' PROVE Rigid
<1>1. depth \in Nat /\ skipped \in BOOLEAN  BY DEF IInv, TypeOK
<1>2. UNCHANGED <<doc, opts, target, prior, result, parses>> /\ depth' = depth /\ skipped' = skipped
  BY DEF callVars, quiet
<1> QED  BY <1>1, <1>2 DEF Rigid

\* What a step of a container leaves alone.
LEMMA QuietRigid == ASSUME IInv, UNCHANGED <<static, quiet>> PROVE Rigid
<1>1. depth \in Nat /\ skipped \in BOOLEAN  BY DEF IInv, TypeOK
<1>2. UNCHANGED static /\ depth' = depth /\ skipped' = skipped  BY DEF quiet
<1> QED  BY <1>1, <1>2, StaticRigid

\* Every step of an object.
LEMMA ObjectsKeep == ASSUME IInv, Objects PROVE IInv'
<1>1. HashOk /\ hashed \in BOOLEAN  BY Facts DEF IInv, TypeOK
<1>2. CASE ParseObject
  <2>1. UNCHANGED <<static, quiet>>  BY <1>2 DEF ParseObject, Open, quiet
  <2> QED  BY <1>2, <2>1, QuietRigid, ContainerOpens, OutcomeKeeps
<1>3. CASE ObjectSlot
  BY <1>3, QuietRigid, ObjectSlotOutcome, OutcomeKeeps DEF ObjectSlot
<1>4. CASE ObjectSlotFused
  BY <1>4, QuietRigid, ObjectSlotFusedOutcome, OutcomeKeeps DEF ObjectSlotFused
<1>5. CASE ObjectKey
  <2>1. UNCHANGED <<callVars, antiHash, quiet>> /\ hashed' \in BOOLEAN
    BY <1>1, <1>5 DEF ObjectKey
  <2>2. HashOk'  BY <1>1, <2>1 DEF HashOk
  <2>3. Rigid  BY <2>1, <2>2, Quiet
  <2> QED  BY <1>5, <2>3, ObjectKeyOutcome, OutcomeKeeps
<1>6. CASE MemberParsed
  <2>1. UNCHANGED <<callVars, hashed, quiet>>  BY <1>6 DEF MemberParsed
  <2>2. HashOk' /\ Outcome  BY <1>6, MemberParsedOutcome
  <2>3. Rigid  BY <1>1, <2>1, <2>2, Quiet
  <2> QED  BY <2>2, <2>3, OutcomeKeeps
<1>7. CASE UnknownSkipped
  BY <1>7, QuietRigid, UnknownSkippedOutcome, OutcomeKeeps DEF UnknownSkipped
<1>8. CASE ObjectRest
  BY <1>8, QuietRigid, ObjectRestOutcome, OutcomeKeeps DEF ObjectRest
<1>9. CASE RemainingKey
  BY <1>9, QuietRigid, RemainingKeyOutcome, OutcomeKeeps DEF RemainingKey
<1>10. CASE RemainingSkipped
  BY <1>10, QuietRigid, RemainingSkippedOutcome, OutcomeKeeps DEF RemainingSkipped
<1> QED
  BY <1>2, <1>3, <1>4, <1>5, <1>6, <1>7, <1>8, <1>9, <1>10 DEF Objects

\* Every step of a map.
LEMMA MapsKeep == ASSUME IInv, Maps PROVE IInv'
<1>1. CASE ParseMap
  <2>1. UNCHANGED <<static, quiet>>  BY <1>1 DEF ParseMap, Open, quiet
  <2> QED  BY <1>1, <2>1, QuietRigid, ContainerOpens, OutcomeKeeps
<1>2. CASE MapKey
  <2>1. UNCHANGED <<static, quiet>>  BY <1>2 DEF MapKey
  <2> QED  BY <1>2, <2>1, QuietRigid, MapKeyOutcome, OutcomeKeeps
<1>3. CASE MapKeyParsed
  BY <1>3, QuietRigid, MapKeyParsedOutcome, OutcomeKeeps DEF MapKeyParsed
<1>4. CASE MapValueParsed
  BY <1>4, QuietRigid, MapValueParsedOutcome, OutcomeKeeps DEF MapValueParsed
<1> QED  BY <1>1, <1>2, <1>3, <1>4 DEF Maps

\* Every step of a vector, raw array or tuple.
LEMMA ArraysKeep == ASSUME IInv, Arrays PROVE IInv'
<1>1. CASE ParseVector \/ ParseArray \/ ParseTuple
  <2>1. UNCHANGED <<static, quiet>>
    BY <1>1 DEF ParseVector, ParseArray, ParseTuple, Open, quiet
  <2> QED  BY <1>1, <2>1, QuietRigid, ContainerOpens, OutcomeKeeps
<1>2. CASE VectorElement
  BY <1>2, QuietRigid, VectorElementOutcome, OutcomeKeeps DEF VectorElement
<1>3. CASE VectorElementParsed
  BY <1>3, QuietRigid, VectorElementParsedOutcome, OutcomeKeeps DEF VectorElementParsed
<1>4. CASE ArrayElement
  BY <1>4, QuietRigid, ArrayElementOutcome, OutcomeKeeps DEF ArrayElement
<1>5. CASE ArrayElementParsed
  BY <1>5, QuietRigid, ArrayElementParsedOutcome, OutcomeKeeps DEF ArrayElementParsed
<1>6. CASE TupleElement
  BY <1>6, QuietRigid, TupleElementOutcome, OutcomeKeeps DEF TupleElement
<1>7. CASE TupleElementParsed
  BY <1>7, QuietRigid, TupleElementParsedOutcome, OutcomeKeeps DEF TupleElementParsed
<1>8. CASE TupleExtra
  BY <1>8, QuietRigid, TupleExtraOutcome, OutcomeKeeps DEF TupleExtra
<1>9. CASE TupleExtraSkipped
  BY <1>9, QuietRigid, TupleExtraSkippedOutcome, OutcomeKeeps DEF TupleExtraSkipped
<1> QED
  BY <1>1, <1>2, <1>3, <1>4, <1>5, <1>6, <1>7, <1>8, <1>9 DEF Arrays

\* The end of a parse.
LEMMA FinishKeeps == ASSUME IInv, FinishParse PROVE IInv'
<1> DEFINE done == CheckIfDone(it)
<1>1. DocOk /\ Placed(it) /\ HashOk /\ stack = <<>> /\ TypeOK /\ StackOk
  BY Facts DEF FinishParse, IInv
<1>2. /\ it' = done /\ result' = (done.errors = <<>>) /\ ctl' = "idle"
      /\ UNCHANGED <<doc, opts, target, stack, callee, ret, depth, antiHash, stored, skipped,
                     hashed, prior, parses>>
  BY DEF FinishParse
<1>3. /\ Placed(done)
      /\ done.errors = <<>> => it.errors = <<>> /\ done.obj = 0 /\ done.arr = 0
  BY <1>1, CheckIfDonePlaced
<1>4. Limit' = Limit  BY <1>2 DEF Limit, Structural
<1>5. it' \in IterState /\ it'.iter \in 1..(Limit' + 1)  BY <1>2, <1>3, <1>4 DEF Placed
<1>6. ObjectCount(<<>>) = 0 /\ ArrayCount(<<>>) = 0
  BY FS_EmptySet DEF ObjectCount, ArrayCount, ObjectFrames, ArrayFrames
<1>7. StackOk'
  <2>1. FramesOk' /\ NestingBounded'  BY <1>1, <1>2 DEF StackOk, FramesOk, NestingBounded
  <2>2. Counted'  BY <1>1, <1>2, <1>3, <1>6 DEF Counted
  <2> QED  BY <2>1, <2>2 DEF StackOk
<1> HIDE DEF done
<1>8. TypeOK'
  BY <1>1, <1>2, <1>5 DEF TypeOK
<1>9. ErrorsAgree' /\ KeyOk' /\ IdleOk' /\ SkipOk'
  BY <1>1, <1>2 DEF ErrorsAgree, KeyOk, IdleOk, SkipOk
<1> QED  BY <1>7, <1>8, <1>9 DEF IInv

\* The counts of an empty stack.
LEMMA EmptyStack ==
  ASSUME stack = <<>>, it \in IterState, it.obj = 0, it.arr = 0
  PROVE  StackOk
<1>1. ObjectCount(<<>>) = 0 /\ ArrayCount(<<>>) = 0
  BY FS_EmptySet DEF ObjectCount, ArrayCount, ObjectFrames, ArrayFrames
<1>2. FramesOk /\ NestingBounded  BY DepthAssumption DEF FramesOk, NestingBounded
<1>3. Counted  BY <1>1 DEF Counted
<1> QED  BY <1>2, <1>3 DEF StackOk

\* A parse begins where the last has ended.
LEMMA StartKeeps == ASSUME IInv, StartParse PROVE IInv'
<1>1. PICK u \in Uses : \E d \in u.documents, o \in u.options, t \in u.types :
        /\ doc' = d /\ opts' = o /\ target' = t
        /\ \/ it' = Begun(<<"no_input">>) /\ ctl' = "idle" /\ callee' = callee
           \/ it' = Begun(<<>>) /\ ctl' = "root" /\ callee' = t
  BY DEF StartParse
<1>2. /\ parses' = parses + 1 /\ stack' = <<>>
      /\ skipped' = FALSE /\ hashed' = FALSE /\ depth' = 0 /\ ret' = FALSE /\ result' = FALSE
      /\ antiHash' = antiHash
  BY DEF StartParse
<1>3. TypeOK  BY DEF IInv
<1>4. it' \in IterState /\ it'.iter = 1 /\ it'.obj = 0 /\ it'.arr = 0
  <2>1. <<"no_input">> \in Seq(ParseStatuses) /\ <<>> \in Seq(ParseStatuses)
    BY DEF ParseStatuses
  <2>2. ASSUME NEW es, es \in Seq(ParseStatuses), it' = Begun(es)
        PROVE  it' \in IterState /\ it'.iter = 1 /\ it'.obj = 0 /\ it'.arr = 0
    BY <2>2 DEF IterState, Begun
  <2> QED  BY <1>1, <2>1, <2>2
<1>5. doc'.text \in Seq(Lexemes) /\ doc'.tape \in Seq(Nat)  BY <1>1, UsesAssumption
<1>6. Limit' \in Nat  BY <1>5 DEF Limit
<1>7. it'.iter \in 1..(Limit' + 1)
  <2> DEFINE n == Limit'
  <2>1. n \in Nat /\ it'.iter = 1  BY <1>4, <1>6
  <2> HIDE DEF n
  <2>2. it'.iter \in 1..(n + 1)  BY <2>1
  <2> QED  BY <2>2 DEF n
<1>8. parses' \in Nat  BY <1>2, <1>3 DEF TypeOK
<1>9. /\ ctl' \in {"idle", "root"} /\ callee' \in Types \cup {Skip, Key}
      /\ target' \in Types \cup {Skip} /\ opts' \in Options
      /\ ctl' = "root" => it'.errors = <<>>
  BY <1>1, <1>3, UsesAssumption DEF TypeOK, Begun
<1>10. StackOk'
  <2>1. ObjectCount(<<>>) = 0 /\ ArrayCount(<<>>) = 0
    BY FS_EmptySet DEF ObjectCount, ArrayCount, ObjectFrames, ArrayFrames
  <2>2. FramesOk' /\ NestingBounded'  BY <1>2, DepthAssumption DEF FramesOk, NestingBounded
  <2>3. Counted'  BY <1>2, <1>4, <2>1 DEF Counted
  <2> QED  BY <2>2, <2>3 DEF StackOk
<1>11. TypeOK'
  <2>0. stack' \in Seq(Frames) /\ depth' \in Nat
    <3>1. <<>> \in Seq(Frames)  OBVIOUS
    <3> QED  BY <1>2, <3>1
  <2>1. /\ ret' \in BOOLEAN /\ result' \in BOOLEAN
        /\ skipped' \in BOOLEAN /\ hashed' \in BOOLEAN
    BY <1>2
  <2>2. HashOk'  BY <1>2, <1>3 DEF TypeOK, HashOk
  <2>3. ctl' \in {"idle", "root", "call", "return", "object", "array", "skip", "scan"}
    BY <1>9
  <2> QED  BY <1>4, <1>5, <1>7, <1>8, <1>9, <2>0, <2>1, <2>2, <2>3 DEF TypeOK, HashOk
<1>12. ErrorsAgree' /\ KeyOk' /\ IdleOk' /\ SkipOk'
  BY <1>2, <1>9 DEF ErrorsAgree, KeyOk, IdleOk, SkipOk
<1> QED  BY <1>10, <1>11, <1>12 DEF IInv

\* The invariant holds before the first call.
LEMMA InitHolds == ASSUME Init PROVE IInv
<1>1. /\ doc = [text |-> <<>>, tape |-> <<>>] /\ opts \in Options /\ target = Skip
      /\ it = [iter |-> 1, obj |-> 0, arr |-> 0, errors |-> <<>>]
      /\ stack = <<>> /\ ctl = "idle" /\ callee = Skip /\ ret = FALSE
      /\ depth = 0 /\ skipped = FALSE /\ hashed = FALSE /\ result = FALSE /\ parses = 0
      /\ antiHash = [t \in ObjectTypes |-> [i \in 1..MemberCount(t) |-> i]]
  BY DEF Init, Options, Begun
<1>2. it \in IterState /\ it.iter = 1 /\ it.obj = 0 /\ it.arr = 0  BY <1>1 DEF IterState
<1>3. doc.text \in Seq(Lexemes) /\ doc.tape \in Seq(Nat)  BY <1>1
<1>4. Limit = 0  BY <1>1 DEF Limit
<1>5. it.iter \in 1..(Limit + 1)  BY <1>2, <1>4
<1>6. HashOk  BY <1>1 DEF HashOk
<1>7. parses \in Nat  BY <1>1
<1>8. TypeOK
  <2>0. stack \in Seq(Frames) /\ depth \in Nat
    <3>1. <<>> \in Seq(Frames)  OBVIOUS
    <3> QED  BY <1>1, <3>1
  <2>1. /\ ret \in BOOLEAN /\ result \in BOOLEAN
        /\ skipped \in BOOLEAN /\ hashed \in BOOLEAN
    BY <1>1
  <2>2. /\ ctl \in {"idle", "root", "call", "return", "object", "array", "skip", "scan"}
        /\ callee \in Types \cup {Skip, Key} /\ target \in Types \cup {Skip}
        /\ opts \in Options
    BY <1>1
  <2> QED  BY <1>2, <1>3, <1>5, <1>6, <1>7, <2>0, <2>1, <2>2 DEF TypeOK, HashOk
<1>9. StackOk  BY <1>1, <1>2, EmptyStack
<1>10. ErrorsAgree /\ KeyOk /\ IdleOk /\ SkipOk
  BY <1>1 DEF ErrorsAgree, KeyOk, IdleOk, SkipOk
<1> QED  BY <1>8, <1>9, <1>10 DEF IInv

\* Nothing happens.
LEMMA StutterKeeps == ASSUME IInv, UNCHANGED vars PROVE IInv'
<1>1. UNCHANGED <<doc, opts, it, stack, ctl, callee, ret, depth, antiHash, target, skipped,
                  hashed, result, parses>>
  BY DEF vars
<1>2. TypeOK' /\ StackOk'
  <2>1. FramesOk'  BY <1>1 DEF IInv, StackOk, FramesOk
  <2>2. Counted' /\ NestingBounded'  BY <1>1 DEF IInv, StackOk, Counted, NestingBounded
  <2>3. Limit' = Limit  BY <1>1 DEF Limit, Structural
  <2>4. TypeOK'  BY <1>1, <2>3 DEF IInv, TypeOK
  <2> QED  BY <2>1, <2>2, <2>4 DEF StackOk
<1>3. Cur(it)' = Cur(it)  BY <1>1 DEF Cur, Lex, Pos, Structural
<1>4. ErrorsAgree' /\ KeyOk' /\ IdleOk' /\ SkipOk'
  BY <1>1, <1>3 DEF IInv, ErrorsAgree, KeyOk, IdleOk, SkipOk
<1> QED  BY <1>2, <1>4 DEF IInv

\* The conjunction that is inductive: the named properties, and what a frame,
\* a map's key and skipValue's bracket count rely on.
THEOREM Invariant == Spec => []IInv
<1>1. Init => IInv  BY InitHolds
<1>2. IInv /\ [Next]_vars => IInv'
  <2> SUFFICES ASSUME IInv, [Next]_vars  PROVE IInv'  OBVIOUS
  <2>1. CASE StartParse  BY <2>1, StartKeeps
  <2>2. CASE Scalars  BY <2>2, ScalarsKeep
  <2>3. CASE Skips  BY <2>3, SkipsKeep
  <2>4. CASE Objects  BY <2>4, ObjectsKeep
  <2>5. CASE Maps  BY <2>5, MapsKeep
  <2>6. CASE Arrays  BY <2>6, ArraysKeep
  <2>7. CASE FinishParse  BY <2>7, FinishKeeps
  <2>8. CASE UNCHANGED vars  BY <2>8, StutterKeeps
  <2> QED  BY <2>1, <2>2, <2>3, <2>4, <2>5, <2>6, <2>7, <2>8 DEF Next, Parsing
<1> QED  BY <1>1, <1>2, PTL DEF Spec

\* Every state of every parse has its type: the depth counters never go below
\* zero and the iterator never passes the end sentinel, whatever the documents,
\* the types and the options.
THEOREM TypeCorrect == Spec => []TypeOK
<1>1. IInv => TypeOK  BY DEF IInv
<1> QED  BY <1>1, Invariant, PTL

\* A nested parser answers FALSE exactly when an error has been recorded.
THEOREM ErrorsAgreeAlways == Spec => []ErrorsAgree
<1>1. IInv => ErrorsAgree  BY DEF IInv
<1> QED  BY <1>1, Invariant, PTL

\* The depth counters of the iterator count the active parsers.
THEOREM DepthCountsAlways == Spec => []DepthCounts
<1>1. IInv => DepthCounts  BY DEF IInv, StackOk, Counted, DepthCounts, ObjectCount, ArrayCount
<1> QED  BY <1>1, Invariant, PTL

\* maxDepth bounds the recursion, whatever the document.
THEOREM NestingBoundedAlways == Spec => []NestingBounded
<1>1. IInv => NestingBounded  BY DEF IInv, StackOk
<1> QED  BY <1>1, Invariant, PTL
===============================================================================
