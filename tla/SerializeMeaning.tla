---------------------------- MODULE SerializeMeaning ----------------------------
(***************************************************************************)
(* What serializeJson is for: text that is JSON, that a parser of the same *)
(* type reads, and that means the value.                                   *)
(***************************************************************************)
EXTENDS Serializer, SequencesExt

\* A raw_json_data is read from any value, as a skipped one is.
Grammar == INSTANCE JsonGrammar WITH
  Schema <- [t \in Types |-> IF Kind(t) = "raw" THEN [Schema[t] EXCEPT !.kind = "skip"] ELSE Schema[t]]
NoWs(x) == SelectSeq(x, LAMBDA c : c # "ws")
Lexemes == [i \in 1..Len(out) |-> out[i].lex]
Text    == NoWs(Lexemes)
Done    == ctl = "done"

RECURSIVE Parts(_, _)
\* A value v of type t and all it holds.
Parts(t, v) == {[type |-> t, value |-> v]} \cup
  UNION {Parts(ItemType(t, v, i), v.items[i]) : i \in 1..Len(v.items)}

\* The two cases in which what is written is known not to be JSON: a prettified
\* tuple, and an object whose last member is excluded but not all of them.
TwoBrackets(t, v) == pretty /\ Kind(t) = "tuple" /\ v.items # <<>>
EndsInComma(t, v) ==
  /\ Kind(t) = "object" /\ v.items # <<>>
  /\ Key(t, Len(v.items)) \in v.excluded
  /\ \E i \in 1..Len(v.items) : Key(t, i) \notin v.excluded
Regular == \A p \in Parts(given.type, given.value) :
             ~TwoBrackets(p.type, p.value) /\ ~EndsInComma(p.type, p.value)

\* The items of v that are written.
Shown(t, v) ==
  LET all == [i \in 1..Len(v.items) |-> i]
  IN IF Kind(t) = "object" THEN SelectSeq(all, LAMBDA i : Key(t, i) \notin v.excluded) ELSE all
KeyOf(t, v, i) == IF Kind(t) = "object" THEN Key(t, i) ELSE v.keys[i]

RECURSIVE Means(_, _, _, _)
\* The text x at p means the value v of type t.
Means(x, p, t, v) ==
  CASE Kind(t) \in {"num", "bool", "string"}    -> x[p] = v.lex
    [] Kind(t) \in {"null", "skip"}             -> x[p] = "null"
    [] Kind(t) \in {"optional", "variant"}      ->
         IF v.items = <<>> THEN x[p] = "null" ELSE Means(x, p, ItemType(t, v, 1), v.items[1])
    [] Kind(t) = "raw"                          -> LET r == NoWs(v.raw) IN SubSeq(x, p, p + Len(r) - 1) = r
    [] OTHER ->
         LET items == Grammar!Items(x, p)
             shown == Shown(t, v)
         IN /\ x[p] = Opening(t)
            /\ Len(items) = Len(shown)
            /\ \A i \in 1..Len(items) :
                 /\ Kind(t) \in {"object", "map"} => items[i].key = KeyOf(t, v, shown[i])
                 /\ Means(x, items[i].at, ItemType(t, v, shown[i]), v.items[shown[i]])

\* What is written is JSON, prettified or not, and says what the value is: the
\* separators come from three different places (writeObjectExit, the loops and
\* the functor of tuples) and members may be excluded.  It has the shape that
\* the parser of the same type accepts (ConformingIsAccepted in ParseMeaning).
MeansTheValue ==
  Done /\ Regular =>
    /\ Grammar!WellFormed(Text)
    /\ Means(Text, 1, given.type, given.value)
    /\ Grammar!Conforms(Text, 1, given.type)

Lines == {i \in 1..Len(out) : out[i].line}
Within(i) == Grammar!Nesting(Lexemes, i) - (IF out[i + 1].lex \in {"}", "]"} THEN 1 ELSE 0)

\* A line is indented by the brackets around it, however deep (indent_table has
\* eight levels), whichever containers opened and closed before it.
IndentFollowsNesting ==
  Done /\ pretty /\ Regular =>
    \A i \in Lines : out[i + 1].line \/ out[i].indent = IndentSize * Within(i)

\* Errors.md:151: serialization "consumes a valid C++ object and produces valid
\* JSON".
ProducesJson == Done => Grammar!WellFormed(Text)
===============================================================================
