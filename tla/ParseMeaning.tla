----------------------------- MODULE ParseMeaning -----------------------------
(***************************************************************************)
(* JsonParse against the grammar: what parseJson accepts and what it       *)
(* stores, compared with what the document means.                          *)
(***************************************************************************)
EXTENDS JsonParse

Grammar == INSTANCE JsonGrammar

\* A call of parseJson has returned.
Done == ctl = "idle" /\ parses > 0

(***************************************************************************)
(* Soundness.                                                              *)
(***************************************************************************)
\* The structural mode compares the first characters of a literal and steps to
\* the next tape entry: it does not see what touches the literal (truex).
Forgiven(x) ==
  LET seen(p) == ~(x[p] = "junk" /\ p > 1 /\ x[p - 1] \in {"true", "null"})
      kept    == SelectSeq([p \in 1..Len(x) |-> p], seen)
  IN [i \in 1..Len(kept) |-> x[kept[i]]]

HasVariant(t) == Kind(t) = "variant" \/ Kind(Schema[t].elem) = "variant"

\* What the parser accepts without having skipped a value is JSON, but for what
\* touches a literal on the tape.  A variant is exempt: it takes a character no
\* JSON value starts with for a value that was left out.
AcceptedIsJson ==
  Done /\ result /\ ~skipped /\ ~HasVariant(target) =>
    Grammar!WellFormed(IF Structural THEN Forgiven(doc.text) ELSE doc.text)

(***************************************************************************)
(* Completeness.                                                           *)
(***************************************************************************)
Conforming ==
  /\ Grammar!WellFormed(doc.text)
  /\ Grammar!Conforms(doc.text, Grammar!Start(doc.text), target)
  /\ Grammar!Deepest(doc.text, MaxDepth)

PaddedScalar == Kind(target) \in {"num", "bool"} /\ \E p \in 1..Len(doc.text) : doc.text[p] = "ws"

\* A document of the type's shape, no deeper than maxDepth, is accepted in
\* either mode, whatever Known Order has learned from earlier documents; only a
\* number or a bool that is the whole document may not have whitespace around it.
ConformingIsAccepted == Done /\ Conforming /\ ~PaddedScalar => result

\* It stores in every member the value of that member's key and nothing else:
\* Known Order's table, unknown keys, excluded keys and the order of the keys
\* change nothing (Known_Order.md:41).
StoresWhatItMeans ==
  Done /\ Conforming /\ ~PaddedScalar =>
    stored = Grammar!Stores(doc.text, Grammar!Start(doc.text), target)

\* Known_Order.md:65: when a document follows one of the same shape, every
\* registered field is found without the hash map.
Flat(t) ==
  /\ Kind(t) = "object"
  /\ \A i \in 1..MemberCount(t) : Kind(Members(t)[i].type) \in {"num", "bool", "string", "null"}

TableConverges ==
  /\ Done /\ Flat(target) /\ opts.knownOrder
  /\ prior.ok /\ prior.opts.knownOrder
  /\ prior.target = target /\ prior.text = doc.text
  => ~hashed
===============================================================================
