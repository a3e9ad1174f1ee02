------------------------------- MODULE CoreMeaning -------------------------------
(***************************************************************************)
(* What the calls of a jsonifier_core are for.  Minifying and prettifying  *)
(* change the whitespace of a document and nothing else; the validator     *)
(* tells JSON from the rest.  Well-formed is the grammar's word, which     *)
(* does not look at any of the walks.                                      *)
(***************************************************************************)
EXTENDS JsonifierCore

Grammar == INSTANCE JsonGrammar WITH Schema <- [t \in {} |-> t]

\* A document without its whitespace.
NoWs(x) == Kept(x, [p \in 1..Len(x) |-> x[p] # "ws"])

\* The root is no scalar: what the last turn of the minifier does to one is known
\* to differ (minifier.hpp:228-232).
Container(x) == Grammar!WellFormed(x) /\ NoWs(x)[1] \in {"{", "["}

Called(n, which) == before[n].op = which

Fed == before[1].text = before[2].out

\* A well-formed object or array loses its whitespace and nothing else, however
\* the iterator that runs one entry ahead and the backtracking over whitespace
\* meet (minifier.hpp:132-233).
MinifyKeepsTokens ==
  LET m == before[1]
  IN Called(1, "minify") /\ Container(m.text) => m.ok /\ m.out = NoWs(m.text)

\* Minifying what prettifying gave restores the minified object or array it was
\* given (documentation/Prettifying.md, Round-Tripping With Minifying).
RoundTrip ==
  LET p == before[2]
  IN /\ Called(1, "minify") /\ Called(2, "prettify") /\ Fed
     /\ Container(p.text) /\ p.text = NoWs(p.text)
     => before[1].ok /\ before[1].out = p.text

\* What prettifying keeps: "All keys and values", "nothing is dropped"
\* (documentation/Prettifying.md:102).
NothingDropped ==
  LET p == before[1]
  IN Called(1, "prettify") /\ Grammar!WellFormed(p.text) => NoWs(p.out) = NoWs(p.text)

-------------------------------------------------------------------------------
(***************************************************************************)
(* What the answer says of a document, by the grammar.                     *)
(***************************************************************************)
RootIsNumber == V!Lex(Grammar!Start(doc.text)) = "num"

Answered == ctl = "idle" /\ doc.text # <<>>

\* JSON within the depth limit is valid, but for a number that is the whole of
\* it: the number's parser wants an entry to follow (validate_impl.hpp:153-171).
WellFormedPasses ==
  Answered /\ Grammar!WellFormed(doc.text) /\ Grammar!Deepest(doc.text, MaxDepth)
  /\ ~RootIsNumber => answer

\* The first of a run of scalars that touch stands for a value, and the others
\* for nothing; a string that is open stands for one that is not.
Blurred(x) ==
  LET run(p) == p \in 1..Len(x) /\ Runs(x[p], FALSE)
  IN [p \in 1..Len(x) |->
        CASE run(p) /\ run(p - 1)                -> "ws"
          [] x[p] = "junk" /\ ~run(p - 1)        -> "num"
          [] x[p] = "open"                       -> CHOOSE k \in Keys : TRUE
          [] OTHER                               -> x[p]]

\* What passes nests, pairs its keys with values and separates its items as JSON
\* does, to the last character; only what a scalar is made of goes unseen
\* (validate_impl.hpp:36-106, json_iterator.hpp:1594-1607).
AcceptedHasShape == Answered /\ answer => Grammar!WellFormed(Blurred(doc.text))

\* Formatting never spoils a document: what the validator says TRUE of is still
\* valid to it minified or prettified, though it takes more than JSON and the two
\* walks stop without an error at what they do not know (minifier.hpp:222-226,
\* prettifier.hpp:262-264, validate_impl.hpp:36-106).  To the prettifier whitespace
\* is such a thing, so that its documents have none (see NothingDropped).
FormattingKeepsValidity ==
  Idle /\ validations = 2 /\ answer /\ (Called(1, "prettify") => NoWs(text) = text) => verdict
==================================================================================
