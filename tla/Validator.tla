-------------------------------- MODULE Validator --------------------------------
(***************************************************************************)
(* validateJson: include/jsonifier-incl/parsing/validator.hpp with the     *)
(* parsers of validate_impl.hpp.  It walks the tape with the structural    *)
(* iterator of JsonIterator and needs no type.  A value is told by its     *)
(* first character; objects and arrays recurse, so that the activations    *)
(* in progress are a stack of opening brackets.  A FALSE is handed up      *)
(* through all of them at once.                                            *)
(***************************************************************************)
EXTENDS JsonIterator, SequencesExt

CONSTANTS
  MaxCalls     \* bound: calls in a row

VARIABLES
  ctl,      \* "idle"; "value", "key": an item is next; "after": one has been read
  stack,    \* the brackets of the objects and arrays in progress
  answer,   \* what the last call returned
  calls     \* calls made

vars == <<doc, opts, it, ctl, stack, answer, calls>>

TypeOK ==
  /\ doc.text \in Seq(Lexemes) /\ doc.tape \in Seq(1..Len(doc.text))
  /\ opts = [partialRead |-> TRUE, minified |-> FALSE, knownOrder |-> FALSE]
  /\ it.iter \in 1..(Len(doc.tape) + 1) /\ {it.obj, it.arr} \subseteq Nat
  /\ it.errors \in Seq(ParseStatuses)
  /\ ctl \in {"idle", "value", "key", "after"}
  /\ stack \in Seq({"{", "["})
  /\ answer \in BOOLEAN /\ calls \in 0..MaxCalls

Fresh == [iter |-> 1, obj |-> 0, arr |-> 0, errors |-> <<>>]

Top   == stack[Len(stack)]
Below == SubSeq(stack, 1, Len(stack) - 1)

Init ==
  /\ doc = [text |-> <<>>, tape |-> <<>>]
  /\ opts = [partialRead |-> TRUE, minified |-> FALSE, knownOrder |-> FALSE]
  /\ it = Fresh /\ ctl = "idle" /\ stack = <<>>
  /\ answer = FALSE /\ calls = 0

-------------------------------------------------------------------------------
\* validateJson up to its first call of impl.
ValidateJson(d) ==
  /\ ctl = "idle" /\ calls < MaxCalls
  /\ calls' = calls + 1
  /\ doc' = d
  /\ IF d.text = <<>>
       THEN it' = Reject(Fresh, "no_input") /\ answer' = FALSE /\ UNCHANGED ctl
       ELSE it' = Fresh /\ ctl' = "value" /\ UNCHANGED answer
  /\ UNCHANGED <<opts, stack>>

\* The parser on top answers FALSE, and with it every parser below.
Refuse(s) == it' = s /\ ctl' = "idle" /\ stack' = <<>> /\ answer' = FALSE

\* It answers TRUE, and the parser at the top of the rest goes on; after the
\* outermost one checkIfDone looks at what is left.
Accept(s, rest) ==
  /\ stack' = rest
  /\ IF rest = <<>>
       THEN /\ it' = CheckIfDone(s) /\ ctl' = "idle"
            /\ answer' = (CheckIfDone(s).errors = <<>>)
       ELSE it' = s /\ ctl' = "after" /\ UNCHANGED answer

static == <<doc, opts, calls>>

\* Bug: an empty container is not told from one with items.
ContainerNeverEmpty(open, close) ==
  LET r == IncrementIfEquals(open, it)
  IN IF r.ok THEN /\ it' = r.s /\ stack' = Append(stack, open) /\ UNCHANGED answer
                  /\ ctl' = IF open = "{" THEN "key" ELSE "value"
     ELSE Refuse(r.s)

\* The opening bracket of an object or array, and a closing one that follows.
Container(open, close) ==
  LET r == IncrementIfEquals(open, it)
      e == IncrementIfEquals(close, r.s)
  IN CASE ~r.ok -> Refuse(r.s)
       [] r.ok /\ e.ok -> Accept(e.s, stack)
       [] OTHER -> /\ it' = e.s /\ stack' = Append(stack, open) /\ UNCHANGED answer
                   /\ ctl' = IF open = "{" THEN "key" ELSE "value"

ValidateContainer ==
  /\ ctl = "value" /\ NotAtEndPre(it)
  /\ \/ Cur(it) = "{" /\ Container("{", "}")
     \/ Cur(it) = "[" /\ Container("[", "]")
  /\ UNCHANGED static

\* A string's characters are read from its opening quote on, and the reader
\* stops at once: a quote.
ValidateString ==
  /\ ctl = "value" /\ AtQuote(it)
  /\ Accept(Advance(it), stack)
  /\ UNCHANGED static

\* Nothing touches the lexeme under the cursor.
Alone(s) == Lex(Pos(s) + 1) \in {"{", "}", "[", "]", ":", ",", "ws", "end", "open"} \cup Keys

\* A run that begins like a number, of which only the start is looked at: one
\* that is no number passes or not.  It must not be the last entry of the tape.
ValidateNumber ==
  /\ ctl = "value" /\ Cur(it) \in {"num", "junk"}
  /\ \/ NotAtEndPre(Advance(it)) /\ Accept(Advance(it), stack)
     \/ /\ ~(NotAtEndPre(Advance(it)) /\ Cur(it) = "num" /\ Alone(it))
        /\ Refuse(Advance(it))
  /\ UNCHANGED static

\* true, false or null, whatever touches it.
ValidateLiteral ==
  /\ ctl = "value" /\ Cur(it) \in {"true", "null"}
  /\ Accept(Advance(it), stack)
  /\ UNCHANGED static

\* No entry is left, none that begins a value, or a run of nothing known.
ValidateNothing ==
  /\ ctl = "value" /\ Cur(it) \in {"end", "}", "]", ":", ",", "junk"}
  /\ Refuse(it)
  /\ UNCHANGED static

\* A member's key and its colon.
Key ==
  /\ ctl = "key"
  /\ LET r == IncrementIfEquals(":", Advance(it))
     IN IF AtQuote(it) /\ r.ok
          THEN it' = r.s /\ ctl' = "value" /\ UNCHANGED <<stack, answer>>
          ELSE Refuse(IF AtQuote(it) THEN r.s ELSE it)
  /\ UNCHANGED static

\* Bug: either bracket closes either container.
AfterAnyBracket ==
  /\ ctl = "after"
  /\ CASE Cur(it) = "," -> /\ it' = Advance(it) /\ UNCHANGED <<stack, answer>>
                           /\ ctl' = IF Top = "{" THEN "key" ELSE "value"
       [] Cur(it) \in {"}", "]"} ->
            Accept(Advance(Nest(it, IF Top = "{" THEN "}" ELSE "]")), Below)
       [] OTHER -> Refuse(it)
  /\ UNCHANGED static

\* After an item: a comma, or the end of the container.
After ==
  /\ ctl = "after"
  /\ LET comma == IncrementIfEquals(",", it)
         close == IncrementIfEquals(IF Top = "{" THEN "}" ELSE "]", it)
     IN CASE comma.ok -> /\ it' = comma.s /\ UNCHANGED <<stack, answer>>
                         /\ ctl' = IF Top = "{" THEN "key" ELSE "value"
          [] close.ok -> Accept(close.s, Below)
          [] OTHER -> Refuse(close.s)
  /\ UNCHANGED static

Value == ValidateContainer \/ ValidateString \/ ValidateNumber \/ ValidateLiteral \/ ValidateNothing

Walk == Value \/ Key \/ After
==================================================================================
