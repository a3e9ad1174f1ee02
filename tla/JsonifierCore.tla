------------------------------ MODULE JsonifierCore ------------------------------
(***************************************************************************)
(* One jsonifier_core (include/jsonifier-incl/core/jsonifier_core.hpp):    *)
(* the minifier, the prettifier and the validator inherit from it and      *)
(* share its error list, its buffer and its tape, so that a call begins    *)
(* where another left them.  A caller formats documents, gives one call    *)
(* what another wrote, and validates what it has.                          *)
(*                                                                         *)
(* errors is the list all of them share: every step of the validator       *)
(* leaves its own there.                                                   *)
(***************************************************************************)
EXTENDS Formatter

CONSTANTS
  Received,   \* documents to validate as they are
  MaxDepth    \* parse_options::maxDepth

ASSUME DepthAssumption == MaxDepth \in Nat

VARIABLES
  doc, opts, it, ctl, stack, answer,   \* the validator
  validations,                         \* validateJson calls made
  verdict                              \* history: what the call before the last answered

checkVars  == <<doc, opts, it, ctl, stack, answer, validations>>
formatVars == <<op, text, iter, out, indent, depth, ok, before, calls>>
coreVars   == <<vars, checkVars, verdict>>

V == INSTANCE Validator WITH calls <- validations, MaxCalls <- 2

Text(x) == [text |-> x, tape |-> Entries(x, FALSE)]

\* Whitespace is a maximal run.
IsText(x) ==
  x \in Seq(V!Lexemes) /\ \A p \in 1..(Len(x) - 1) : x[p] # "ws" \/ x[p + 1] # "ws"

ASSUME LexemesAssumption == Keys # {} /\ Keys \cap (V!Marks \cup {"end", "cut"}) = {}
ASSUME DocumentsAssumption ==
  /\ \A x \in Documents \cup Again : IsText(x)
  /\ \A d \in Received : IsText(d.text) /\ d = Text(d.text)

CoreInit == Init /\ V!Init /\ verdict = FALSE

-------------------------------------------------------------------------------
Idle == op = "idle" /\ ctl = "idle"

Format ==
  /\ validations = 0 /\ Next
  /\ UNCHANGED <<checkVars, verdict>>

\* What was written can be read back by this model: no lexeme was cut, and there
\* is no junk, which to the formatters begins with nothing that begins a value and
\* to the validator may.
Whole == ok /\ {"cut", "junk"} \cap (ToSet(out) \cup ToSet(text)) = {}

Validate(d) ==
  /\ V!ValidateJson(d)
  /\ errors' = it'.errors                       \* getErrors().clear()
  /\ UNCHANGED formatVars

ValidateReceived ==
  /\ Idle /\ calls = 0 /\ validations = 0
  /\ \E d \in Received : Validate(d)
  /\ UNCHANGED verdict

\* What the first call wrote, and then what it was given.  The bound: nothing is
\* validated after the second.
ValidateWritten ==
  /\ Idle /\ calls = 1 /\ validations = 0 /\ Whole
  /\ Validate(Text(out))
  /\ UNCHANGED verdict

ValidateSource ==
  /\ Idle /\ calls = 1 /\ validations = 1
  /\ Validate(Text(text))
  /\ verdict' = answer

Check ==
  /\ V!Walk
  /\ errors' = it'.errors
  /\ UNCHANGED <<formatVars, verdict>>

CoreNext == Format \/ ValidateReceived \/ ValidateWritten \/ ValidateSource \/ Check
CoreSpec == CoreInit /\ [][CoreNext]_coreVars

-------------------------------------------------------------------------------
\* The list all calls share speaks of the last one alone: minifying and
\* prettifying answer FALSE exactly when it holds an error, one, and what the
\* validator says TRUE of leaves none there (documentation/Errors.md:3, :17;
\* minifier.hpp:86, prettifier.hpp:50, validator.hpp:72).
AnswerMatchesErrors ==
  /\ Idle /\ calls > 0 /\ validations = 0 => (ok <=> errors = <<>>) /\ Len(errors) <= 1
  /\ Idle /\ validations > 0 /\ answer => errors = <<>>
=================================================================================
