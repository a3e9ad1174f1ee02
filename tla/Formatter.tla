-------------------------------- MODULE Formatter --------------------------------
(***************************************************************************)
(* minifyJson and prettifyJson (include/jsonifier-incl/serializing/        *)
(* minifier.hpp and prettifier.hpp): two walks over the tape of a          *)
(* document, each taking one entry a turn and writing to the buffer the    *)
(* calls share.  The minifier scans as for any input and works one entry   *)
(* behind its iterator; the prettifier scans as for minified input.        *)
(*                                                                         *)
(* A document and what is written are lexemes.  "ws" stands for any run    *)
(* of whitespace, whose length is the state's indent; "cut" stands for the *)
(* first character of a lexeme that has more.  A run of "junk" begins with *)
(* no character that begins a value.                                       *)
(***************************************************************************)
EXTENDS LexemeTape

CONSTANTS
  Keys,        \* the quoted strings of documents
  Documents,   \* documents a caller may have for the first call
  Again,       \* and for the calls after it
  MaxCalls,    \* bound: calls in a row
  IndentSize   \* prettify_options::indentSize

ASSUME IndentAssumption == IndentSize \in Nat /\ MaxCalls \in Nat

VARIABLES
  op,       \* "idle", "minify", "prettify": the call in progress
  text,     \* its input
  iter,     \* the tape entry that is next
  out,      \* what the buffer holds
  indent,
  depth,
  errors,   \* the error list of jsonifier_core
  ok,       \* the answer of the last call
  before,   \* history: [op, text, out, ok] of the last call and the one before
  calls     \* calls begun so far

vars == <<op, text, iter, out, indent, depth, errors, ok, before, calls>>

Strings == Keys \cup {"open"}
tape    == Entries(text, op = "prettify")
At(i)   == IF i \in 1..Len(tape) THEN text[tape[i]] ELSE "end"

\* The characters from entry i up to the next one.
Stretch(i) == SubSeq(text, tape[i], IF i < Len(tape) THEN tape[i + 1] - 1 ELSE Len(text))

WithoutEndWs(x) == IF x # <<>> /\ Last(x) = "ws" THEN Front(x) ELSE x

\* Written one after the other, two stretches of whitespace are one.
Join(x, y) == IF x # <<>> /\ y # <<>> /\ Last(x) = "ws" /\ Head(y) = "ws"
                THEN x \o Tail(y) ELSE x \o y

Write(x) == out' = Join(out, x)

Finish(answer) ==
  /\ op' = "idle" /\ ok' = answer
  /\ before' = <<[op |-> op, text |-> text, out |-> out', ok |-> answer], before[1]>>

Given == IF calls = 0 THEN Documents ELSE Again

\* Bug: the errors of the call before are kept.
BeginStale(which) ==
  /\ op = "idle" /\ calls < MaxCalls
  /\ calls' = calls + 1
  /\ \E x \in Given \cup {out} :
       /\ text' = x
       /\ out' = <<>> /\ indent' = 0 /\ depth' = 0
       /\ op' = which /\ UNCHANGED <<ok, before, errors>>

\* What both do first.  The document is the caller's or what the last call gave;
\* one with no entry is an error.
Begin(which) ==
  /\ op = "idle" /\ calls < MaxCalls
  /\ calls' = calls + 1
  /\ \E x \in Given \cup (IF ok /\ "cut" \notin ToSet(out) THEN {out} ELSE {}) :
       /\ text' = x
       /\ out' = <<>> /\ indent' = 0 /\ depth' = 0
       /\ IF Entries(x, which = "prettify") = <<>>
            THEN /\ errors' = <<"no_input">> /\ op' = "idle" /\ ok' = FALSE
                 /\ before' = <<[op |-> which, text |-> x, out |-> <<>>, ok |-> FALSE], before[1]>>
            ELSE errors' = <<>> /\ op' = which /\ UNCHANGED <<ok, before>>

-------------------------------------------------------------------------------
(***************************************************************************)
(* minifyJson.                                                             *)
(***************************************************************************)
StartMinify == Begin("minify") /\ iter' = 2

\* One turn of the loop: the entry before the iterator is written.
MinifyEntry ==
  /\ op = "minify" /\ iter <= Len(tape)
  /\ LET c == At(iter - 1)
     IN \/ /\ c \in Strings \cup {"num"}
           /\ Write(WithoutEndWs(Stretch(iter - 1)))
           /\ iter' = iter + 1 /\ UNCHANGED <<op, ok, before>>
        \/ /\ c \in {"{", "}", "[", "]", ":", ",", "true", "null"}
           /\ Write(<<c>>)
           /\ iter' = iter + 1 /\ UNCHANGED <<op, ok, before>>
        \/ /\ c = "junk"                 \* json_structural_type::unset
           /\ UNCHANGED out /\ Finish(TRUE) /\ UNCHANGED iter
  /\ UNCHANGED <<text, indent, depth, errors, calls>>

\* Bug: the entry the iterator is behind is left out.
MinifyLastNot ==
  /\ op = "minify" /\ iter > Len(tape)
  /\ UNCHANGED out /\ Finish(TRUE)
  /\ UNCHANGED <<text, iter, indent, depth, errors, calls>>

\* The last entry is written as one character, whatever it is.
MinifyLast ==
  /\ op = "minify" /\ iter > Len(tape)
  /\ \E c \in {"{", "}", "[", "]", ":", ",", "num", "cut"} :
       /\ \/ c = At(iter - 1)            \* a number may have one digit
          \/ c = "cut" /\ At(iter - 1) \in Strings \cup {"num", "true", "null", "junk"}
       /\ Write(<<c>>)
  /\ Finish(TRUE)
  /\ UNCHANGED <<text, iter, indent, depth, errors, calls>>

-------------------------------------------------------------------------------
(***************************************************************************)
(* prettifyJson.                                                           *)
(***************************************************************************)
StartPrettify == Begin("prettify") /\ iter' = 1

Goes == UNCHANGED <<op, ok, before, errors>>

\* A string, a number, a literal, a colon or a comma.
PrettifyValue ==
  /\ op = "prettify" /\ iter <= Len(tape)
  /\ LET c == At(iter)
     IN \/ c \in Strings \cup {"num"} /\ Write(Stretch(iter))
        \/ c \in {"true", "null"} /\ Write(<<c>>)
        \/ c \in {":", ","} /\ Write(<<c, "ws">>)
  /\ iter' = iter + 1 /\ Goes
  /\ UNCHANGED <<text, indent, depth, calls>>

\* Bug: nothing is written between the bracket and what it holds, and the
\* next entry is taken for its end.
PrettifyOpenBlind ==
  /\ op = "prettify" /\ At(iter) \in {"{", "["}
  /\ Write(<<At(iter), "ws">>) /\ iter' = iter + 2
  /\ indent' = indent + IndentSize /\ depth' = depth + 1
  /\ Goes /\ UNCHANGED <<text, calls>>

\* An opening bracket, with its closing one if that follows.  The indent of an
\* empty object is not taken back.
PrettifyOpen ==
  /\ op = "prettify" /\ At(iter) \in {"{", "["}
  /\ IF At(iter + 1) = IF At(iter) = "[" THEN "]" ELSE "}"
       THEN /\ Write(<<At(iter), At(iter + 1)>>) /\ iter' = iter + 2
            /\ indent' = indent + IF At(iter) = "[" THEN 0 ELSE IndentSize
            /\ UNCHANGED depth
       ELSE /\ Write(<<At(iter), "ws">>) /\ iter' = iter + 1
            /\ indent' = indent + IndentSize /\ depth' = depth + 1
  /\ Goes /\ UNCHANGED <<text, calls>>

PrettifyClose ==
  /\ op = "prettify" /\ At(iter) \in {"}", "]"}
  /\ indent' = indent - IndentSize /\ depth' = depth - 1
  /\ IF indent' < 0
       THEN /\ errors' = Append(errors, "incorrect_structural_index")
            /\ UNCHANGED out /\ Finish(FALSE) /\ UNCHANGED iter
       ELSE Write(<<"ws", At(iter)>>) /\ iter' = iter + 1 /\ Goes
  /\ UNCHANGED <<text, calls>>

\* The tape is done, or an entry is nothing that begins a value.
PrettifyEnd ==
  /\ op = "prettify" /\ At(iter) \in {"end", "ws", "junk"}
  /\ UNCHANGED out /\ Finish(TRUE)
  /\ UNCHANGED <<text, iter, indent, depth, errors, calls>>

-------------------------------------------------------------------------------
NoCall == [op |-> "idle", text |-> <<>>, out |-> <<>>, ok |-> FALSE]

Init ==
  /\ op = "idle" /\ text = <<>> /\ iter = 1 /\ out = <<>> /\ indent = 0 /\ depth = 0
  /\ errors = <<>> /\ ok = FALSE /\ before = <<NoCall, NoCall>> /\ calls = 0

Minify   == StartMinify \/ MinifyEntry \/ MinifyLast
Prettify == StartPrettify \/ PrettifyValue \/ PrettifyOpen \/ PrettifyClose \/ PrettifyEnd

Next == Minify \/ Prettify
Spec == Init /\ [][Next]_vars
===============================================================================
