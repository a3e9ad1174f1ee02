-------------------------------- MODULE TapeSpec --------------------------------
(***************************************************************************)
(* What Stage 1 promises, with no blocks, masks or carries: it reads the   *)
(* document from front to back and the tape lists, in order, the place of  *)
(* every structural character, of every opening quote and of the first     *)
(* character of every other run of characters outside strings.             *)
(*                                                                         *)
(* A character is one of five classes: "esc" the backslash, "quote", "op"  *)
(* one of {}[]:,, "ws" whitespace, and "other".  Places count from 0.      *)
(***************************************************************************)
EXTENDS Integers, Sequences, FiniteSets, SequencesExt

VARIABLES
  text,      \* the document
  minified,  \* parse_options::minified: whitespace is not told from the rest
  scanned,   \* characters read
  entries    \* the tape

vars == <<text, minified, scanned, entries>>

Classes == {"esc", "quote", "op", "ws", "other"}

At(p) == text[p + 1]

\* An odd number of backslashes stands right before p.
Escaped(p) ==
  \E n \in 0..p : /\ n % 2 = 1
                  /\ \A q \in (p - n)..(p - 1) : At(q) = "esc"
                  /\ n < p => At(p - n - 1) # "esc"

Quote(p) == At(p) = "quote" /\ ~Escaped(p)

\* A string is open before p is read: an odd number of quotes has been.
Inside(p) == Cardinality({q \in 0..(p - 1) : Quote(q)}) % 2 = 1

\* Part of a number, a literal or of anything that is no JSON at all.
Scalar(p) == ~Quote(p) /\ At(p) # "op" /\ (At(p) = "ws" => minified)

Entry(p) ==
  /\ ~Inside(p)
  /\ \/ At(p) = "op"
     \/ Quote(p)
     \/ Scalar(p) /\ ~(p > 0 /\ Scalar(p - 1))

\* The members of S, each once and in order.
Lists(s, S) ==
  /\ s \in Seq(S) /\ Range(s) = S
  /\ \A i, j \in 1..Len(s) : i < j => s[i] < s[j]

Init == text = <<>> /\ minified \in BOOLEAN /\ scanned = 0 /\ entries = <<>>

Load ==
  /\ scanned = Len(text)
  /\ text' \in Seq(Classes) /\ minified' \in BOOLEAN
  /\ scanned' = 0 /\ entries' = <<>>

Scan ==
  /\ \E n \in (scanned + 1)..Len(text) :
       scanned' = n /\ Lists(entries', {p \in 0..(n - 1) : Entry(p)})
  /\ UNCHANGED <<text, minified>>

Next == Load \/ Scan

Spec == Init /\ [][Next]_vars
===============================================================================
