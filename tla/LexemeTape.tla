------------------------------- MODULE LexemeTape -------------------------------
(***************************************************************************)
(* The tape of a document of lexemes (see JsonIterator), whitespace told   *)
(* from the rest or not.  A structural character or a string is always an  *)
(* entry; of a run of other lexemes that touch only the first is, and a    *)
(* scan for minified input takes whitespace for one of them.               *)
(***************************************************************************)
EXTENDS Integers, Sequences, SequencesExt

Runs(c, minified) == c \in {"num", "true", "null", "junk"} \/ (minified /\ c = "ws")

Entry(x, p, minified) ==
  IF Runs(x[p], minified) THEN p = 1 \/ ~Runs(x[p - 1], minified) ELSE x[p] # "ws"

\* What is kept of a sequence.
Kept(x, keep) ==
  LET upTo[n \in 0..Len(x)] ==
        IF n = 0 THEN <<>> ELSE IF keep[n] THEN Append(upTo[n - 1], x[n]) ELSE upTo[n - 1]
  IN upTo[Len(x)]

Entries(x, minified) ==
  Kept([p \in 1..Len(x) |-> p], [p \in 1..Len(x) |-> Entry(x, p, minified)])
===============================================================================
