------------------------------- MODULE MCDocuments -------------------------------
(***************************************************************************)
(* Documents for TLC: well-formed seeds and every text one edit away from  *)
(* a seed, which is where a walk over a document goes wrong.               *)
(***************************************************************************)
EXTENDS JsonIterator, SequencesExt

Tape(x) == SelectSeq([p \in 1..Len(x) |-> p], LAMBDA p : IsEntry(x, p))
Document(x) == [text |-> x, tape |-> Tape(x)]

\* Texts as the documents may be: whitespace and junk in maximal runs, an
\* unclosed string last.
Readable(x) ==
  /\ \A p \in 1..(Len(x) - 1) :
       /\ x[p] # "open"
       /\ x[p] \in {"ws", "junk"} => x[p + 1] # x[p]
       /\ x[p] \in {"num", "true", "null", "junk"} => x[p + 1] \notin {"num", "true", "null"}

Take(x, n) == SubSeq(x, 1, n)
From(x, n) == SubSeq(x, n, Len(x))
Edits(x, cs) ==
  {y \in {x} \cup {Take(x, n) : n \in 0..Len(x)}
         \cup {Take(x, n - 1) \o From(x, n + 1) : n \in 1..Len(x)}
         \cup {Take(x, n - 1) \o <<c>> \o From(x, n + 1) : n \in 1..Len(x), c \in cs}
         \cup {Take(x, n) \o <<c>> \o From(x, n + 1) : n \in 0..Len(x), c \in cs}
     : Readable(y)}

Documents_(seeds, cs) == {Document(x) : x \in UNION {Edits(s, cs) : s \in seeds}}
==================================================================================
