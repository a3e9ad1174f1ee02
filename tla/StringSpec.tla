-------------------------------- MODULE StringSpec --------------------------------
(***************************************************************************)
(* What a string object is to its user: a sequence of characters and the   *)
(* operations on it.  An object that holds fewer than limit characters     *)
(* refuses an operation whose result is longer and stays what it is, or is *)
(* left empty when it was to be constructed from too many characters.      *)
(***************************************************************************)
EXTENDS Integers, Sequences

CONSTANTS
  Chars,      \* the characters users write
  NUL,        \* value_type{}
  Texts,      \* the sequences operations are given
  Sizes       \* the lengths objects are resized to

VARIABLES value, limit

Fits(v) == Len(v) < limit
Becomes(v) == value' = IF Fits(v) THEN v ELSE value

Prefix(n) == SubSeq(value, 1, n)
Suffix(n) == SubSeq(value, n + 1, Len(value))

NULs(n) == [i \in 1..n |-> NUL]
Made(v) == IF Fits(v) THEN v ELSE <<>>

Init == limit \in Nat /\ value = NULs(Len(value)) /\ Fits(value)

Assign    == \E v \in Texts : value' = Made(v)
AppendAll == \E v \in Texts \cup {value} : Becomes(value \o v)
Prepend   == \E v \in Texts : value' = IF Fits(Made(v) \o value) THEN Made(v) \o value ELSE Made(v)
Push      == \E c \in Chars : Becomes(Append(value, c))
Insert    == \E v \in Texts, n \in 0..Len(value) : Becomes(Prefix(n) \o v \o Suffix(n))
InsertOne == \E c \in Chars, n \in 0..Len(value) : Becomes(Prefix(n) \o <<c>> \o Suffix(n))
Erase     == \E n \in 0..Len(value) : value' = Suffix(n)
Cut       == \E n \in 0..Len(value) : \E k \in 0..(Len(value) - n) : value' = SubSeq(value, n + 1, n + k)
Resize    == \E n \in Sizes : Becomes(IF n <= Len(value) THEN Prefix(n) ELSE value \o NULs(n - Len(value)))
Renew     == value' = NULs(Len(value')) /\ Len(value') < limit

Next ==
  /\ \/ Assign \/ AppendAll \/ Prepend \/ Push \/ Insert \/ InsertOne
     \/ Erase \/ Cut \/ Resize \/ Renew
  /\ UNCHANGED limit

Spec == Init /\ [][Next]_<<value, limit>>
==================================================================================
