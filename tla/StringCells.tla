------------------------------- MODULE StringCells -------------------------------
(***************************************************************************)
(* The memory both kinds of string object keep their characters in: cells, *)
(* of which the first sizeVal are the content.  Offsets are counted from 0 *)
(* as in the source, so that cell i of dataVal is dataVal[i + 1].          *)
(***************************************************************************)
EXTENDS Integers, Sequences

CONSTANTS
  Chars,      \* the characters users write
  NUL,        \* value_type{}
  Raw         \* a cell nothing was written to

ASSUME CellsAssumption == NUL \notin Chars /\ Raw \notin Chars \cup {NUL}

Filled(x, n) == [i \in 1..n |-> x]

\* t copied, moved or constructed over the cells from an offset on.
Written(cells, offset, t) ==
  [k \in DOMAIN cells |-> IF k - offset \in DOMAIN t THEN t[k - offset] ELSE cells[k]]

\* The cells from one offset up to another.
Between(cells, i, j) == SubSeq(cells, i + 1, j)

Content(s) == Between(s.dataVal, 0, s.sizeVal)

Terminated(s) == [s EXCEPT !.dataVal = Written(@, s.sizeVal, <<NUL>>)]
Sized(s, n)   == Terminated([s EXCEPT !.sizeVal = n])

\* The characters of t come after the first n, over whatever is there.
Extended(s, n, t) == Sized([s EXCEPT !.dataVal = Written(@, n, t)], n + Len(t))

\* The characters behind a position make room for those of t.
Spread(s, position, t) ==
  LET moved == Written(s.dataVal, position + Len(t), Between(s.dataVal, position, s.sizeVal))
  IN [s EXCEPT !.dataVal = Written(moved, position, t), !.sizeVal = @ + Len(t)]

Lesser(m, n) == IF m < n THEN m ELSE n

\* The first characters go, those behind them move down.
Shifted(s, n) ==
  [s EXCEPT !.dataVal = Written(@, 0, Between(@, n, s.sizeVal)), !.sizeVal = @ - n]

\* Bug: the terminator is left where it was.
eraseOpen(s, count) == IF count = 0 THEN s ELSE Shifted(s, Lesser(count, s.sizeVal))

erase(s, count) == IF count = 0 THEN s ELSE Terminated(Shifted(s, Lesser(count, s.sizeVal)))
==================================================================================
